-------------------------- MODULE Executable_proofs --------------------------
(***************************************************************************)
(* Proofs about the managed network and about the retry loop over it.      *)
(*                                                                         *)
(* The network by itself (Spec): types, and the agreement of the lists,    *)
(* the account map and the channels with `_nodes'. Nothing here uses the   *)
(* constants of Executable.                                                *)
(*                                                                         *)
(* The loop (ExecSpec): its requests stay well-formed and in turn, no      *)
(* request starts to send to a node that backs off, and the loop           *)
(* implements RetryContract. What it needs of the network are the steps of *)
(* the first part.                                                         *)
(***************************************************************************)
EXTENDS Executable, FiniteSetTheorems, TLAPS

-----------------------------------------------------------------------------
(* What the operations of one node object leave alone *)

SameIdentity(m, n) == m.account = n.account /\ m.channel = n.channel

LEMMA DefaultTypes ==
    /\ Epoch \in Nat /\ MaxTime \in Nat /\ Epoch <= MaxTime
    /\ DefaultMinBackoff \in Nat /\ DefaultMaxBackoff \in Nat
    /\ Epoch + DefaultMinBackoff \in 0..MaxTime
    /\ DefaultMinBackoff \in 0..Epoch /\ DefaultMaxBackoff \in 0..Epoch
BY TimeAssumption DEF TimeAssumption

LEMMA LesserGreaterNat ==
    ASSUME NEW a \in Nat, NEW b \in Nat
    PROVE  Lesser(a, b) \in Nat /\ Greater(a, b) \in Nat /\ Lesser(a, b) <= b
BY DEF Lesser, Greater

LEMMA BackedOffFacts ==
    ASSUME now \in Nat, NEW n \in NodeFields
    PROVE  BackedOff(n) \in NodeFields /\ SameIdentity(BackedOff(n), n)
<1>1. n.currentBackoff * 2 \in Nat /\ n.maxBackoff \in Nat
  BY DEF NodeFields
<1>2. IncreasedBackoff(n) \in Nat
  BY <1>1, LesserGreaterNat DEF IncreasedBackoff
<1>3. now + IncreasedBackoff(n) \in Nat
  BY <1>2
<1>4. QED
  BY <1>2, <1>3 DEF BackedOff, NodeFields, SameIdentity

LEMMA RelievedFacts ==
    ASSUME NEW n \in NodeFields
    PROVE  Relieved(n) \in NodeFields /\ SameIdentity(Relieved(n), n)
<1>1. n.currentBackoff \div 2 \in Nat /\ n.minBackoff \in Nat
  BY DEF NodeFields
<1>2. Greater(n.currentBackoff \div 2, n.minBackoff) \in Nat
  BY <1>1, LesserGreaterNat
<1>3. QED
  BY <1>2 DEF Relieved, NodeFields, SameIdentity

LEMMA WithBackoffFacts ==
    ASSUME NEW n \in NodeFields, NEW b \in Nat
    PROVE  /\ WithMinBackoff(n, b) \in NodeFields /\ SameIdentity(WithMinBackoff(n, b), n)
           /\ WithMaxBackoff(n, b) \in NodeFields /\ SameIdentity(WithMaxBackoff(n, b), n)
BY DEF WithMinBackoff, WithMaxBackoff, NodeFields, SameIdentity

LEMMA ClosedFacts ==
    ASSUME NEW n \in NodeFields
    PROVE  /\ Closed(n) \in NodeFields
           /\ Closed(n).account = n.account /\ Closed(n).channel = FALSE
BY DEF Closed, NodeFields

LEMMA NewNodeFacts ==
    ASSUME now \in Nat, minBackoff \in Nat,
           NEW acct \in Account, NEW addr \in Address
    PROVE  /\ NewNode(acct, addr) \in NodeFields
           /\ NewNode(acct, addr).account = acct
           /\ NewNode(acct, addr).channel = FALSE
<1> DEFINE fresh == [account |-> acct, address |-> addr, readmitTime |-> now,
                     currentBackoff |-> DefaultMinBackoff,
                     minBackoff |-> DefaultMinBackoff,
                     maxBackoff |-> DefaultMaxBackoff,
                     channel |-> FALSE]
<1>1. fresh \in NodeFields
  BY DefaultTypes DEF NodeFields
<1>2. NewNode(acct, addr) = WithMinBackoff(fresh, minBackoff)
  BY DEF NewNode
<1>3. fresh.account = acct /\ fresh.channel = FALSE
  OBVIOUS
<1> HIDE DEF fresh
<1>4. QED
  BY <1>1, <1>2, <1>3, WithBackoffFacts DEF SameIdentity

LEMMA CloneNodeFacts ==
    ASSUME NEW n \in NodeFields, NEW secure \in BOOLEAN
    PROVE  /\ CloneNode(n, secure) \in NodeFields
           /\ SameIdentity(CloneNode(n, secure), n)
<1>1. n.address \in Host \X Port
  BY DEF NodeFields, Address
<1>2. Secured(n.address) \in Address /\ Insecured(n.address) \in Address
  BY <1>1, PortAssumption DEF Secured, Insecured, Address, PortAssumption
<1>3. QED
  BY <1>2 DEF CloneNode, NodeFields, SameIdentity

-----------------------------------------------------------------------------
(* What the operations that several actions share do *)

\* _readmitNodes lists only objects of `_nodes', and the time of its next scan
\* never exceeds nodeMaxReadmitPeriod when it has scanned.
LEMMA ReadmitFacts ==
    ASSUME TypeOK, ReadmitNodes
    PROVE  /\ healthyNodes' \subseteq healthyNodes \cup nodes
           /\ earliestReadmitTime' \in 0..MaxTime
<1>1. healthyNodes' \subseteq healthyNodes \cup nodes
  BY DEF ReadmitNodes, ReadmittedNodes
<1>2. CASE earliestReadmitTime <= now
  <2>1. PICK next \in NextEarliestReadmitTimes :
            earliestReadmitTime' = Lesser(Greater(next, nodeMinReadmitPeriod),
                                          nodeMaxReadmitPeriod)
    BY <1>2 DEF ReadmitNodes
  <2>2. next \in Nat
    BY DefaultTypes DEF NextEarliestReadmitTimes, MaxSafeInteger, TypeOK, NodeFields
  <2>3. nodeMinReadmitPeriod \in Nat /\ nodeMaxReadmitPeriod \in 0..Epoch
    BY DefaultTypes DEF TypeOK
  <2>4. Greater(next, nodeMinReadmitPeriod) \in Nat
    BY <2>2, <2>3, LesserGreaterNat
  <2>5. earliestReadmitTime' \in Nat /\ earliestReadmitTime' <= nodeMaxReadmitPeriod
    BY <2>1, <2>3, <2>4, LesserGreaterNat, DefaultTypes
  <2>6. QED
    BY <1>1, <2>3, <2>5, DefaultTypes
<1>3. CASE ~ (earliestReadmitTime <= now)
  BY <1>1, <1>3 DEF ReadmitNodes, TypeOK
<1>4. QED
  BY <1>2, <1>3

\* Closing objects keeps everything but their channels.
LEMMA CloseAllFacts ==
    ASSUME TypeOK, NEW S
    PROVE  /\ DOMAIN CloseAll(S) = DOMAIN node
           /\ CloseAll(S) \in [DOMAIN node -> NodeFields]
           /\ \A o \in DOMAIN node :
                 /\ CloseAll(S)[o].account = node[o].account
                 /\ CloseAll(S)[o].channel => node[o].channel /\ o \notin S
BY ClosedFacts DEF CloseAll, TypeOK

\* `_network' rebuilt from a set of objects files each under its account.
LEMMA IndexFacts ==
    ASSUME NEW S, NEW objs
    PROVE  /\ Index(S, objs) \in [Account -> SUBSET S]
           /\ \A a \in Account : \A o \in Index(S, objs)[a] :
                 o \in S /\ objs[o].account = a
BY DEF Index

\* The objects after a successful setNetwork.
LEMMA SetNetworkFacts ==
    ASSUME TypeOK, NEW net \in NetworkMaps, SetNetwork(net)
    PROVE  /\ DOMAIN node \subseteq DOMAIN node' /\ DOMAIN node' \subseteq Obj
           /\ node' \in [DOMAIN node' -> NodeFields]
           /\ nodes' \subseteq DOMAIN node'
           /\ \A o \in DOMAIN node' : node'[o].channel =>
                  o \in DOMAIN node /\ node[o].channel /\ (o \in nodes => o \in nodes')
<1> DEFINE removed == NodesToRemove(net)
           missing == MissingAddresses(net)
           created == [a \in missing |-> NewNode(net[a], a)]
<1>1. PICK id \in Injection(missing, Obj \ DOMAIN node) :
          /\ node' = [o \in DOMAIN node \cup {id[a] : a \in missing} |->
                         IF o \in DOMAIN node THEN CloseAll(removed)[o]
                         ELSE created[CHOOSE a \in missing : id[a] = o]]
          /\ nodes' = (nodes \ removed) \cup {id[a] : a \in missing}
  BY DEF SetNetwork
<1>2. id \in [missing -> Obj \ DOMAIN node]
  BY DEF Injection
<1>3. DOMAIN node' = DOMAIN node \cup {id[a] : a \in missing}
  BY <1>1
<1>4. \A a \in missing : a \in Address /\ net[a] \in Account
  BY NetworkMapAssumption DEF NetworkMapAssumption, MissingAddresses
<1>5. \A a \in missing : created[a] \in NodeFields /\ created[a].channel = FALSE
  <2>1. now \in Nat /\ minBackoff \in Nat
    BY DefaultTypes DEF TypeOK
  <2>2. QED
    BY <1>4, <2>1, NewNodeFacts
<1>6. ASSUME NEW o \in DOMAIN node', o \notin DOMAIN node
      PROVE  node'[o] \in NodeFields /\ node'[o].channel = FALSE
  <2>1. (CHOOSE a \in missing : id[a] = o) \in missing
    BY <1>3, <1>6
  <2>2. node'[o] = created[CHOOSE a \in missing : id[a] = o]
    BY <1>1, <1>3, <1>6
  <2>3. QED
    BY <1>5, <2>1, <2>2
<1>7. ASSUME NEW o \in DOMAIN node
      PROVE  /\ node'[o] \in NodeFields
             /\ node'[o].channel => node[o].channel /\ (o \in nodes => o \in nodes')
  <2>1. node'[o] = CloseAll(removed)[o]
    BY <1>1, <1>3
  <2>2. node'[o] \in NodeFields
    BY <2>1, CloseAllFacts
  <2>3. node'[o].channel => node[o].channel /\ o \notin removed
    BY <2>1, CloseAllFacts
  <2>4. QED
    BY <1>1, <2>2, <2>3
<1>8. node' \in [DOMAIN node' -> NodeFields]
  <2>1. \A o \in DOMAIN node' : node'[o] \in NodeFields
    BY <1>6, <1>7
  <2>2. QED
    BY <1>1, <2>1
<1>9. DOMAIN node' \subseteq Obj
  BY <1>2, <1>3 DEF TypeOK
<1>10. nodes' \subseteq DOMAIN node'
  BY <1>1, <1>3 DEF TypeOK
<1>11. QED
  BY <1>3, <1>6, <1>7, <1>8, <1>9, <1>10

\* The objects after setTransportSecurity: the clones are the only nodes, and
\* no object has an open channel that had none.
LEMMA SetTransportSecurityFacts ==
    ASSUME TypeOK, NEW secure \in Securities, SetTransportSecurity(secure)
    PROVE  /\ DOMAIN node \subseteq DOMAIN node' /\ DOMAIN node' \subseteq Obj
           /\ node' \in [DOMAIN node' -> NodeFields]
           /\ nodes' \subseteq DOMAIN node'
           /\ \A o \in DOMAIN node' : node'[o].channel =>
                  o \in DOMAIN node /\ node[o].channel /\ o \notin nodes
<1>1. PICK id \in Injection(nodes, Obj \ DOMAIN node) :
          LET clones == {id[o] : o \in nodes}
          IN  /\ node' = [c \in DOMAIN node \cup clones |->
                             IF c \in DOMAIN node THEN CloseAll(nodes)[c]
                             ELSE CloneNode(CloseAll(nodes)
                                              [CHOOSE o \in nodes : id[o] = c],
                                            secure)]
              /\ nodes' = clones
  BY DEF SetTransportSecurity
<1>2. id \in [nodes -> Obj \ DOMAIN node]
  BY DEF Injection
<1>3. DOMAIN node' = DOMAIN node \cup {id[o] : o \in nodes}
  BY <1>1
<1>4. \A o \in nodes : /\ CloseAll(nodes)[o] \in NodeFields
                       /\ CloseAll(nodes)[o].channel = FALSE
  BY CloseAllFacts DEF TypeOK, NodeFields
<1>5. secure \in BOOLEAN
  BY SecurityAssumption DEF SecurityAssumption
<1>6. ASSUME NEW c \in DOMAIN node', c \notin DOMAIN node
      PROVE  node'[c] \in NodeFields /\ node'[c].channel = FALSE
  <2> DEFINE original == CHOOSE o \in nodes : id[o] = c
  <2>1. original \in nodes
    BY <1>3, <1>6
  <2>2. node'[c] = CloneNode(CloseAll(nodes)[original], secure)
    BY <1>1, <1>3, <1>6
  <2>3. QED
    BY <1>4, <1>5, <2>1, <2>2, CloneNodeFacts DEF SameIdentity
<1>7. ASSUME NEW c \in DOMAIN node
      PROVE  /\ node'[c] \in NodeFields
             /\ node'[c].channel => node[c].channel /\ c \notin nodes
  <2>1. node'[c] = CloseAll(nodes)[c]
    BY <1>1, <1>3
  <2>2. QED
    BY <2>1, CloseAllFacts
<1>8. node' \in [DOMAIN node' -> NodeFields]
  <2>1. \A c \in DOMAIN node' : node'[c] \in NodeFields
    BY <1>6, <1>7
  <2>2. QED
    BY <1>1, <2>1
<1>9. DOMAIN node' \subseteq Obj /\ nodes' \subseteq DOMAIN node'
  BY <1>1, <1>2, <1>3 DEF TypeOK
<1>10. QED
  BY <1>3, <1>6, <1>7, <1>8, <1>9

-----------------------------------------------------------------------------
(* Types *)

LEMMA InitTypeOK == Init => TypeOK
<1> SUFFICES ASSUME Init
             PROVE  TypeOK
  OBVIOUS
<1>1. DOMAIN node = {} /\ node \in [DOMAIN node -> NodeFields]
  BY DEF Init
<1>2. network \in [Account -> SUBSET DOMAIN node]
  BY DEF Init
<1>3. now \in Epoch..MaxTime /\ earliestReadmitTime \in 0..MaxTime
  BY DefaultTypes DEF Init
<1>4. QED
  BY <1>1, <1>2, <1>3, DefaultTypes DEF Init, TypeOK

LEMMA SetNetworkTypeOK ==
    ASSUME TypeOK, NEW net \in NetworkMaps, SetNetwork(net)
    PROVE  TypeOK'
<1>1. healthyNodes' \subseteq nodes'
  BY DEF SetNetwork, HealthyOf
<1>2. network' \in [Account -> SUBSET healthyNodes']
  BY IndexFacts DEF SetNetwork
<1>3. network' \in [Account -> SUBSET DOMAIN node']
  BY <1>1, <1>2, SetNetworkFacts
<1>4. QED
  BY <1>1, <1>3, SetNetworkFacts DEF SetNetwork, TypeOK, settingVars, stateVars

LEMMA SetNetworkThrowsTypeOK ==
    ASSUME TypeOK, NEW net \in NetworkMaps, SetNetworkThrows(net)
    PROVE  TypeOK'
<1>1. PICK removed \in SUBSET NodesToRemove(net), culprit \in NodesToRemove(net) :
          /\ node' = CloseAll(removed \cup {culprit})
          /\ nodes' = nodes \ removed
          /\ network' = Without(removed)
  BY DEF SetNetworkThrows
<1>2. DOMAIN node' = DOMAIN node /\ node' \in [DOMAIN node -> NodeFields]
  BY <1>1, CloseAllFacts
<1>3. network' \in [Account -> SUBSET DOMAIN node]
  BY <1>1 DEF Without, TypeOK
<1>4. QED
  BY <1>1, <1>2, <1>3 DEF SetNetworkThrows, TypeOK, settingVars

LEMMA SetTransportSecurityTypeOK ==
    ASSUME TypeOK, NEW secure \in Securities, SetTransportSecurity(secure)
    PROVE  TypeOK'
<1>1. network' \in [Account -> SUBSET nodes']
  BY IndexFacts DEF SetTransportSecurity
<1>2. network' \in [Account -> SUBSET DOMAIN node']
  BY <1>1, SetTransportSecurityFacts
<1>3. transportSecurity' \in BOOLEAN
  BY SecurityAssumption DEF SecurityAssumption, SetTransportSecurity
<1>4. QED
  BY <1>2, <1>3, SetTransportSecurityFacts
  DEF SetTransportSecurity, TypeOK, stateVars

LEMMA ReconfigureTypeOK ==
    ASSUME TypeOK, Reconfigure
    PROVE  TypeOK'
<1>1. ASSUME NEW net \in NetworkMaps, SetNetwork(net) \/ SetNetworkThrows(net)
      PROVE  TypeOK'
  BY <1>1, SetNetworkTypeOK, SetNetworkThrowsTypeOK
<1>2. ASSUME NEW secure \in Securities, SetTransportSecurity(secure)
      PROVE  TypeOK'
  BY <1>2, SetTransportSecurityTypeOK
<1>3. ASSUME NEW b \in MinBackoffs, SetMinBackoff(b)
      PROVE  TypeOK'
  <2>1. b \in Nat
    BY BackoffAssumption DEF BackoffAssumption
  <2>2. \A o \in DOMAIN node : node[o] \in NodeFields
                               /\ WithMinBackoff(node[o], b) \in NodeFields
    BY <2>1, WithBackoffFacts DEF TypeOK
  <2>3. DOMAIN node' = DOMAIN node /\ node' \in [DOMAIN node -> NodeFields]
    BY <1>3, <2>2 DEF SetMinBackoff
  <2>4. QED
    BY <1>3, <2>1, <2>3 DEF SetMinBackoff, TypeOK, listVars, stateVars
<1>4. ASSUME NEW b \in MaxBackoffs, SetMaxBackoff(b)
      PROVE  TypeOK'
  <2>1. b \in Nat
    BY BackoffAssumption DEF BackoffAssumption
  <2>2. \A o \in DOMAIN node : node[o] \in NodeFields
                               /\ WithMaxBackoff(node[o], b) \in NodeFields
    BY <2>1, WithBackoffFacts DEF TypeOK
  <2>3. DOMAIN node' = DOMAIN node /\ node' \in [DOMAIN node -> NodeFields]
    BY <1>4, <2>2 DEF SetMaxBackoff
  <2>4. QED
    BY <1>4, <2>1, <2>3 DEF SetMaxBackoff, TypeOK, listVars, stateVars
<1>5. ASSUME NEW p \in ReadmitPeriods,
             SetNodeMinReadmitPeriod(p) \/ SetNodeMaxReadmitPeriod(p)
      PROVE  TypeOK'
  <2>1. p \in 0..Epoch
    BY TimeAssumption DEF TimeAssumption
  <2>2. now \in Nat /\ MaxTime \in Nat
    BY DefaultTypes DEF TypeOK
  <2>3. now + p <= MaxTime => now + p \in 0..MaxTime
    BY <2>1, <2>2, DefaultTypes
  <2>4. QED
    BY <1>5, <2>1, <2>3
    DEF SetNodeMinReadmitPeriod, SetNodeMaxReadmitPeriod, TypeOK, listVars, stateVars
<1>6. QED
  BY <1>1, <1>2, <1>3, <1>4, <1>5 DEF Reconfigure

LEMMA RequestTypeOK ==
    ASSUME TypeOK, PickNode \/ ListNodes \/ FailNode \/ RelieveNode
    PROVE  TypeOK'
<1>1. CASE PickNode
  <2>1. PICK o \in DOMAIN node : node' = [node EXCEPT ![o].channel = TRUE]
    BY <1>1 DEF PickNode, GetChannel
  <2>2. ReadmitNodes
    BY <1>1 DEF PickNode, GetAnyNode, GetNode
  <2>3. DOMAIN node' = DOMAIN node /\ node' \in [DOMAIN node -> NodeFields]
    BY <2>1 DEF TypeOK, NodeFields
  <2>4. QED
    BY <1>1, <2>2, <2>3, ReadmitFacts DEF PickNode, TypeOK, settingVars, stateVars
<1>2. CASE ListNodes
  <2>1. ReadmitNodes
    BY <1>2 DEF ListNodes, GetNodeAccountIdsForExecute
  <2>2. QED
    BY <1>2, <2>1, ReadmitFacts DEF ListNodes, TypeOK, settingVars, stateVars
<1>3. CASE FailNode
  <2>1. PICK o \in DOMAIN node : /\ node' = [node EXCEPT ![o] = BackedOff(@)]
                                 /\ healthyNodes' = healthyNodes \ {o}
    BY <1>3 DEF FailNode, IncreaseBackoff
  <2>2. now \in Nat
    BY DefaultTypes DEF TypeOK
  <2>3. BackedOff(node[o]) \in NodeFields
    BY <2>2, BackedOffFacts DEF TypeOK
  <2>4. DOMAIN node' = DOMAIN node /\ node' \in [DOMAIN node -> NodeFields]
    BY <2>1, <2>3 DEF TypeOK
  <2>5. QED
    BY <1>3, <2>1, <2>4 DEF FailNode, TypeOK, settingVars, stateVars
<1>4. CASE RelieveNode
  <2>1. PICK o \in DOMAIN node : node' = [node EXCEPT ![o] = Relieved(@)]
    BY <1>4 DEF RelieveNode, DecreaseBackoff
  <2>2. Relieved(node[o]) \in NodeFields
    BY RelievedFacts DEF TypeOK
  <2>3. DOMAIN node' = DOMAIN node /\ node' \in [DOMAIN node -> NodeFields]
    BY <2>1, <2>2 DEF TypeOK
  <2>4. QED
    BY <1>4, <2>3 DEF RelieveNode, TypeOK, listVars, settingVars, stateVars
<1>5. QED
  BY <1>1, <1>2, <1>3, <1>4

LEMMA NextTypeOK == TypeOK /\ [Next]_netVars => TypeOK'
<1> SUFFICES ASSUME TypeOK, [Next]_netVars
             PROVE  TypeOK'
  OBVIOUS
<1>1. CASE Tick
  BY <1>1, DefaultTypes DEF Tick, TypeOK, listVars, settingVars, stateVars
<1>2. CASE PickNode \/ ListNodes \/ FailNode \/ RelieveNode
  BY <1>2, RequestTypeOK
<1>3. CASE Reconfigure
  BY <1>3, ReconfigureTypeOK
<1>4. CASE Close
  <2>1. DOMAIN node' = DOMAIN node /\ node' \in [DOMAIN node -> NodeFields]
    BY <1>4, CloseAllFacts DEF Close
  <2>2. QED
    BY <1>4, <2>1 DEF Close, TypeOK, settingVars
<1>5. CASE UNCHANGED netVars
  BY <1>5 DEF netVars, listVars, settingVars, stateVars, TypeOK
<1>6. QED
  BY <1>1, <1>2, <1>3, <1>4, <1>5 DEF Next

\* In every reachable state each field of the network and of every node object
\* ever created has the type the code relies on: in particular the time of the
\* next readmission scan never runs past the horizon.
THEOREM TypeCorrect == Spec => []TypeOK
<1>1. Init => TypeOK
  BY InitTypeOK
<1>2. TypeOK /\ [Next]_netVars => TypeOK'
  BY NextTypeOK
<1>3. QED
  BY <1>1, <1>2, PTL DEF Spec

-----------------------------------------------------------------------------
(* The lists, the account map and the channels *)

\* Neither conjunct is inductive alone: an object getNode hands out, and opens
\* a channel on, is in `_nodes' because the lists hold only such objects.
ListsInv == ListsHoldCurrentNodes /\ OpenChannelsAreReachable
IInv == TypeOK /\ ListsInv

\* Every operation that keeps accounts, opens no channel, keeps `_nodes' and
\* lists nothing that is not in `_nodes' preserves the invariant.
LEMMA KeepsLists ==
    ASSUME IInv, ListsIntact' => ListsIntact,
           DOMAIN node' = DOMAIN node, nodes' = nodes, network' = network,
           healthyNodes' \subseteq healthyNodes \cup nodes,
           \A o \in DOMAIN node : SameIdentity(node'[o], node[o])
    PROVE  ListsInv'
<1>1. SUFFICES ASSUME ListsIntact'
               PROVE  /\ healthyNodes' \subseteq nodes'
                      /\ \A a \in Account :
                            network'[a] \subseteq {o \in nodes' : node'[o].account = a}
                      /\ \A o \in DOMAIN node' : node'[o].channel => o \in nodes'
  BY DEF ListsInv, ListsHoldCurrentNodes, OpenChannelsAreReachable
<1>2. /\ healthyNodes \subseteq nodes /\ nodes \subseteq DOMAIN node
      /\ \A a \in Account : network[a] \subseteq {o \in nodes : node[o].account = a}
      /\ \A o \in DOMAIN node : node[o].channel => o \in nodes
  BY <1>1 DEF IInv, TypeOK, ListsInv, ListsHoldCurrentNodes, OpenChannelsAreReachable
<1>3. QED
  BY <1>2 DEF SameIdentity

LEMMA InitListsInv == Init => ListsInv
BY DEF Init, ListsInv, ListsHoldCurrentNodes, OpenChannelsAreReachable

LEMMA SetNetworkListsInv ==
    ASSUME IInv, NEW net \in NetworkMaps, SetNetwork(net)
    PROVE  ListsInv'
<1>1. SUFFICES ASSUME ListsIntact'
               PROVE  /\ healthyNodes' \subseteq nodes'
                      /\ \A a \in Account :
                            network'[a] \subseteq {o \in nodes' : node'[o].account = a}
                      /\ \A o \in DOMAIN node' : node'[o].channel => o \in nodes'
  BY DEF ListsInv, ListsHoldCurrentNodes, OpenChannelsAreReachable
<1>2. healthyNodes' \subseteq nodes'
  BY DEF SetNetwork, HealthyOf
<1>3. \A a \in Account : \A o \in network'[a] : o \in healthyNodes' /\ node'[o].account = a
  <2>1. network' = Index(healthyNodes', node')
    BY DEF SetNetwork
  <2>2. QED
    BY <2>1, IndexFacts
<1>4. ListsIntact
  BY <1>1 DEF SetNetwork, ListsIntact, stateVars
<1>5. \A o \in DOMAIN node : node[o].channel => o \in nodes
  BY <1>4 DEF IInv, ListsInv, OpenChannelsAreReachable
<1>6. \A o \in DOMAIN node' : node'[o].channel => o \in nodes'
  BY <1>5, SetNetworkFacts DEF IInv
<1>7. QED
  BY <1>2, <1>3, <1>6

LEMMA SetTransportSecurityListsInv ==
    ASSUME IInv, NEW secure \in Securities, SetTransportSecurity(secure)
    PROVE  ListsInv'
<1>1. SUFFICES ASSUME ListsIntact'
               PROVE  /\ healthyNodes' \subseteq nodes'
                      /\ \A a \in Account :
                            network'[a] \subseteq {o \in nodes' : node'[o].account = a}
                      /\ \A o \in DOMAIN node' : node'[o].channel => o \in nodes'
  BY DEF ListsInv, ListsHoldCurrentNodes, OpenChannelsAreReachable
<1>2. healthyNodes' = nodes'
  BY DEF SetTransportSecurity
<1>3. \A a \in Account : \A o \in network'[a] : o \in nodes' /\ node'[o].account = a
  BY IndexFacts DEF SetTransportSecurity
<1>4. ListsIntact
  BY <1>1 DEF SetTransportSecurity, ListsIntact, stateVars
<1>5. \A o \in DOMAIN node : node[o].channel => o \in nodes
  BY <1>4 DEF IInv, ListsInv, OpenChannelsAreReachable
<1>6. \A o \in DOMAIN node' : ~ node'[o].channel
  BY <1>5, SetTransportSecurityFacts DEF IInv, TypeOK, NodeFields
<1>7. QED
  BY <1>2, <1>3, <1>6

LEMMA SettingsListsInv ==
    ASSUME IInv,
           \/ \E b \in MinBackoffs : SetMinBackoff(b)
           \/ \E b \in MaxBackoffs : SetMaxBackoff(b)
           \/ \E p \in ReadmitPeriods : \/ SetNodeMinReadmitPeriod(p)
                                        \/ SetNodeMaxReadmitPeriod(p)
    PROVE  ListsInv'
<1>1. UNCHANGED <<listVars, stateVars>>
  BY DEF SetMinBackoff, SetMaxBackoff, SetNodeMinReadmitPeriod, SetNodeMaxReadmitPeriod
<1>2. DOMAIN node' = DOMAIN node /\ \A o \in DOMAIN node : SameIdentity(node'[o], node[o])
  <2>1. \A o \in DOMAIN node : node[o] \in NodeFields
    BY DEF IInv, TypeOK
  <2>2. ASSUME NEW b \in MinBackoffs, SetMinBackoff(b)
        PROVE  /\ DOMAIN node' = DOMAIN node
               /\ \A o \in DOMAIN node : SameIdentity(node'[o], node[o])
    BY <2>1, <2>2, BackoffAssumption, WithBackoffFacts
    DEF SetMinBackoff, BackoffAssumption, SameIdentity
  <2>3. ASSUME NEW b \in MaxBackoffs, SetMaxBackoff(b)
        PROVE  /\ DOMAIN node' = DOMAIN node
               /\ \A o \in DOMAIN node : SameIdentity(node'[o], node[o])
    BY <2>1, <2>3, BackoffAssumption, WithBackoffFacts
    DEF SetMaxBackoff, BackoffAssumption, SameIdentity
  <2>4. ASSUME NEW p \in ReadmitPeriods,
               SetNodeMinReadmitPeriod(p) \/ SetNodeMaxReadmitPeriod(p)
        PROVE  /\ DOMAIN node' = DOMAIN node
               /\ \A o \in DOMAIN node : SameIdentity(node'[o], node[o])
    BY <2>4 DEF SetNodeMinReadmitPeriod, SetNodeMaxReadmitPeriod, SameIdentity
  <2>5. QED
    BY <2>2, <2>3, <2>4
<1>3. QED
  BY <1>1, <1>2, KeepsLists DEF listVars, stateVars, ListsIntact

LEMMA ReconfigureListsInv ==
    ASSUME IInv, Reconfigure
    PROVE  ListsInv'
<1>1. ASSUME NEW net \in NetworkMaps, SetNetworkThrows(net)
      PROVE  ListsInv'
  BY <1>1 DEF SetNetworkThrows, ListsIntact, ListsInv, ListsHoldCurrentNodes,
              OpenChannelsAreReachable
<1>2. QED
  BY <1>1, SetNetworkListsInv, SetTransportSecurityListsInv, SettingsListsInv
  DEF Reconfigure

LEMMA RequestListsInv ==
    ASSUME IInv, PickNode \/ ListNodes \/ FailNode \/ RelieveNode
    PROVE  ListsInv'
<1>1. CASE PickNode
  <2>1. PICK o \in DOMAIN node :
            /\ GetAnyNode(o) \/ \E acct \in Account : GetNode(acct, o)
            /\ node' = [node EXCEPT ![o].channel = TRUE]
    BY <1>1 DEF PickNode, GetChannel
  <2>2. UNCHANGED <<nodes, network, stateVars>>
    BY <1>1 DEF PickNode
  <2>3. healthyNodes' \subseteq healthyNodes \cup nodes
    BY <2>1, ReadmitFacts DEF GetAnyNode, GetNode, IInv
  <2>4. DOMAIN node' = DOMAIN node
    BY <2>1
  <2>5. \A x \in DOMAIN node : /\ node'[x].account = node[x].account
                               /\ x # o => node'[x].channel = node[x].channel
    BY <2>1 DEF IInv, TypeOK, NodeFields
  <2>6. SUFFICES ASSUME ListsIntact'
                 PROVE  /\ healthyNodes' \subseteq nodes'
                        /\ \A a \in Account :
                              network'[a] \subseteq {x \in nodes' : node'[x].account = a}
                        /\ \A x \in DOMAIN node' : node'[x].channel => x \in nodes'
    BY DEF ListsInv, ListsHoldCurrentNodes, OpenChannelsAreReachable
  <2>7. /\ healthyNodes \subseteq nodes /\ nodes \subseteq DOMAIN node
        /\ \A a \in Account : network[a] \subseteq {x \in nodes : node[x].account = a}
        /\ \A x \in DOMAIN node : node[x].channel => x \in nodes
    BY <2>2, <2>6 DEF IInv, TypeOK, ListsInv, ListsHoldCurrentNodes,
                      OpenChannelsAreReachable, ListsIntact, stateVars
  <2>8. o \in nodes
    <3>1. CASE GetAnyNode(o)
      BY <2>3, <2>7, <3>1 DEF GetAnyNode
    <3>2. ASSUME NEW acct \in Account, GetNode(acct, o)
          PROVE  o \in nodes
      BY <2>7, <3>2 DEF GetNode, NodesForKey
    <3>3. QED
      BY <2>1, <3>1, <3>2
  <2>9. QED
    BY <2>2, <2>3, <2>4, <2>5, <2>7, <2>8
<1>2. CASE ListNodes
  <2>1. healthyNodes' \subseteq healthyNodes \cup nodes
    BY <1>2, ReadmitFacts DEF ListNodes, GetNodeAccountIdsForExecute, IInv
  <2>2. QED
    BY <1>2, <2>1, KeepsLists DEF ListNodes, ListsIntact, stateVars, SameIdentity
<1>3. CASE FailNode
  <2>1. PICK o \in DOMAIN node : /\ node' = [node EXCEPT ![o] = BackedOff(@)]
                                 /\ healthyNodes' = healthyNodes \ {o}
    BY <1>3 DEF FailNode, IncreaseBackoff
  <2>2. now \in Nat
    BY DefaultTypes DEF IInv, TypeOK
  <2>3. SameIdentity(BackedOff(node[o]), node[o])
    BY <2>2, BackedOffFacts DEF IInv, TypeOK
  <2>4. /\ DOMAIN node' = DOMAIN node
        /\ \A x \in DOMAIN node : SameIdentity(node'[x], node[x])
    BY <2>1, <2>3 DEF SameIdentity, IInv, TypeOK
  <2>5. QED
    BY <1>3, <2>1, <2>4, KeepsLists DEF FailNode, ListsIntact, stateVars
<1>4. CASE RelieveNode
  <2>1. PICK o \in DOMAIN node : node' = [node EXCEPT ![o] = Relieved(@)]
    BY <1>4 DEF RelieveNode, DecreaseBackoff
  <2>2. SameIdentity(Relieved(node[o]), node[o])
    BY RelievedFacts DEF IInv, TypeOK
  <2>3. /\ DOMAIN node' = DOMAIN node
        /\ \A x \in DOMAIN node : SameIdentity(node'[x], node[x])
    BY <2>1, <2>2 DEF SameIdentity, IInv, TypeOK
  <2>4. QED
    BY <1>4, <2>3, KeepsLists DEF RelieveNode, ListsIntact, listVars, stateVars
<1>5. QED
  BY <1>1, <1>2, <1>3, <1>4

LEMMA NextIInv == IInv /\ [Next]_netVars => IInv'
<1> SUFFICES ASSUME IInv, [Next]_netVars
             PROVE  ListsInv'
  BY NextTypeOK DEF IInv
<1>1. CASE Tick \/ UNCHANGED netVars
  <2>1. UNCHANGED <<node, listVars, stateVars>>
    BY <1>1 DEF Tick, netVars
  <2>2. QED
    BY <2>1, KeepsLists DEF listVars, stateVars, ListsIntact, SameIdentity
<1>2. CASE PickNode \/ ListNodes \/ FailNode \/ RelieveNode
  BY <1>2, RequestListsInv
<1>3. CASE Reconfigure
  BY <1>3, ReconfigureListsInv
<1>4. CASE Close
  BY <1>4 DEF Close, ListsIntact, ListsInv, ListsHoldCurrentNodes,
              OpenChannelsAreReachable
<1>5. QED
  BY <1>1, <1>2, <1>3, <1>4 DEF Next

LEMMA Inductive == Spec => []IInv
<1>1. Init => IInv
  BY InitTypeOK, InitListsInv DEF IInv
<1>2. IInv /\ [Next]_netVars => IInv'
  BY NextIInv
<1>3. QED
  BY <1>1, <1>2, PTL DEF Spec

\* Whatever the order of setNetwork, setTransportSecurity, the setters, the
\* picks, failures and successes: until close() or a setNetwork that throws,
\* getNode finds only objects of `_nodes', each filed under its own account.
THEOREM ListsCorrect == Spec => []ListsHoldCurrentNodes
<1>1. IInv => ListsHoldCurrentNodes
  BY DEF IInv, ListsInv
<1>2. QED
  BY <1>1, Inductive, PTL

\* Until then no channel is open outside `_nodes', where close() and
\* setNetwork close it: no number of nodes, addresses or clones leaks one.
THEOREM ChannelsCorrect == Spec => []OpenChannelsAreReachable
<1>1. IInv => OpenChannelsAreReachable
  BY DEF IInv, ListsInv
<1>2. QED
  BY <1>1, Inductive, PTL

-----------------------------------------------------------------------------
(* What a step may do *)

LEMMA NewNodeAddress ==
    ASSUME now \in Nat, minBackoff \in Nat,
           NEW acct \in Account, NEW addr \in Address
    PROVE  NewNode(acct, addr).address = addr
BY DEF NewNode, WithMinBackoff

\* The objects setNetwork keeps agree with the map; every other entry gets an
\* object of its own.
LEMMA SetNetworkInstalls ==
    ASSUME TypeOK, NEW net \in NetworkMaps, SetNetwork(net)
    PROVE  {<<node'[o].address, node'[o].account>> : o \in nodes'} =
           {<<a, net[a]>> : a \in DOMAIN net}
<1> DEFINE removed == NodesToRemove(net)
           missing == MissingAddresses(net)
           created == [a \in missing |-> NewNode(net[a], a)]
<1>1. PICK id \in Injection(missing, Obj \ DOMAIN node) :
          /\ node' = [o \in DOMAIN node \cup {id[a] : a \in missing} |->
                         IF o \in DOMAIN node THEN CloseAll(removed)[o]
                         ELSE created[CHOOSE a \in missing : id[a] = o]]
          /\ nodes' = (nodes \ removed) \cup {id[a] : a \in missing}
  BY DEF SetNetwork
<1>2. /\ id \in [missing -> Obj \ DOMAIN node]
      /\ \A a, b \in missing : id[a] = id[b] => a = b
  BY DEF Injection, IsInjective
<1>3. \A a \in missing : a \in DOMAIN net /\ a \in Address /\ net[a] \in Account
  BY NetworkMapAssumption DEF NetworkMapAssumption, MissingAddresses
<1>4. ASSUME NEW a \in missing
      PROVE  node'[id[a]].address = a /\ node'[id[a]].account = net[a]
  <2>1. id[a] \notin DOMAIN node /\ (CHOOSE b \in missing : id[b] = id[a]) = a
    BY <1>2
  <2>2. node'[id[a]] = NewNode(net[a], a)
    BY <1>1, <2>1
  <2>3. now \in Nat /\ minBackoff \in Nat
    BY DefaultTypes DEF TypeOK
  <2>4. a \in Address /\ net[a] \in Account
    BY <1>3
  <2>5. NewNode(net[a], a).address = a /\ NewNode(net[a], a).account = net[a]
    BY <2>3, <2>4, NewNodeFacts, NewNodeAddress
  <2>6. QED
    BY <2>2, <2>5
<1>5. ASSUME NEW o \in nodes \ removed
      PROVE  /\ node'[o].address = node[o].address
             /\ node'[o].account = node[o].account
             /\ node[o].address \in DOMAIN net
             /\ net[node[o].address] = node[o].account
  <2>1. o \in DOMAIN node
    BY DEF TypeOK
  <2>2. node'[o] = node[o]
    BY <1>1, <2>1 DEF CloseAll
  <2>3. QED
    BY <2>2 DEF NodesToRemove
<1>6. ASSUME NEW a \in DOMAIN net, a \notin missing
      PROVE  \E o \in nodes \ removed : node[o].address = a
  BY <1>6 DEF MissingAddresses
<1> HIDE DEF removed, missing, created
<1>7. ASSUME NEW o \in nodes'
      PROVE  \E a \in DOMAIN net : <<node'[o].address, node'[o].account>> = <<a, net[a]>>
  <2>1. CASE o \in nodes \ removed
    BY <1>5, <2>1
  <2>2. CASE o \in {id[a] : a \in missing}
    BY <1>3, <1>4, <2>2
  <2>3. QED
    BY <1>1, <2>1, <2>2
<1>8. ASSUME NEW a \in DOMAIN net
      PROVE  \E o \in nodes' : <<node'[o].address, node'[o].account>> = <<a, net[a]>>
  <2>1. CASE a \in missing
    <3>1. id[a] \in nodes'
      BY <1>1, <2>1
    <3>2. node'[id[a]].address = a /\ node'[id[a]].account = net[a]
      BY <1>4, <2>1
    <3>3. QED
      BY <3>1, <3>2
  <2>2. CASE a \notin missing
    <3>1. PICK o \in nodes \ removed : node[o].address = a
      BY <1>6, <2>2
    <3>2. o \in nodes'
      BY <1>1
    <3>3. QED
      BY <1>5, <3>1, <3>2
  <2>3. QED
    BY <2>1, <2>2
<1>9. QED
  BY <1>7, <1>8

\* Whatever objects the network held, a setNetwork that returns leaves exactly
\* the addresses and accounts of its map, one entry never hiding another.
THEOREM SetNetworkCorrect == Spec => SetNetworkInstallsMap
<1>1. TypeOK /\ [Next]_netVars =>
          [\A net \in NetworkMaps :
              SetNetwork(net) =>
                  {<<node'[o].address, node'[o].account>> : o \in nodes'} =
                  {<<a, net[a]>> : a \in DOMAIN net}]_netVars
  BY SetNetworkInstalls
<1>2. QED
  BY <1>1, TypeCorrect, PTL DEF Spec, SetNetworkInstallsMap

\* An object that a step leaves or puts on the list while it is backing off was
\* listed, and backing off, before.
UnhealthyStayedListed(o) ==
    node'[o].readmitTime > now' => o \in healthyNodes /\ node[o].readmitTime > now

LEMMA SameReadmitTime ==
    ASSUME NEW n \in NodeFields, NEW b \in Nat
    PROVE  /\ Relieved(n).readmitTime = n.readmitTime
           /\ WithMinBackoff(n, b).readmitTime = n.readmitTime
           /\ WithMaxBackoff(n, b).readmitTime = n.readmitTime
           /\ Closed(n).readmitTime = n.readmitTime
BY DEF Relieved, WithMinBackoff, WithMaxBackoff, Closed, NodeFields

LEMMA RequestListing ==
    ASSUME TypeOK, PickNode \/ ListNodes \/ FailNode \/ RelieveNode
    PROVE  \A o \in healthyNodes' : UnhealthyStayedListed(o)
<1>1. \A o \in DOMAIN node : node[o] \in NodeFields
  BY DEF TypeOK
<1>2. CASE PickNode \/ ListNodes
  <2>1. ReadmitNodes
    BY <1>2 DEF PickNode, ListNodes, GetAnyNode, GetNode, GetNodeAccountIdsForExecute
  <2>2. \A o \in healthyNodes' : o \in healthyNodes \/ node[o].readmitTime <= now
    BY <2>1 DEF ReadmitNodes, ReadmittedNodes, IsHealthy
  <2>3. now' = now /\ \A o \in DOMAIN node : node'[o].readmitTime = node[o].readmitTime
    BY <1>1, <1>2 DEF PickNode, ListNodes, GetChannel, NodeFields
  <2>4. healthyNodes' \subseteq DOMAIN node
    BY <2>1, ReadmitFacts DEF TypeOK
  <2>5. \A o \in healthyNodes' : node[o].readmitTime \in Nat /\ now \in Nat
    BY <1>1, <2>4, DefaultTypes DEF TypeOK, NodeFields
  <2>6. QED
    BY <2>2, <2>3, <2>4, <2>5 DEF UnhealthyStayedListed
<1>3. CASE FailNode
  <2>1. PICK o \in DOMAIN node : /\ node' = [node EXCEPT ![o] = BackedOff(@)]
                                 /\ healthyNodes' = healthyNodes \ {o}
                                 /\ now' = now
    BY <1>3 DEF FailNode, IncreaseBackoff
  <2>2. QED
    BY <2>1 DEF UnhealthyStayedListed, TypeOK
<1>4. CASE RelieveNode
  <2>1. PICK o \in DOMAIN node : /\ node' = [node EXCEPT ![o] = Relieved(@)]
                                 /\ healthyNodes' = healthyNodes /\ now' = now
    BY <1>4 DEF RelieveNode, DecreaseBackoff, listVars
  <2>2. QED
    BY <1>1, <2>1, SameReadmitTime DEF UnhealthyStayedListed, TypeOK
<1>5. QED
  BY <1>2, <1>3, <1>4

LEMMA ReconfigureListing ==
    ASSUME TypeOK, Reconfigure
    PROVE  \A o \in healthyNodes' :
              node'[o].readmitTime > now' => o \notin DOMAIN node \/ UnhealthyStayedListed(o)
<1>1. \A o \in DOMAIN node : node[o] \in NodeFields
  BY DEF TypeOK
<1>2. ASSUME NEW net \in NetworkMaps, SetNetwork(net)
      PROVE  \A o \in healthyNodes' : ~ (node'[o].readmitTime > now')
  <2>1. now' = now /\ \A o \in healthyNodes' : node'[o].readmitTime <= now
    BY <1>2 DEF SetNetwork, HealthyOf
  <2>2. healthyNodes' \subseteq DOMAIN node' /\ node' \in [DOMAIN node' -> NodeFields]
    BY <1>2, SetNetworkTypeOK DEF TypeOK
  <2>3. \A o \in healthyNodes' : node'[o].readmitTime \in Nat
    BY <2>2 DEF NodeFields
  <2>4. now \in Nat
    BY DefaultTypes DEF TypeOK
  <2>5. QED
    BY <2>1, <2>3, <2>4
<1>3. ASSUME NEW net \in NetworkMaps, SetNetworkThrows(net)
      PROVE  \A o \in healthyNodes' : UnhealthyStayedListed(o)
  <2>1. \A o \in DOMAIN node : node'[o].readmitTime = node[o].readmitTime
    BY <1>1, <1>3, SameReadmitTime DEF SetNetworkThrows, CloseAll
  <2>2. QED
    BY <1>3, <2>1 DEF SetNetworkThrows, UnhealthyStayedListed, TypeOK
<1>4. ASSUME NEW secure \in Securities, SetTransportSecurity(secure)
      PROVE  \A o \in healthyNodes' : o \notin DOMAIN node
  BY <1>4 DEF SetTransportSecurity, Injection
<1>5. ASSUME NEW b \in MinBackoffs, SetMinBackoff(b)
      PROVE  \A o \in healthyNodes' : UnhealthyStayedListed(o)
  <2>1. \A o \in DOMAIN node : node'[o].readmitTime = node[o].readmitTime
    BY <1>1, <1>5, SameReadmitTime, BackoffAssumption DEF SetMinBackoff, BackoffAssumption
  <2>2. QED
    BY <1>5, <2>1 DEF SetMinBackoff, listVars, UnhealthyStayedListed, TypeOK
<1>6. ASSUME NEW b \in MaxBackoffs, SetMaxBackoff(b)
      PROVE  \A o \in healthyNodes' : UnhealthyStayedListed(o)
  <2>1. \A o \in DOMAIN node : node'[o].readmitTime = node[o].readmitTime
    BY <1>1, <1>6, SameReadmitTime, BackoffAssumption DEF SetMaxBackoff, BackoffAssumption
  <2>2. QED
    BY <1>6, <2>1 DEF SetMaxBackoff, listVars, UnhealthyStayedListed, TypeOK
<1>7. ASSUME NEW p \in ReadmitPeriods,
             SetNodeMinReadmitPeriod(p) \/ SetNodeMaxReadmitPeriod(p)
      PROVE  \A o \in healthyNodes' : UnhealthyStayedListed(o)
  BY <1>7 DEF SetNodeMinReadmitPeriod, SetNodeMaxReadmitPeriod, listVars,
              UnhealthyStayedListed
<1>8. QED
  BY <1>2, <1>3, <1>4, <1>5, <1>6, <1>7 DEF Reconfigure

\* A node that is backing off is never put back on the list by a readmission, a
\* network update or a setter: only setTransportSecurity lists it, as a clone.
THEOREM UnhealthyListing == Spec => OnlyClonesListedUnhealthy
<1>1. ASSUME TypeOK, [Next]_netVars
      PROVE  [\A o \in healthyNodes' :
                node'[o].readmitTime > now' =>
                    \/ o \notin DOMAIN node
                    \/ o \in healthyNodes /\ node[o].readmitTime > now]_netVars
  <2>1. CASE Tick
    <3>1. now' = now + 1 /\ UNCHANGED <<node, healthyNodes>>
      BY <2>1 DEF Tick, listVars
    <3>2. now \in Nat /\ \A o \in healthyNodes : node[o].readmitTime \in Nat
      BY <1>1, DefaultTypes DEF TypeOK, NodeFields
    <3>3. QED
      BY <3>1, <3>2
  <2>2. CASE PickNode \/ ListNodes \/ FailNode \/ RelieveNode
    BY <1>1, <2>2, RequestListing DEF UnhealthyStayedListed
  <2>3. CASE Reconfigure
    BY <1>1, <2>3, ReconfigureListing DEF UnhealthyStayedListed
  <2>4. CASE Close
    <3>1. \A o \in DOMAIN node : node'[o].readmitTime = node[o].readmitTime
      BY <1>1, <2>4, SameReadmitTime DEF Close, CloseAll, TypeOK
    <3>2. QED
      BY <1>1, <2>4, <3>1 DEF Close, TypeOK
  <2>5. QED
    BY <1>1, <2>1, <2>2, <2>3, <2>4 DEF Next
<1>2. QED
  BY <1>1, TypeCorrect, PTL DEF Spec, OnlyClonesListedUnhealthy

-----------------------------------------------------------------------------
(* Facts about numbers and sequences *)

\* A position that advances with every attempt is the attempt modulo the length.
LEMMA ModSuccessor ==
    ASSUME NEW n \in Nat, NEW L \in Nat \ {0}
    PROVE  ((n % L) + 1) % L = (n + 1) % L
<1> DEFINE q == n \div L
           r == n % L
<1>1. n = L * q + r /\ r \in 0..(L-1) /\ q \in Nat
  BY SMTT(30)
<1>2. \A b \in Nat : \A s \in 0..(L-1) : (L*b + s) % L = s
  BY SMTT(30)
<1> HIDE DEF q, r
<1>3. CASE r + 1 < L
  <2>1. n + 1 = L * q + (r + 1) /\ r + 1 \in 0..(L-1)
    BY <1>1, <1>3
  <2>2. (n + 1) % L = r + 1
    BY <2>1, <1>1, <1>2
  <2>3. (r + 1) % L = r + 1
    BY <1>1, <1>3, SMT
  <2>4. QED
    BY <2>2, <2>3 DEF r
<1>4. CASE r + 1 = L
  <2>1. n + 1 = L * q + L
    BY <1>1, <1>4
  <2>2. L * q + L = L * (q + 1) + 0 /\ q + 1 \in Nat /\ 0 \in 0..(L-1)
    BY <1>1
  <2>3. (n + 1) % L = 0
    BY <2>1, <2>2, <1>2
  <2>4. L % L = 0
    BY SMT
  <2>5. QED
    BY <2>3, <2>4, <1>4 DEF r
<1>5. QED
  BY <1>1, <1>3, <1>4

LEMMA ModSmall ==
    ASSUME NEW L \in Nat \ {0}
    PROVE  0 % L = 0 /\ \A n \in Nat : n % L \in 0..(L-1)
BY SMT

LEMMA LenOfList ==
    ASSUME NEW list \in Seq(Account), list # <<>>
    PROVE  Len(list) \in Nat \ {0} /\ \A i \in 1..Len(list) : list[i] \in Account
OBVIOUS

\* The lists a request gets for a set of accounts.
LEMMA OrdersAreLists ==
    ASSUME NEW S \in SUBSET Account, NEW s \in Orders(S)
    PROVE  s \in Seq(Account)
<1>1. IsFiniteSet(S)
  BY ExecutableAssumption, FS_Subset DEF ExecutableAssumption
<1>2. Cardinality(S) \in Nat
  BY <1>1, FS_CardinalityType
<1>3. s \in [1..Cardinality(S) -> Account]
  BY DEF Orders
<1>4. QED
  BY <1>2, <1>3

LEMMA AttemptLimit == MaxAttempts \in Nat \ {0}
BY ExecutableAssumption DEF ExecutableAssumption, MaxAttempts

LEMMA DelayIsNat ==
    ASSUME NEW n \in 1..MaxAttempts
    PROVE  DelayForAttempt(n) \in Nat
<1>1. RequestMinBackoff \in Nat /\ RequestMaxBackoff \in Nat
  BY ExecutableAssumption DEF ExecutableAssumption
<1>2. 2^n \in Nat
  BY PowerAssumption DEF PowerAssumption
<1> DEFINE power == 2^n
<1> HIDE DEF power
<1>3. power \in Nat
  BY <1>2 DEF power
<1>4. RequestMinBackoff * power \in Nat
  BY <1>1, <1>3
<1>5. Lesser(RequestMinBackoff * power, RequestMaxBackoff) \in Nat
  BY <1>1, <1>4, LesserGreaterNat
<1>6. QED
  BY <1>1, <1>5 DEF DelayForAttempt, power

-----------------------------------------------------------------------------
(* The network under the loop *)

\* What a step of the loop may do to the network: a step of ManagedNetwork, or
\* a readmission whose result the loop does not use.
NetStep ==
    \/ [Next]_netVars
    \/ ReadmitNodes /\ UNCHANGED node /\ readmitUnchanged

LEMMA NextKeepsObjects ==
    ASSUME TypeOK, [Next]_netVars
    PROVE  DOMAIN node \subseteq DOMAIN node'
<1>1. CASE Tick \/ UNCHANGED netVars
  BY <1>1 DEF Tick, netVars
<1>2. CASE PickNode \/ ListNodes \/ FailNode \/ RelieveNode
  BY <1>2 DEF PickNode, GetChannel, ListNodes, FailNode, IncreaseBackoff,
              RelieveNode, DecreaseBackoff
<1>3. CASE Reconfigure
  <2>1. ASSUME NEW net \in NetworkMaps, SetNetwork(net)
        PROVE  DOMAIN node \subseteq DOMAIN node'
    BY <2>1, SetNetworkFacts
  <2>2. ASSUME NEW net \in NetworkMaps, SetNetworkThrows(net)
        PROVE  DOMAIN node \subseteq DOMAIN node'
    BY <2>2 DEF SetNetworkThrows, CloseAll
  <2>3. ASSUME NEW secure \in Securities, SetTransportSecurity(secure)
        PROVE  DOMAIN node \subseteq DOMAIN node'
    BY <2>3, SetTransportSecurityFacts
  <2>4. QED
    BY <1>3, <2>1, <2>2, <2>3
    DEF Reconfigure, SetMinBackoff, SetMaxBackoff, SetNodeMinReadmitPeriod,
        SetNodeMaxReadmitPeriod
<1>4. CASE Close
  BY <1>4 DEF Close, CloseAll
<1>5. QED
  BY <1>1, <1>2, <1>3, <1>4 DEF Next

LEMMA NetStepFacts ==
    ASSUME IInv, NetStep
    PROVE  IInv' /\ DOMAIN node \subseteq DOMAIN node'
<1>1. CASE [Next]_netVars
  BY <1>1, NextIInv, NextKeepsObjects DEF IInv
<1>2. CASE ReadmitNodes /\ UNCHANGED node /\ readmitUnchanged
  <2>1. TypeOK'
    BY <1>2, ReadmitFacts DEF IInv, TypeOK, readmitUnchanged, settingVars, stateVars
  <2>2. ListsInv'
    BY <1>2, ReadmitFacts, KeepsLists
    DEF IInv, readmitUnchanged, ListsIntact, stateVars, SameIdentity
  <2>3. QED
    BY <1>2, <2>1, <2>2 DEF IInv
<1>3. QED
  BY <1>1, <1>2 DEF NetStep

LEMMA InitNetworkIInv == InitNetwork => IInv
<1> SUFFICES ASSUME InitNetwork
             PROVE  IInv
  OBVIOUS
<1>1. PICK id \in Injection(DOMAIN InitialNetwork, Obj) :
          /\ nodes = {id[a] : a \in DOMAIN InitialNetwork}
          /\ node = [o \in nodes |->
                        LET a == CHOOSE x \in DOMAIN InitialNetwork : id[x] = o
                        IN  NewNode(InitialNetwork[a], a)]
  BY DEF InitNetwork
<1>2. now \in Nat /\ minBackoff \in Nat
  BY DefaultTypes DEF InitNetwork
<1>3. ASSUME NEW o \in nodes
      PROVE  node[o] \in NodeFields /\ node[o].channel = FALSE
  <2>1. PICK a \in DOMAIN InitialNetwork : node[o] = NewNode(InitialNetwork[a], a)
    BY <1>1
  <2>2. a \in Address /\ InitialNetwork[a] \in Account
    BY ExecutableAssumption DEF ExecutableAssumption
  <2>3. /\ NewNode(InitialNetwork[a], a) \in NodeFields
        /\ NewNode(InitialNetwork[a], a).channel = FALSE
    BY <1>2, <2>2, NewNodeFacts
  <2>4. QED
    BY <2>1, <2>3
<1>4. DOMAIN node = nodes /\ node \in [nodes -> NodeFields]
  BY <1>1, <1>3
<1>5. nodes \subseteq Obj
  BY <1>1 DEF Injection
<1>6. /\ network \in [Account -> SUBSET nodes]
      /\ \A a \in Account : \A o \in network[a] : node[o].account = a
  BY IndexFacts DEF InitNetwork
<1>7. TypeOK
  <2>1. now \in Epoch..MaxTime /\ earliestReadmitTime \in 0..MaxTime
    BY DefaultTypes DEF InitNetwork
  <2>2. /\ nodeMinReadmitPeriod \in 0..Epoch /\ nodeMaxReadmitPeriod \in 0..Epoch
        /\ minBackoff \in Nat /\ maxBackoff \in Nat
    BY DefaultTypes DEF InitNetwork
  <2>3. /\ healthyNodes = nodes /\ transportSecurity \in BOOLEAN
        /\ isShutdown \in BOOLEAN /\ setNetworkThrew \in BOOLEAN
    BY DEF InitNetwork
  <2>4. QED
    BY <1>4, <1>5, <1>6, <2>1, <2>2, <2>3 DEF TypeOK
<1>8. ListsInv
  BY <1>3, <1>4, <1>6
  DEF InitNetwork, ListsInv, ListsHoldCurrentNodes, OpenChannelsAreReachable
<1>9. QED
  BY <1>7, <1>8 DEF IInv

-----------------------------------------------------------------------------
(* The inductive invariant *)

\* RoundRobin of one request: its position after n attempts.
InTurnOf(q, n) == q.list # <<>> => q.index = n % Len(q.list)

\* What ExecInv needs to be inductive, and the refinement besides: a request
\* that has not begun has done nothing; every send was an attempt of its own;
\* an attempt past the limit ends before a node is picked; and only an answer
\* that asks for a retry is followed by another attempt.
Counted(q) ==
    /\ q.pc \in {"new", "preparing"} =>
          q.attempt = 0 /\ q.index = 0 /\ q.sends = 0 /\ q.answer = "none"
    /\ q.pc \in {"loop", "making"} => q.sends < q.attempt
    /\ q.pc \in {"sent", "waiting"} => q.sends <= q.attempt /\ q.attempt >= 1
    /\ q.pc \in {"making", "sent", "waiting"} => q.attempt <= MaxAttempts
    /\ q.pc \notin Settled => q.answer \in {"none"} \cup Retryable

Placed(q) == q \in RequestFields /\ (q.list # <<>> => q.index < Len(q.list))

RequestInv(q, objs) ==
    /\ Placed(q) /\ Counted(q)
    /\ q.pc \in {"making", "sent", "waiting"} => q.list # <<>> /\ q.node \in objs
    /\ q.pc \in {"loop", "making"} => InTurnOf(q, q.attempt - 1)
    /\ q.pc \in {"sent", "waiting"} => InTurnOf(q, q.attempt)

ExecIInv ==
    /\ IInv
    /\ req \in [Request -> RequestFields]
    /\ \A r \in Request : RequestInv(req[r], DOMAIN node)
    /\ running \in Request \cup {NoRequest}
    /\ running # NoRequest => req[running].pc = "loop"

LEMMA InvariantImplies == ExecIInv => ExecInv
BY DEF ExecIInv, IInv, RequestInv, Placed, Counted, InTurnOf, ExecInv, ExecTypeOK,
       RoundRobin

-----------------------------------------------------------------------------
(* What the ways in which a continuation ends make of a request *)

LEMMA AdvancedFacts ==
    ASSUME NEW q, Placed(q), q.list # <<>>
    PROVE  /\ Current(q) \in Account
           /\ Advanced(q) \in Nat /\ Advanced(q) < Len(q.list)
           /\ \A n \in Nat : InTurnOf(q, n) => Advanced(q) = (n + 1) % Len(q.list)
<1>1. q.list \in Seq(Account) /\ q.index \in Nat /\ q.index < Len(q.list)
  BY DEF Placed, RequestFields
<1>2. Len(q.list) \in Nat \ {0} /\ \A i \in 1..Len(q.list) : q.list[i] \in Account
  BY <1>1, LenOfList
<1>3. Current(q) \in Account
  BY <1>1, <1>2 DEF Current
<1>4. Advanced(q) \in Nat /\ Advanced(q) < Len(q.list)
  <2>1. q.index + 1 \in Nat
    BY <1>1
  <2>2. (q.index + 1) % Len(q.list) \in 0..(Len(q.list) - 1)
    BY <1>2, <2>1, ModSmall
  <2>3. QED
    BY <1>2, <2>2 DEF Advanced
<1>5. ASSUME NEW n \in Nat, InTurnOf(q, n)
      PROVE  Advanced(q) = (n + 1) % Len(q.list)
  BY <1>2, <1>5, ModSuccessor DEF Advanced, InTurnOf
<1>6. QED
  BY <1>3, <1>4, <1>5

LEMMA NextAttemptInv ==
    ASSUME NEW objs, NEW q, Placed(q), InTurnOf(q, q.attempt), q.sends <= q.attempt,
           q.answer \in {"none"} \cup Retryable
    PROVE  RequestInv([q EXCEPT !.pc = "loop", !.attempt = @ + 1], objs)
<1> DEFINE p == [q EXCEPT !.pc = "loop", !.attempt = @ + 1]
<1>1. q \in RequestFields /\ q.attempt \in Nat /\ q.sends \in Nat
  BY DEF Placed, RequestFields
<1>2. /\ p.pc = "loop" /\ p.attempt = q.attempt + 1
      /\ p.list = q.list /\ p.index = q.index /\ p.sends = q.sends /\ p.answer = q.answer
  BY <1>1 DEF RequestFields
<1>3. p \in RequestFields
  <2>1. q.attempt + 1 \in Nat /\ "loop" \in PCs
    BY <1>1 DEF PCs
  <2>2. QED
    BY <1>1, <2>1 DEF RequestFields
<1> HIDE DEF p
<1>4. Placed(p) /\ Counted(p)
  BY <1>1, <1>2, <1>3 DEF Placed, Counted, Settled
<1>5. InTurnOf(p, p.attempt - 1)
  BY <1>1, <1>2 DEF InTurnOf
<1>6. RequestInv(p, objs)
  BY <1>2, <1>4, <1>5 DEF RequestInv
<1>7. QED
  BY <1>6 DEF p

LEMMA SettledInv ==
    ASSUME NEW objs, NEW p, Placed(p), p.pc \in Settled
    PROVE  RequestInv(p, objs)
BY DEF RequestInv, Counted, Settled

LEMMA ThrowInv ==
    ASSUME NEW objs, NEW q, Placed(q), NEW error \in Errors
    PROVE  RequestInv([q EXCEPT !.pc = "thrown", !.error = error], objs)
<1> DEFINE p == [q EXCEPT !.pc = "thrown", !.error = error]
<1>1. Placed(p) /\ p.pc = "thrown"
  BY DEF Placed, RequestFields, PCs, Settled
<1>2. QED
  BY <1>1, SettledInv DEF Settled

LEMMA AnsweredPlaced ==
    ASSUME NEW r \in Request, Placed(req[r]), NEW a \in Answers
    PROVE  /\ Placed(Answered(r, a))
           /\ Answered(r, a).answer = a
           /\ Answered(r, a).attempt = req[r].attempt
           /\ Answered(r, a).sends = req[r].sends
           /\ \A n : InTurnOf(req[r], n) => InTurnOf(Answered(r, a), n)
BY DEF Answered, Placed, RequestFields, InTurnOf

\* Every step moves one request, and it is the running one only in the loop.
Moves(r, q) ==
    /\ req' = [req EXCEPT ![r] = q]
    /\ running' = NoRequest \/ (running' = r /\ q.pc = "loop")

LEMMA OneRequestMoves ==
    ASSUME ExecIInv, NetStep, NEW r \in Request, NEW q,
           RequestInv(q, DOMAIN node), Moves(r, q)
    PROVE  ExecIInv'
<1>1. IInv' /\ DOMAIN node \subseteq DOMAIN node'
  BY NetStepFacts DEF ExecIInv
<1>2. req' \in [Request -> RequestFields]
  BY DEF ExecIInv, Moves, RequestInv, Placed
<1>3. \A p : RequestInv(p, DOMAIN node) => RequestInv(p, DOMAIN node')
  BY <1>1 DEF RequestInv
<1>4. \A x \in Request : RequestInv(req'[x], DOMAIN node)
  BY DEF ExecIInv, Moves
<1>5. /\ running' \in Request \cup {NoRequest}
      /\ running' # NoRequest => req'[running'].pc = "loop"
  BY DEF ExecIInv, Moves
<1>6. QED
  BY <1>1, <1>2, <1>3, <1>4, <1>5 DEF ExecIInv

-----------------------------------------------------------------------------
(* One lemma per operation: it takes a step of the network and leaves its  *)
(* request well-formed, counted and in its turn.                           *)

Steps(r) == NetStep /\ \E q : RequestInv(q, DOMAIN node) /\ Moves(r, q)

LEMMA RequestFacts ==
    ASSUME ExecIInv, NEW r \in Request
    PROVE  /\ RequestInv(req[r], DOMAIN node) /\ Placed(req[r])
           /\ req[r] \in RequestFields
BY DEF ExecIInv, RequestInv, Placed

LEMMA NetUnchanged == netUnchanged => NetStep
BY DEF netUnchanged, NetStep

LEMMA AwaitStep ==
    ASSUME NetStep, NEW r, NEW q, NEW pc, Await(r, q, pc),
           RequestInv([q EXCEPT !.pc = pc], DOMAIN node)
    PROVE  Steps(r)
BY DEF Await, Moves, Steps

LEMMA ThrowStep ==
    ASSUME NetStep, NEW r, NEW q, Placed(q), NEW error \in Errors,
           Throw(r, q, error)
    PROVE  Steps(r)
<1>1. RequestInv([q EXCEPT !.pc = "thrown", !.error = error], DOMAIN node)
  BY ThrowInv
<1>2. QED
  BY <1>1 DEF Throw, Moves, Steps

LEMMA NextAttemptStep ==
    ASSUME NetStep, NEW r, NEW q, Placed(q), InTurnOf(q, q.attempt),
           q.sends <= q.attempt, q.answer \in {"none"} \cup Retryable,
           NextAttempt(r, q)
    PROVE  Steps(r)
<1>1. RequestInv([q EXCEPT !.pc = "loop", !.attempt = @ + 1], DOMAIN node)
  BY NextAttemptInv
<1>2. [q EXCEPT !.pc = "loop", !.attempt = @ + 1].pc = "loop"
  BY DEF Placed, RequestFields
<1>3. QED
  BY <1>1, <1>2 DEF NextAttempt, Moves, Steps

LEMMA ExecuteInv ==
    ASSUME ExecIInv, NEW r \in Request, Execute(r)
    PROVE  Steps(r)
<1> DEFINE q == [req[r] EXCEPT
                   !.transactionNodeIds = IF r \in Checked THEN AccountsOf(nodes) ELSE {}]
<1>1. req[r] \in RequestFields /\ req[r].pc = "new" /\ Counted(req[r])
  BY RequestFacts DEF Execute, Resumes, RequestInv
<1>2. AccountsOf(nodes) \subseteq Account
  BY DEF ExecIInv, IInv, TypeOK, NodeFields, AccountsOf
<1>3. ASSUME NEW list \in Seq(Account)
      PROVE  RequestInv([[q EXCEPT !.list = list] EXCEPT !.pc = "preparing"],
                        DOMAIN node)
  <2> DEFINE p == [[q EXCEPT !.list = list] EXCEPT !.pc = "preparing"]
  <2>1. p \in RequestFields
    BY <1>1, <1>2 DEF RequestFields, PCs
  <2>2. /\ p.pc = "preparing" /\ p.list = list /\ p.index = req[r].index
        /\ p.attempt = req[r].attempt /\ p.sends = req[r].sends
        /\ p.answer = req[r].answer
    BY <1>1 DEF RequestFields
  <2> HIDE DEF p
  <2>3. Counted(p) /\ p.index = 0
    BY <1>1, <2>2 DEF Counted, Settled
  <2>4. p.list # <<>> => p.index < Len(p.list)
    BY <2>2, <2>3, LenOfList
  <2>5. RequestInv(p, DOMAIN node)
    BY <2>1, <2>2, <2>3, <2>4 DEF RequestInv, Placed
  <2>6. QED
    BY <2>5 DEF p
<1>4. CASE q.list # <<>> /\ Await(r, q, "preparing") /\ netUnchanged
  <2>1. [q EXCEPT !.pc = "preparing"] =
            [[q EXCEPT !.list = q.list] EXCEPT !.pc = "preparing"]
    BY <1>1 DEF RequestFields
  <2>2. q.list \in Seq(Account)
    BY <1>1 DEF RequestFields
  <2>3. RequestInv([q EXCEPT !.pc = "preparing"], DOMAIN node)
    BY <1>3, <2>1, <2>2
  <2>4. QED
    BY <1>4, <2>3, AwaitStep, NetUnchanged
<1>5. CASE /\ \E S \in SUBSET Account :
                 /\ GetNodeAccountIdsForExecute(S)
                 /\ \E s \in Orders(S) :
                       Await(r, [q EXCEPT !.list = s], "preparing")
           /\ UNCHANGED node /\ readmitUnchanged
  <2>1. PICK S \in SUBSET Account : \E s \in Orders(S) :
            Await(r, [q EXCEPT !.list = s], "preparing")
    BY <1>5
  <2>2. PICK s \in Orders(S) : Await(r, [q EXCEPT !.list = s], "preparing")
    BY <2>1
  <2>3. s \in Seq(Account)
    BY OrdersAreLists
  <2>4. NetStep
    BY <1>5 DEF ListNodes, readmitUnchanged, NetStep, Next
  <2>5. QED
    BY <1>3, <2>2, <2>3, <2>4, AwaitStep
<1>6. QED
  BY <1>4, <1>5 DEF Execute

LEMMA BeginInv ==
    ASSUME ExecIInv, NEW r \in Request, Begin(r)
    PROVE  Steps(r)
<1>1. /\ Placed(req[r]) /\ req[r] \in RequestFields
      /\ req[r].pc = "preparing" /\ Counted(req[r])
  BY RequestFacts DEF Begin, Resumes, RequestInv
<1>2. now \in Nat
  BY DefaultTypes DEF ExecIInv, IInv, TypeOK
<1>3. PICK q : /\ q = [req[r] EXCEPT !.startTime = now]
               /\ NextAttempt(r, q) \/ Throw(r, q, "notInNetwork")
  BY DEF Begin
<1>4. /\ Placed(q) /\ q.attempt = 0 /\ q.sends <= q.attempt
      /\ q.index = 0 /\ q.answer = "none"
  BY <1>1, <1>2, <1>3 DEF Placed, RequestFields, Counted
<1>5. InTurnOf(q, q.attempt)
  <2>1. q.list \in Seq(Account)
    BY <1>4 DEF Placed, RequestFields
  <2>2. QED
    BY <1>4, <2>1, LenOfList, ModSmall DEF InTurnOf
<1>6. NetStep
  BY NetUnchanged DEF Begin
<1>7. CASE NextAttempt(r, q)
  BY <1>4, <1>5, <1>6, <1>7, NextAttemptStep
<1>8. CASE Throw(r, q, "notInNetwork")
  BY <1>4, <1>6, <1>8, ThrowStep DEF Errors
<1>9. QED
  BY <1>3, <1>7, <1>8

LEMMA GiveUpInv ==
    ASSUME ExecIInv, NEW r \in Request, GiveUp(r)
    PROVE  Steps(r)
<1>1. NetStep /\ Placed(req[r])
  BY RequestFacts, NetUnchanged DEF GiveUp
<1>2. Throw(r, req[r], "maxAttempts") \/ Throw(r, req[r], "timeout")
  BY DEF GiveUp
<1>3. QED
  BY <1>1, <1>2, ThrowStep DEF Errors

\* A readmission whose result is not used, or the pick of an object.
LEMMA ReadmissionStep ==
    ASSUME ReadmitNodes, UNCHANGED node, readmitUnchanged
    PROVE  NetStep
BY DEF NetStep

LEMMA PickStep ==
    ASSUME NEW o \in DOMAIN node,
           GetAnyNode(o) \/ \E acct \in Account : GetNode(acct, o),
           GetChannel(o), readmitUnchanged
    PROVE  NetStep
BY DEF NetStep, Next, PickNode, readmitUnchanged

LEMMA NodesForKeyExist ==
    ASSUME ExecIInv, NEW acct \in Account
    PROVE  NodesForKey(acct) \subseteq DOMAIN node
BY DEF ExecIInv, IInv, TypeOK, NodesForKey

LEMMA AskForAnyNodeInv ==
    ASSUME ExecIInv, NEW r \in Request, AskForAnyNode(r)
    PROVE  Steps(r)
<1>1. NetStep
  <2>1. CASE ReadmitNodes /\ UNCHANGED node
    BY <2>1, ReadmissionStep DEF AskForAnyNode
  <2>2. CASE \E o \in DOMAIN node : GetAnyNode(o) /\ GetChannel(o)
    BY <2>2, PickStep DEF AskForAnyNode
  <2>3. QED
    BY <2>1, <2>2 DEF AskForAnyNode, GetAnyNodeThrows, GetAnyNode
<1>2. Throw(r, req[r], "noNode")
  BY DEF AskForAnyNode
<1>3. QED
  BY <1>1, <1>2, RequestFacts, ThrowStep DEF Errors

LEMMA NodeNotFoundInv ==
    ASSUME ExecIInv, NEW r \in Request, NodeNotFound(r)
    PROVE  Steps(r)
<1>1. NetStep
  BY ReadmissionStep DEF NodeNotFound, GetNodeThrows
<1>2. Throw(r, req[r], "noNode")
  BY DEF NodeNotFound
<1>3. QED
  BY <1>1, <1>2, RequestFacts, ThrowStep DEF Errors

\* The list of a request moves on by one with an attempt.
LEMMA AdvancedInv ==
    ASSUME NEW q, Placed(q), q.list # <<>>,
           NEW p, p = [q EXCEPT !.index = Advanced(q)]
    PROVE  /\ Placed(p)
           /\ p.attempt = q.attempt /\ p.sends = q.sends /\ p.answer = q.answer
           /\ p.list = q.list /\ p.index = Advanced(q) /\ p.node = q.node
           /\ \A n \in Nat : InTurnOf(q, n) => InTurnOf(p, n + 1)
<1>1. Advanced(q) \in Nat /\ Advanced(q) < Len(q.list)
  BY AdvancedFacts
<1>2. /\ p \in RequestFields
      /\ p.attempt = q.attempt /\ p.sends = q.sends /\ p.answer = q.answer
      /\ p.list = q.list /\ p.index = Advanced(q) /\ p.node = q.node
  BY <1>1 DEF Placed, RequestFields
<1>3. \A n \in Nat : InTurnOf(q, n) => Advanced(q) = (n + 1) % Len(q.list)
  BY AdvancedFacts
<1>4. QED
  BY <1>1, <1>2, <1>3 DEF Placed, InTurnOf

LEMMA SkipForeignAccountInv ==
    ASSUME ExecIInv, NEW r \in Request, SkipForeignAccount(r)
    PROVE  Steps(r)
<1>1. NetStep
  BY ReadmissionStep DEF SkipForeignAccount, GetNode
<1>2. /\ Placed(req[r]) /\ Counted(req[r]) /\ req[r].list # <<>>
      /\ req[r].pc = "loop" /\ InTurnOf(req[r], req[r].attempt - 1)
      /\ req[r].attempt \in Nat /\ req[r].sends \in Nat
  BY RequestFacts DEF SkipForeignAccount, InTurn, RequestInv, RequestFields
<1>3. /\ req[r].attempt - 1 \in Nat /\ req[r].sends <= req[r].attempt
      /\ (req[r].attempt - 1) + 1 = req[r].attempt
      /\ req[r].answer \in {"none"} \cup Retryable
  BY <1>2 DEF Counted, Settled
<1>4. PICK p : /\ p = [req[r] EXCEPT !.index = Advanced(req[r])]
               /\ NextAttempt(r, p)
  BY DEF SkipForeignAccount
<1>5. /\ Placed(p) /\ InTurnOf(p, p.attempt)
      /\ p.sends <= p.attempt /\ p.answer \in {"none"} \cup Retryable
  BY <1>2, <1>3, <1>4, AdvancedInv
<1>6. QED
  BY <1>1, <1>4, <1>5, NextAttemptStep

LEMMA PickNodeForRequestInv ==
    ASSUME ExecIInv, NEW r \in Request, PickNodeForRequest(r)
    PROVE  Steps(r)
<1>1. /\ RequestInv(req[r], DOMAIN node) /\ req[r] \in RequestFields
      /\ req[r].list # <<>> /\ req[r].pc = "loop" /\ req[r].attempt <= MaxAttempts
  BY RequestFacts DEF PickNodeForRequest, InTurn
<1>2. Current(req[r]) \in Account
  BY <1>1, AdvancedFacts DEF RequestInv
<1>3. PICK o \in Obj :
          /\ GetNode(Current(req[r]), o)
          /\ GetChannel(o)
          /\ Await(r, [req[r] EXCEPT !.node = o, !.nodeAccountId = Current(req[r])],
                   "making")
  BY DEF PickNodeForRequest
<1>4. o \in DOMAIN node
  BY <1>2, <1>3, NodesForKeyExist DEF GetNode
<1>5. NetStep
  BY <1>2, <1>3, <1>4, PickStep DEF PickNodeForRequest
<1>6. PICK q : q = [req[r] EXCEPT !.node = o, !.nodeAccountId = Current(req[r])]
  OBVIOUS
<1>7. PICK p : p = [q EXCEPT !.pc = "making"]
  OBVIOUS
<1>8. /\ p \in RequestFields /\ p.pc = "making" /\ p.node = o
      /\ p.list = req[r].list /\ p.index = req[r].index /\ p.attempt = req[r].attempt
      /\ p.sends = req[r].sends /\ p.answer = req[r].answer
  BY <1>1, <1>2, <1>6, <1>7 DEF RequestFields, PCs
<1>9. RequestInv(p, DOMAIN node)
  BY <1>1, <1>4, <1>8 DEF RequestInv, Placed, Counted, InTurnOf, Settled
<1>10. Await(r, q, "making")
  BY <1>3, <1>6
<1>11. QED
  BY <1>5, <1>7, <1>9, <1>10, AwaitStep

LEMMA SkipUnhealthyNodeInv ==
    ASSUME ExecIInv, NEW r \in Request, SkipUnhealthyNode(r)
    PROVE  Steps(r)
<1>1. NetStep
  BY NetUnchanged DEF SkipUnhealthyNode
<1>2. /\ Placed(req[r]) /\ Counted(req[r]) /\ req[r].list # <<>>
      /\ req[r].pc = "making" /\ InTurnOf(req[r], req[r].attempt - 1)
      /\ req[r].attempt \in Nat /\ req[r].sends \in Nat
  BY RequestFacts DEF SkipUnhealthyNode, Resumes, RequestInv, RequestFields
<1>3. /\ req[r].attempt - 1 \in Nat /\ req[r].sends <= req[r].attempt
      /\ (req[r].attempt - 1) + 1 = req[r].attempt
      /\ req[r].answer \in {"none"} \cup Retryable
  BY <1>2 DEF Counted, Settled
<1>4. CASE Throw(r, req[r], "allUnhealthy")
  BY <1>1, <1>2, <1>4, ThrowStep DEF Errors
<1>5. CASE NextAttempt(r, [req[r] EXCEPT !.index = Advanced(req[r])])
  <2>1. PICK p : /\ p = [req[r] EXCEPT !.index = Advanced(req[r])]
                 /\ NextAttempt(r, p)
    BY <1>5
  <2>2. /\ Placed(p) /\ InTurnOf(p, p.attempt)
        /\ p.sends <= p.attempt /\ p.answer \in {"none"} \cup Retryable
    BY <1>2, <1>3, <2>1, AdvancedInv
  <2>3. QED
    BY <1>1, <2>1, <2>2, NextAttemptStep
<1>6. QED
  BY <1>4, <1>5 DEF SkipUnhealthyNode

LEMMA SendRequestInv ==
    ASSUME ExecIInv, NEW r \in Request, SendRequest(r)
    PROVE  Steps(r)
<1>1. NetStep
  BY NetUnchanged DEF SendRequest
<1>2. /\ RequestInv(req[r], DOMAIN node) /\ req[r] \in RequestFields
      /\ req[r].list # <<>> /\ req[r].pc = "making"
  BY RequestFacts DEF SendRequest, Resumes, RequestInv
<1>3. /\ req[r].attempt \in Nat /\ req[r].sends \in Nat
      /\ req[r].sends < req[r].attempt /\ req[r].attempt <= MaxAttempts
      /\ InTurnOf(req[r], req[r].attempt - 1) /\ Placed(req[r])
      /\ req[r].answer \in {"none"} \cup Retryable /\ req[r].node \in DOMAIN node
  BY <1>2 DEF RequestInv, Counted, RequestFields, Settled
<1>4. Advanced(req[r]) \in Nat /\ Advanced(req[r]) < Len(req[r].list)
  BY <1>2, <1>3, AdvancedFacts
<1>5. Advanced(req[r]) = req[r].attempt % Len(req[r].list)
  <2>1. req[r].attempt - 1 \in Nat /\ (req[r].attempt - 1) + 1 = req[r].attempt
    BY <1>3
  <2>2. QED
    BY <1>2, <1>3, <2>1, AdvancedFacts
<1>6. now + GrpcDeadline \in Nat
  BY ExecutableAssumption, DefaultTypes DEF ExecutableAssumption, ExecIInv, IInv, TypeOK
<1>7. PICK q : q = [req[r] EXCEPT !.index = Advanced(req[r]), !.sends = @ + 1,
                                  !.wakeAt = now + GrpcDeadline]
  OBVIOUS
<1>8. PICK p : p = [q EXCEPT !.pc = "sent"]
  OBVIOUS
<1>9. req[r].sends + 1 \in Nat /\ "sent" \in PCs
  BY <1>3 DEF PCs
<1>10. /\ p \in RequestFields /\ p.pc = "sent" /\ p.node = req[r].node
       /\ p.list = req[r].list /\ p.index = Advanced(req[r])
       /\ p.attempt = req[r].attempt /\ p.sends = req[r].sends + 1
       /\ p.answer = req[r].answer
  BY <1>2, <1>4, <1>6, <1>7, <1>8, <1>9 DEF RequestFields
<1>11. Placed(p) /\ Counted(p) /\ InTurnOf(p, p.attempt)
  BY <1>2, <1>3, <1>4, <1>5, <1>10 DEF Placed, Counted, InTurnOf, Settled
<1>12. RequestInv(p, DOMAIN node)
  BY <1>2, <1>3, <1>10, <1>11 DEF RequestInv
<1>13. Await(r, q, "sent")
  BY <1>7 DEF SendRequest
<1>14. QED
  BY <1>1, <1>8, <1>12, <1>13, AwaitStep

\* What holds of a request that is waiting for its answer.
LEMMA SentFacts ==
    ASSUME ExecIInv, NEW r \in Request, Resumes(r, "sent")
    PROVE  /\ Placed(req[r]) /\ req[r].list # <<>> /\ req[r].node \in DOMAIN node
           /\ InTurnOf(req[r], req[r].attempt)
           /\ req[r].attempt \in 1..MaxAttempts /\ req[r].sends \in Nat
           /\ req[r].sends <= req[r].attempt
<1>1. RequestInv(req[r], DOMAIN node) /\ req[r].pc = "sent"
  BY RequestFacts DEF Resumes
<1>2. req[r].attempt \in Nat /\ req[r].sends \in Nat
  BY <1>1 DEF RequestInv, Placed, RequestFields
<1>3. QED
  BY <1>1, <1>2, AttemptLimit DEF RequestInv, Counted

LEMMA AnswerUnavailableInv ==
    ASSUME ExecIInv, NEW r \in Request, AnswerUnavailable(r)
    PROVE  Steps(r)
<1>1. /\ Placed(req[r]) /\ req[r].node \in DOMAIN node
      /\ InTurnOf(req[r], req[r].attempt) /\ req[r].sends <= req[r].attempt
  BY SentFacts DEF AnswerUnavailable
<1>2. FailNode
  BY <1>1 DEF AnswerUnavailable, FailNode
<1>3. PICK q : q = Answered(r, "unavailable") /\ NextAttempt(r, q)
  BY DEF AnswerUnavailable
<1>4. /\ Placed(q) /\ InTurnOf(q, q.attempt)
      /\ q.sends <= q.attempt /\ q.answer = "unavailable"
  BY <1>1, <1>3, AnsweredPlaced DEF Answers, Retryable
<1>5. NetStep
  BY <1>2 DEF NetStep, Next
<1>6. QED
  BY <1>3, <1>4, <1>5, NextAttemptStep DEF Retryable

LEMMA FailedInv ==
    ASSUME ExecIInv, NEW r \in Request, NetStep, Resumes(r, "sent"),
           NEW a \in Definitive, Throw(r, Answered(r, a), "answer")
    PROVE  Steps(r)
<1>1. PICK q : q = Answered(r, a) /\ Throw(r, q, "answer")
  OBVIOUS
<1>2. Placed(q)
  BY <1>1, SentFacts, AnsweredPlaced DEF Answers
<1>3. QED
  BY <1>1, <1>2, ThrowStep DEF Errors

LEMMA ResponseStep ==
    ASSUME ExecIInv, NEW r \in Request, Response(r)
    PROVE  NetStep /\ Resumes(r, "sent")
<1>1. req[r].node \in DOMAIN node
  BY SentFacts DEF Response
<1>2. RelieveNode
  BY <1>1 DEF Response, RelieveNode
<1>3. QED
  BY <1>2 DEF NetStep, Next, Response

LEMMA AnswerBusyInv ==
    ASSUME ExecIInv, NEW r \in Request, AnswerBusy(r)
    PROVE  Steps(r)
<1>1. NetStep /\ Resumes(r, "sent")
  BY ResponseStep DEF AnswerBusy
<1>2. /\ Placed(req[r]) /\ req[r].list # <<>> /\ req[r].node \in DOMAIN node
      /\ InTurnOf(req[r], req[r].attempt)
      /\ req[r].attempt \in 1..MaxAttempts /\ req[r].sends \in Nat
      /\ req[r].sends <= req[r].attempt
  BY <1>1, SentFacts
<1>3. now + DelayForAttempt(req[r].attempt) \in Nat
  <2>1. DelayForAttempt(req[r].attempt) \in Nat
    BY <1>2, DelayIsNat
  <2>2. QED
    BY <2>1, DefaultTypes DEF ExecIInv, IInv, TypeOK
<1>4. PICK q : q = [Answered(r, "busy") EXCEPT
                      !.wakeAt = now + DelayForAttempt(req[r].attempt)]
  OBVIOUS
<1>5. PICK p : p = [q EXCEPT !.pc = "waiting"]
  OBVIOUS
<1>6. /\ p \in RequestFields /\ p.pc = "waiting" /\ p.node = req[r].node
      /\ p.list = req[r].list /\ p.index = req[r].index
      /\ p.attempt = req[r].attempt /\ p.sends = req[r].sends
      /\ p.answer = "busy"
  BY <1>2, <1>3, <1>4, <1>5
  DEF Placed, RequestFields, Answered, PCs, Answers, Retryable
<1>7. Placed(p) /\ Counted(p) /\ InTurnOf(p, p.attempt)
  BY <1>2, <1>6, AttemptLimit DEF Placed, Counted, InTurnOf, Retryable
<1>8. RequestInv(p, DOMAIN node)
  BY <1>2, <1>6, <1>7 DEF RequestInv
<1>9. Await(r, q, "waiting")
  BY <1>4 DEF AnswerBusy
<1>10. QED
  BY <1>1, <1>5, <1>8, <1>9, AwaitStep

LEMMA AnswerOkInv ==
    ASSUME ExecIInv, NEW r \in Request, AnswerOk(r)
    PROVE  Steps(r)
<1>1. NetStep /\ Resumes(r, "sent")
  BY ResponseStep DEF AnswerOk
<1>2. PICK q : q = Answered(r, "ok") /\ Await(r, q, "returned")
  BY DEF AnswerOk
<1>3. Placed(q)
  BY <1>1, <1>2, SentFacts, AnsweredPlaced DEF Answers, Definitive
<1>4. PICK p : p = [q EXCEPT !.pc = "returned"]
  OBVIOUS
<1>5. Placed(p) /\ p.pc \in Settled
  BY <1>3, <1>4 DEF Placed, RequestFields, PCs, Settled
<1>6. QED
  BY <1>1, <1>2, <1>4, <1>5, SettledInv, AwaitStep

LEMMA WakeUpInv ==
    ASSUME ExecIInv, NEW r \in Request, WakeUp(r)
    PROVE  Steps(r)
<1>1. NetStep /\ NextAttempt(r, req[r])
  BY NetUnchanged DEF WakeUp
<1>2. RequestInv(req[r], DOMAIN node) /\ req[r].pc = "waiting"
  BY RequestFacts DEF WakeUp, Resumes
<1>3. /\ Placed(req[r]) /\ InTurnOf(req[r], req[r].attempt)
      /\ req[r].sends <= req[r].attempt /\ req[r].answer \in {"none"} \cup Retryable
  BY <1>2 DEF RequestInv, Counted, Settled
<1>4. QED
  BY <1>1, <1>3, NextAttemptStep

LEMMA RequestSteps ==
    ASSUME ExecIInv, NEW r \in Request, Execute(r) \/ Local(r) \/ Remote(r)
    PROVE  Steps(r)
<1>1. CASE DeadlineExpires(r)
  BY <1>1, FailedInv, NetUnchanged DEF DeadlineExpires, Definitive
<1>2. CASE AnswerFailed(r)
  BY <1>2, FailedInv, NetUnchanged DEF AnswerFailed, Definitive
<1>3. CASE AnswerRejected(r)
  BY <1>3, FailedInv, ResponseStep DEF AnswerRejected, Definitive
<1>4. QED
  BY <1>1, <1>2, <1>3, ExecuteInv, BeginInv, GiveUpInv, AskForAnyNodeInv,
     NodeNotFoundInv, SkipForeignAccountInv, PickNodeForRequestInv,
     SkipUnhealthyNodeInv, SendRequestInv, AnswerUnavailableInv, AnswerBusyInv,
     AnswerOkInv, WakeUpInv
  DEF Local, Remote

LEMMA InitExecIInv == InitExec => ExecIInv
<1> SUFFICES ASSUME InitExec
             PROVE  ExecIInv
  OBVIOUS
<1>1. IInv /\ running = NoRequest /\ NoRequest \notin Request
  BY InitNetworkIInv, ExecutableAssumption DEF InitExec, ExecutableAssumption
<1>2. ASSUME NEW r \in Request
      PROVE  RequestInv(NewRequest(r), DOMAIN node)
  <2>1. PICK q : q = NewRequest(r)
    OBVIOUS
  <2>2. UserNodes[r] \in Seq(Account)
    BY ExecutableAssumption DEF ExecutableAssumption
  <2>3. /\ q \in RequestFields /\ q.pc = "new" /\ q.index = 0 /\ q.attempt = 0
        /\ q.sends = 0 /\ q.answer = "none"
    BY <2>1, <2>2 DEF NewRequest, RequestFields, PCs, Errors
  <2>4. q.list # <<>> => q.index < Len(q.list)
    BY <2>3, LenOfList DEF RequestFields
  <2>5. QED
    BY <2>1, <2>3, <2>4 DEF RequestInv, Placed, Counted, Settled
<1>3. req = [r \in Request |-> NewRequest(r)]
  BY DEF InitExec
<1>4. \A r \in Request : NewRequest(r) \in RequestFields
  BY <1>2 DEF RequestInv, Placed
<1>5. QED
  BY <1>1, <1>2, <1>3, <1>4 DEF ExecIInv

LEMMA NextExecIInv == ExecIInv /\ [NextExec]_vars => ExecIInv'
<1> SUFFICES ASSUME ExecIInv, [NextExec]_vars
             PROVE  ExecIInv'
  OBVIOUS
<1>1. CASE Environment \/ UNCHANGED vars
  <2>1. NetStep /\ UNCHANGED <<req, running>>
    BY <1>1 DEF Environment, NetStep, Next, vars, execVars
  <2>2. IInv' /\ DOMAIN node \subseteq DOMAIN node'
    BY <2>1, NetStepFacts DEF ExecIInv
  <2>3. \A r \in Request : RequestInv(req[r], DOMAIN node')
    BY <2>2 DEF ExecIInv, RequestInv
  <2>4. QED
    BY <2>1, <2>2, <2>3 DEF ExecIInv
<1>2. ASSUME NEW r \in Request, Execute(r) \/ Local(r) \/ Remote(r)
      PROVE  ExecIInv'
  BY <1>2, RequestSteps, OneRequestMoves DEF Steps
<1>3. QED
  BY <1>1, <1>2 DEF NextExec

LEMMA ExecInductive == ExecSpec => []ExecIInv
BY InitExecIInv, NextExecIInv, PTL DEF ExecSpec

\* However many requests run over however many nodes, while the network is
\* replaced, closed and timed: every request has the fields the loop relies on,
\* and every attempt, whether skipped, failed or retried, moves to the next
\* node of its list exactly once.
THEOREM RequestsCorrect == ExecSpec => []ExecInv
BY InvariantImplies, ExecInductive, PTL

\* Run by the retry loop the network keeps what it promises by itself: getNode
\* finds only objects of `_nodes', and no channel is open outside of them.
THEOREM LoopKeepsNetwork ==
    ExecSpec => [](ListsHoldCurrentNodes /\ OpenChannelsAreReachable)
<1>1. ExecIInv => ListsHoldCurrentNodes /\ OpenChannelsAreReachable
  BY DEF ExecIInv, IInv, ListsInv
<1>2. QED
  BY <1>1, ExecInductive, PTL

-----------------------------------------------------------------------------
(* What each step does to the request it moves, as far as the contract and *)
(* the sends are concerned                                                 *)

Working == {"preparing", "loop", "making", "waiting"}

Keeps(r) == req'[r].sends = req[r].sends /\ req'[r].answer = req[r].answer

Transition(r) ==
    /\ \A x \in Request \ {r} : req'[x] = req[x]
    /\ \/ req[r].pc = "new" /\ req'[r].pc = "preparing" /\ Keeps(r)
       \/ req[r].pc \in Working /\ req'[r].pc \in {"loop", "making", "thrown"} /\ Keeps(r)
       \/ /\ req[r].pc = "making" /\ req'[r].pc = "sent" /\ SendRequest(r)
          /\ req'[r].sends = req[r].sends + 1 /\ req'[r].answer = req[r].answer
          /\ req'[r].node = req[r].node
       \/ /\ req[r].pc = "sent" /\ req'[r].pc \in {"loop", "waiting"}
          /\ req'[r].answer \in Retryable /\ req'[r].sends = req[r].sends
       \/ /\ req[r].pc = "sent" /\ req'[r].sends = req[r].sends
          /\ req'[r].answer \in Definitive
          /\ req'[r].pc = IF req'[r].answer = "ok" THEN "returned" ELSE "thrown"

LEMMA AwaitEffect ==
    ASSUME ExecIInv, NEW r \in Request, NEW q \in RequestFields, NEW pc, Await(r, q, pc)
    PROVE  /\ \A x \in Request \ {r} : req'[x] = req[x]
           /\ req'[r].pc = pc /\ req'[r].sends = q.sends /\ req'[r].answer = q.answer
           /\ req'[r].node = q.node
<1>1. PICK p : p = [q EXCEPT !.pc = pc]
  OBVIOUS
<1>2. p.pc = pc /\ p.sends = q.sends /\ p.answer = q.answer /\ p.node = q.node
  BY <1>1 DEF RequestFields
<1>3. req' = [req EXCEPT ![r] = p]
  BY <1>1 DEF Await
<1>4. QED
  BY <1>2, <1>3 DEF ExecIInv

LEMMA ThrowEffect ==
    ASSUME ExecIInv, NEW r \in Request, NEW q \in RequestFields, NEW error,
           Throw(r, q, error)
    PROVE  /\ \A x \in Request \ {r} : req'[x] = req[x]
           /\ req'[r].pc = "thrown" /\ req'[r].sends = q.sends
           /\ req'[r].answer = q.answer
<1>1. PICK p : p = [q EXCEPT !.pc = "thrown", !.error = error]
  OBVIOUS
<1>2. p.pc = "thrown" /\ p.sends = q.sends /\ p.answer = q.answer
  BY <1>1 DEF RequestFields
<1>3. req' = [req EXCEPT ![r] = p]
  BY <1>1 DEF Throw
<1>4. QED
  BY <1>2, <1>3 DEF ExecIInv

LEMMA NextAttemptEffect ==
    ASSUME ExecIInv, NEW r \in Request, NEW q \in RequestFields, NextAttempt(r, q)
    PROVE  /\ \A x \in Request \ {r} : req'[x] = req[x]
           /\ req'[r].pc = "loop" /\ req'[r].sends = q.sends /\ req'[r].answer = q.answer
<1>1. PICK p : p = [q EXCEPT !.pc = "loop", !.attempt = @ + 1]
  OBVIOUS
<1>2. p.pc = "loop" /\ p.sends = q.sends /\ p.answer = q.answer
  BY <1>1 DEF RequestFields
<1>3. req' = [req EXCEPT ![r] = p]
  BY <1>1 DEF NextAttempt
<1>4. QED
  BY <1>2, <1>3 DEF ExecIInv

LEMMA ExecuteEffect ==
    ASSUME ExecIInv, NEW r \in Request, Execute(r)
    PROVE  Transition(r)
<1>1. req[r] \in RequestFields /\ req[r].pc = "new"
  BY RequestFacts DEF Execute, Resumes
<1>2. PICK q : q = [req[r] EXCEPT
                      !.transactionNodeIds = IF r \in Checked THEN AccountsOf(nodes)
                                             ELSE {}]
  OBVIOUS
<1>3. /\ q \in RequestFields
      /\ q.sends = req[r].sends /\ q.answer = req[r].answer
  <2>1. AccountsOf(nodes) \subseteq Account
    BY DEF ExecIInv, IInv, TypeOK, NodeFields, AccountsOf
  <2>2. QED
    BY <1>1, <1>2, <2>1 DEF RequestFields
<1>4. CASE Await(r, q, "preparing")
  BY <1>1, <1>3, <1>4, AwaitEffect DEF Transition, Keeps
<1>5. ASSUME NEW S \in SUBSET Account, NEW s \in Orders(S),
             Await(r, [q EXCEPT !.list = s], "preparing")
      PROVE  Transition(r)
  <2>1. PICK p : p = [q EXCEPT !.list = s]
    OBVIOUS
  <2>2. s \in Seq(Account)
    BY OrdersAreLists
  <2>3. p \in RequestFields /\ p.sends = req[r].sends /\ p.answer = req[r].answer
    BY <1>3, <2>1, <2>2 DEF RequestFields
  <2>4. Await(r, p, "preparing")
    BY <1>5, <2>1
  <2>5. QED
    BY <1>1, <2>3, <2>4, AwaitEffect DEF Transition, Keeps
<1>6. QED
  BY <1>2, <1>4, <1>5 DEF Execute

LEMMA BeginEffect ==
    ASSUME ExecIInv, NEW r \in Request, Begin(r)
    PROVE  Transition(r)
<1>1. req[r] \in RequestFields /\ req[r].pc = "preparing"
  BY RequestFacts DEF Begin, Resumes
<1>2. PICK q : /\ q = [req[r] EXCEPT !.startTime = now]
               /\ NextAttempt(r, q) \/ Throw(r, q, "notInNetwork")
  BY DEF Begin
<1>3. now \in Nat
  BY DefaultTypes DEF ExecIInv, IInv, TypeOK
<1>4. q \in RequestFields /\ q.sends = req[r].sends /\ q.answer = req[r].answer
  BY <1>1, <1>2, <1>3 DEF RequestFields
<1>5. QED
  BY <1>1, <1>2, <1>4, NextAttemptEffect, ThrowEffect DEF Transition, Keeps, Working

\* The steps of the loop that end a turn without having sent anything.
LEMMA TurnEffect ==
    ASSUME ExecIInv, NEW r \in Request,
           GiveUp(r) \/ AskForAnyNode(r) \/ NodeNotFound(r) \/ SkipForeignAccount(r)
           \/ PickNodeForRequest(r)
    PROVE  Transition(r)
<1>1. Placed(req[r]) /\ req[r] \in RequestFields /\ req[r].pc = "loop"
  BY RequestFacts
  DEF GiveUp, AskForAnyNode, NodeNotFound, SkipForeignAccount, PickNodeForRequest, InTurn
<1>2. CASE GiveUp(r) \/ AskForAnyNode(r) \/ NodeNotFound(r)
  <2>1. \/ Throw(r, req[r], "maxAttempts") \/ Throw(r, req[r], "timeout")
        \/ Throw(r, req[r], "noNode")
    BY <1>2 DEF GiveUp, AskForAnyNode, NodeNotFound
  <2>2. QED
    BY <1>1, <2>1, ThrowEffect DEF Transition, Keeps, Working
<1>3. CASE SkipForeignAccount(r)
  <2>1. PICK p : /\ p = [req[r] EXCEPT !.index = Advanced(req[r])]
                 /\ NextAttempt(r, p) /\ req[r].list # <<>>
    BY <1>3 DEF SkipForeignAccount
  <2>2. p \in RequestFields /\ p.sends = req[r].sends /\ p.answer = req[r].answer
    BY <1>1, <2>1, AdvancedInv DEF Placed
  <2>3. QED
    BY <1>1, <2>1, <2>2, NextAttemptEffect DEF Transition, Keeps, Working
<1>4. CASE PickNodeForRequest(r)
  <2>1. PICK p : \E o \in Obj :
            /\ p = [req[r] EXCEPT !.node = o, !.nodeAccountId = Current(req[r])]
            /\ Await(r, p, "making") /\ req[r].list # <<>>
    BY <1>4 DEF PickNodeForRequest
  <2>2. Current(req[r]) \in Account
    BY <1>1, <2>1, AdvancedFacts
  <2>3. p \in RequestFields /\ p.sends = req[r].sends /\ p.answer = req[r].answer
    BY <1>1, <2>1, <2>2 DEF RequestFields
  <2>4. QED
    BY <1>1, <2>1, <2>3, AwaitEffect DEF Transition, Keeps, Working
<1>5. QED
  BY <1>2, <1>3, <1>4

LEMMA SkipUnhealthyNodeEffect ==
    ASSUME ExecIInv, NEW r \in Request, SkipUnhealthyNode(r)
    PROVE  Transition(r)
<1>1. /\ Placed(req[r]) /\ req[r] \in RequestFields /\ req[r].pc = "making"
      /\ req[r].list # <<>>
  BY RequestFacts DEF SkipUnhealthyNode, Resumes, RequestInv
<1>2. CASE Throw(r, req[r], "allUnhealthy")
  BY <1>1, <1>2, ThrowEffect DEF Transition, Keeps, Working
<1>3. CASE NextAttempt(r, [req[r] EXCEPT !.index = Advanced(req[r])])
  <2>1. PICK p : /\ p = [req[r] EXCEPT !.index = Advanced(req[r])]
                 /\ NextAttempt(r, p)
    BY <1>3
  <2>2. p \in RequestFields /\ p.sends = req[r].sends /\ p.answer = req[r].answer
    BY <1>1, <2>1, AdvancedInv DEF Placed
  <2>3. QED
    BY <1>1, <2>1, <2>2, NextAttemptEffect DEF Transition, Keeps, Working
<1>4. QED
  BY <1>2, <1>3 DEF SkipUnhealthyNode

LEMMA SendRequestEffect ==
    ASSUME ExecIInv, NEW r \in Request, SendRequest(r)
    PROVE  Transition(r)
<1>1. /\ Placed(req[r]) /\ req[r] \in RequestFields /\ req[r].pc = "making"
      /\ req[r].list # <<>>
  BY RequestFacts DEF SendRequest, Resumes, RequestInv
<1>2. PICK p : /\ p = [req[r] EXCEPT !.index = Advanced(req[r]), !.sends = @ + 1,
                                     !.wakeAt = now + GrpcDeadline]
               /\ Await(r, p, "sent")
  BY DEF SendRequest
<1>3. Advanced(req[r]) \in Nat
  BY <1>1, AdvancedFacts
<1>4. now + GrpcDeadline \in Nat
  BY ExecutableAssumption, DefaultTypes DEF ExecutableAssumption, ExecIInv, IInv, TypeOK
<1>5. req[r].sends + 1 \in Nat
  BY <1>1 DEF RequestFields
<1>6. /\ p \in RequestFields /\ p.sends = req[r].sends + 1
      /\ p.answer = req[r].answer /\ p.node = req[r].node
  BY <1>1, <1>2, <1>3, <1>4, <1>5 DEF RequestFields
<1>7. QED
  BY <1>1, <1>2, <1>6, AwaitEffect DEF Transition

LEMMA AnswerEffect ==
    ASSUME ExecIInv, NEW r \in Request, DeadlineExpires(r) \/ Remote(r)
    PROVE  Transition(r)
<1>1. Placed(req[r]) /\ req[r] \in RequestFields /\ req[r].pc = "sent"
  BY RequestFacts
  DEF DeadlineExpires, Remote, AnswerOk, AnswerBusy, AnswerRejected,
      AnswerUnavailable, AnswerFailed, Response, Resumes
<1>2. ASSUME NEW a \in Answers
      PROVE  /\ Answered(r, a) \in RequestFields /\ Answered(r, a).answer = a
             /\ Answered(r, a).sends = req[r].sends
  BY <1>1, AnsweredPlaced DEF Placed
<1>3. ASSUME NEW a \in Definitive \ {"ok"}, Throw(r, Answered(r, a), "answer")
      PROVE  Transition(r)
  <2>1. PICK q : q = Answered(r, a) /\ Throw(r, q, "answer")
    BY <1>3
  <2>2. q \in RequestFields /\ q.answer = a /\ q.sends = req[r].sends
    BY <1>2, <2>1 DEF Answers
  <2>3. QED
    BY <1>1, <2>1, <2>2, ThrowEffect DEF Transition
<1>4. CASE DeadlineExpires(r) \/ AnswerFailed(r) \/ AnswerRejected(r)
  <2>1. \E a \in {"deadline", "failed", "rejected"} : Throw(r, Answered(r, a), "answer")
    BY <1>4 DEF DeadlineExpires, AnswerFailed, AnswerRejected
  <2>2. {"deadline", "failed", "rejected"} \subseteq Definitive \ {"ok"}
    BY DEF Definitive
  <2>3. QED
    BY <1>3, <2>1, <2>2
<1>5. CASE AnswerOk(r)
  <2>1. PICK q : q = Answered(r, "ok") /\ Await(r, q, "returned")
    BY <1>5 DEF AnswerOk
  <2>2. q \in RequestFields /\ q.answer = "ok" /\ q.sends = req[r].sends
    BY <1>2, <2>1 DEF Answers, Definitive
  <2>3. QED
    BY <1>1, <2>1, <2>2, AwaitEffect DEF Transition, Definitive
<1>6. CASE AnswerUnavailable(r)
  <2>1. PICK q : q = Answered(r, "unavailable") /\ NextAttempt(r, q)
    BY <1>6 DEF AnswerUnavailable
  <2>2. q \in RequestFields /\ q.answer = "unavailable" /\ q.sends = req[r].sends
    BY <1>2, <2>1 DEF Answers, Retryable
  <2>3. QED
    BY <1>1, <2>1, <2>2, NextAttemptEffect DEF Transition, Retryable
<1>7. CASE AnswerBusy(r)
  <2>1. PICK p : /\ p = [Answered(r, "busy") EXCEPT
                           !.wakeAt = now + DelayForAttempt(req[r].attempt)]
                 /\ Await(r, p, "waiting")
    BY <1>7 DEF AnswerBusy
  <2>2. now + DelayForAttempt(req[r].attempt) \in Nat
    <3>1. req[r].attempt \in 1..MaxAttempts
      BY <1>7, SentFacts DEF AnswerBusy, Response
    <3>2. DelayForAttempt(req[r].attempt) \in Nat
      BY <3>1, DelayIsNat
    <3>3. QED
      BY <3>2, DefaultTypes DEF ExecIInv, IInv, TypeOK
  <2>3. p \in RequestFields /\ p.answer = "busy" /\ p.sends = req[r].sends
    BY <1>1, <2>1, <2>2 DEF Answered, RequestFields, Answers, Retryable
  <2>4. QED
    BY <1>1, <2>1, <2>3, AwaitEffect DEF Transition, Retryable
<1>8. QED
  BY <1>4, <1>5, <1>6, <1>7 DEF Remote

LEMMA WakeUpEffect ==
    ASSUME ExecIInv, NEW r \in Request, WakeUp(r)
    PROVE  Transition(r)
<1>1. /\ req[r] \in RequestFields /\ req[r].pc = "waiting"
      /\ NextAttempt(r, req[r])
  BY RequestFacts DEF WakeUp, Resumes
<1>2. QED
  BY <1>1, NextAttemptEffect DEF Transition, Keeps, Working

LEMMA Transitions ==
    ASSUME ExecIInv, NEW r \in Request, Execute(r) \/ Local(r) \/ Remote(r)
    PROVE  Transition(r)
BY ExecuteEffect, BeginEffect, TurnEffect, SkipUnhealthyNodeEffect,
   SendRequestEffect, AnswerEffect, WakeUpEffect
DEF Local

\* Whichever of its requests made a node back off, and however long a request
\* that picked the node before was building its message, no request starts to
\* send to a node before its backoff is over.
THEOREM BackedOffNodesRest == ExecSpec => NoNewSendToBackedOffNode
<1>1. ASSUME ExecIInv, NextExec, NEW o \in DOMAIN node, ~ IsHealthy(node[o]),
             NEW r \in Request, IsSending(req'[r], o)
      PROVE  IsSending(req[r], o)
  <2>1. CASE Environment
    BY <1>1, <2>1 DEF Environment, execVars
  <2>2. ASSUME NEW x \in Request, Execute(x) \/ Local(x) \/ Remote(x)
        PROVE  IsSending(req[r], o)
    <3>1. Transition(x)
      BY <1>1, <2>2, Transitions
    <3>2. CASE x # r
      BY <1>1, <3>1, <3>2 DEF Transition
    <3>3. CASE x = r
      <4>1. SendRequest(r) /\ req'[r].node = req[r].node
        BY <1>1, <3>1, <3>3 DEF Transition, IsSending
      <4>2. IsHealthy(node[req[r].node])
        BY <4>1 DEF SendRequest, CanSend
      <4>3. QED
        BY <1>1, <4>1, <4>2 DEF IsSending
    <3>4. QED
      BY <3>2, <3>3
  <2>3. QED
    BY <1>1, <2>1, <2>2 DEF NextExec
<1>2. ExecIInv /\ [NextExec]_vars =>
          [\A o \in DOMAIN node :
              ~ IsHealthy(node[o]) =>
                  \A r \in Request : IsSending(req'[r], o) => IsSending(req[r], o)]_vars
  BY <1>1
<1>3. QED
  BY <1>2, ExecInductive, PTL DEF ExecSpec, NoNewSendToBackedOffNode

-----------------------------------------------------------------------------
(* The loop implements RetryContract *)

phaseBar == [r \in Request |-> Phase(req[r])]
sendsBar == [r \in Request |-> req[r].sends]
answerBar == [r \in Request |-> req[r].answer]

LEMMA Phases ==
    ASSUME NEW q
    PROVE  /\ q.pc = "new" => Phase(q) = "idle"
           /\ q.pc \in Working => Phase(q) = "running"
           /\ q.pc \in {"sent", "returned", "thrown"} => Phase(q) = q.pc
BY DEF Phase, Working

\* The mapped variables change where a transition changes its request.
LEMMA MappedUpdate ==
    ASSUME NEW r \in Request, Transition(r)
    PROVE  /\ phaseBar' = [phaseBar EXCEPT ![r] = Phase(req'[r])]
           /\ sendsBar' = [sendsBar EXCEPT ![r] = req'[r].sends]
           /\ answerBar' = [answerBar EXCEPT ![r] = req'[r].answer]
           /\ phaseBar[r] = Phase(req[r]) /\ sendsBar[r] = req[r].sends
           /\ answerBar[r] = req[r].answer
BY DEF Transition, phaseBar, sendsBar, answerBar

LEMMA InitContract == InitExec => Contract!Init
BY DEF InitExec, NewRequest, Contract!Init, Phase

LEMMA StepContract ==
    ASSUME ExecIInv, NEW r \in Request, Transition(r)
    PROVE  [Contract!Next]_(Contract!vars)
<1>1. /\ phaseBar' = [phaseBar EXCEPT ![r] = Phase(req'[r])]
      /\ sendsBar' = [sendsBar EXCEPT ![r] = req'[r].sends]
      /\ answerBar' = [answerBar EXCEPT ![r] = req'[r].answer]
      /\ phaseBar[r] = Phase(req[r]) /\ sendsBar[r] = req[r].sends
      /\ answerBar[r] = req[r].answer
  BY MappedUpdate
<1>2. ASSUME req'[r].sends = req[r].sends
      PROVE  sendsBar' = sendsBar
  BY <1>1, <1>2 DEF sendsBar
<1>3. ASSUME req'[r].answer = req[r].answer
      PROVE  answerBar' = answerBar
  BY <1>1, <1>3 DEF answerBar
<1>4. CASE req[r].pc = "new" /\ req'[r].pc = "preparing" /\ Keeps(r)
  <2>1. Phase(req[r]) = "idle" /\ Phase(req'[r]) = "running"
    BY <1>4, Phases DEF Working
  <2>2. Contract!Start(r)
    BY <1>1, <1>2, <1>3, <1>4, <2>1
    DEF Keeps, Contract!Start, phaseBar, sendsBar, answerBar
  <2>3. QED
    BY <2>2 DEF Contract!Next
<1>5. CASE /\ req[r].pc \in Working /\ req'[r].pc \in {"loop", "making", "thrown"}
           /\ Keeps(r)
  <2>1. Phase(req[r]) = "running"
    BY <1>5, Phases
  <2>2. CASE req'[r].pc = "thrown"
    <3>1. Phase(req'[r]) = "thrown"
      BY <2>2, Phases
    <3>2. Contract!GiveUp(r)
      BY <1>1, <1>2, <1>3, <1>5, <2>1, <3>1
      DEF Keeps, Contract!GiveUp, phaseBar, sendsBar, answerBar
    <3>3. QED
      BY <3>2 DEF Contract!Next
  <2>3. CASE req'[r].pc # "thrown"
    <3>1. Phase(req'[r]) = "running"
      BY <1>5, <2>3, Phases DEF Working
    <3>2. phaseBar' = phaseBar
      BY <1>1, <2>1, <3>1 DEF phaseBar
    <3>3. QED
      BY <1>2, <1>3, <1>5, <3>2 DEF Keeps, Contract!vars, phaseBar, sendsBar, answerBar
  <2>4. QED
    BY <2>2, <2>3
<1>6. CASE /\ req[r].pc = "making" /\ req'[r].pc = "sent"
           /\ req'[r].sends = req[r].sends + 1 /\ req'[r].answer = req[r].answer
  <2>1. Phase(req[r]) = "running" /\ Phase(req'[r]) = "sent"
    BY <1>6, Phases DEF Working
  <2>2. RequestInv(req[r], DOMAIN node) /\ req[r] \in RequestFields
    BY RequestFacts
  <2>3. req[r].sends < MaxAttempts /\ req[r].answer \in {"none"} \cup Retryable
    BY <1>6, <2>2, AttemptLimit DEF RequestInv, Counted, RequestFields, Settled
  <2>4. Contract!Send(r)
    BY <1>1, <1>3, <1>6, <2>1, <2>3
    DEF Contract!Send, Contract!MaySend, phaseBar, sendsBar, answerBar
  <2>5. QED
    BY <2>4 DEF Contract!Next
<1>7. CASE /\ req[r].pc = "sent" /\ req'[r].pc \in {"loop", "waiting"}
           /\ req'[r].answer \in Retryable /\ req'[r].sends = req[r].sends
  <2>1. Phase(req[r]) = "sent" /\ Phase(req'[r]) = "running"
    BY <1>7, Phases DEF Working
  <2>2. Contract!Retry(r)
    BY <1>1, <1>2, <1>7, <2>1 DEF Contract!Retry, phaseBar, sendsBar, answerBar
  <2>3. QED
    BY <2>2 DEF Contract!Next
<1>8. CASE /\ req[r].pc = "sent" /\ req'[r].sends = req[r].sends
           /\ req'[r].answer \in Definitive
           /\ req'[r].pc = IF req'[r].answer = "ok" THEN "returned" ELSE "thrown"
  <2>1. /\ Phase(req[r]) = "sent"
        /\ Phase(req'[r]) = IF req'[r].answer = "ok" THEN "returned" ELSE "thrown"
    BY <1>8, Phases
  <2>2. Contract!Finish(r)
    BY <1>1, <1>2, <1>8, <2>1 DEF Contract!Finish, phaseBar, sendsBar, answerBar
  <2>3. QED
    BY <2>2 DEF Contract!Next
<1>9. QED
  BY <1>4, <1>5, <1>6, <1>7, <1>8 DEF Transition

\* execute() keeps its contract whatever the network does meanwhile: at most
\* MaxAttempts sends, one at a time, none after a definitive answer, and one
\* settlement, which is a success exactly when the last answer was.
THEOREM LoopImplementsContract == ExecSpec => ImplementsContract
<1>1. InitExec => Contract!Init
  BY InitContract
<1>2. ExecIInv /\ [NextExec]_vars => [Contract!Next]_(Contract!vars)
  <2> SUFFICES ASSUME ExecIInv, [NextExec]_vars
               PROVE  [Contract!Next]_(Contract!vars)
    OBVIOUS
  <2>1. CASE UNCHANGED req
    BY <2>1 DEF Contract!vars
  <2>2. ASSUME NEW r \in Request, Execute(r) \/ Local(r) \/ Remote(r)
        PROVE  [Contract!Next]_(Contract!vars)
    BY <2>2, Transitions, StepContract
  <2>3. QED
    BY <2>1, <2>2 DEF NextExec, Environment, vars, execVars
<1>3. QED
  BY <1>1, <1>2, ExecInductive, PTL DEF ExecSpec, ImplementsContract, Contract!Spec
=============================================================================
