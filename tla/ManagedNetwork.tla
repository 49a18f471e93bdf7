--------------------------- MODULE ManagedNetwork ---------------------------
(***************************************************************************)
(* The consensus network of a client: the node objects (ManagedNode.js,    *)
(* Node.js) and the lists a Network keeps of them (ManagedNetwork.js,      *)
(* Network.js).                                                            *)
(*                                                                         *)
(* A node object is created by setNetwork, or cloned by                    *)
(* setTransportSecurity, and lives as long as somebody refers to it: a     *)
(* request that got it from getNode keeps it across its awaits, so every   *)
(* object ever created may still be failed or relieved by a request.       *)
(* `_nodes' and `_healthyNodes' are sets here: the code shuffles them and  *)
(* picks from them at random, and neither holds an object twice.           *)
(***************************************************************************)
EXTENDS Integers, FiniteSets, Functions

CONSTANTS
    Obj,              \* node objects that can ever be created (a bound)
    Account,          \* node account IDs, the keys of `_network'
    Host,             \* host names of node addresses
    Port,             \* ports of node addresses
    NetworkMaps,      \* the maps setNetwork is called with
    Epoch,            \* Date.now() when the client is created
    MaxTime,          \* the horizon: time stops, and no backoff ends, after it
    DefaultMinBackoff, DefaultMaxBackoff,  \* 8000 and 3600000 ms in the code
    MinBackoffs,      \* values passed to setNodeMinBackoff
    MaxBackoffs,      \* values passed to setNodeMaxBackoff
    ReadmitPeriods,   \* values passed to setNode{Min,Max}ReadmitPeriod
    Securities,       \* values passed to setTransportSecurity
    MaxNodesPerTransaction   \* setMaxNodesPerTransaction (-1 in the code)

PlainPort == 50211
SecurePort == 50212

Address == Host \X Port

\* The network maps are objects keyed by address: partial functions.
NetworkMapAssumption ==
    \A net \in NetworkMaps : /\ DOMAIN net \subseteq Address
                             /\ \A a \in DOMAIN net : net[a] \in Account

\* Date.now() counts milliseconds since 1970 and so exceeds every period a
\* caller would configure.
TimeAssumption ==
    /\ Epoch \in Nat /\ MaxTime \in Nat /\ Epoch + DefaultMinBackoff <= MaxTime
    /\ DefaultMinBackoff \in Nat \ {0} /\ DefaultMaxBackoff \in Nat
    /\ DefaultMinBackoff <= DefaultMaxBackoff
    /\ DefaultMaxBackoff < Epoch
    /\ \A p \in ReadmitPeriods : p \in Nat /\ p < Epoch

\* Callers configure minima that are at most the maxima.
BackoffAssumption ==
    /\ MinBackoffs \subseteq Nat \ {0} /\ MaxBackoffs \subseteq Nat \ {0}
    /\ \A b \in MinBackoffs \cup {DefaultMinBackoff} :
       \A c \in MaxBackoffs \cup {DefaultMaxBackoff} : b <= c

PortAssumption == {PlainPort, SecurePort} \subseteq Port

SecurityAssumption == Securities \subseteq BOOLEAN

ASSUME NetworkMapAssumption
ASSUME TimeAssumption
ASSUME BackoffAssumption
ASSUME PortAssumption
ASSUME SecurityAssumption

VARIABLES
    now,               \* Date.now()
    node,              \* the created node objects, with their fields
    nodes,             \* `_nodes'
    healthyNodes,      \* `_healthyNodes'
    network,           \* `_network': {} stands for an absent key
    earliestReadmitTime, nodeMinReadmitPeriod, nodeMaxReadmitPeriod,
    minBackoff, maxBackoff,
    transportSecurity,
    isShutdown,        \* Client._isShutdown
    setNetworkThrew    \* history: a setNetwork has thrown half way

listVars == <<nodes, healthyNodes, network>>
settingVars == <<nodeMinReadmitPeriod, nodeMaxReadmitPeriod, minBackoff,
                 maxBackoff, transportSecurity>>
stateVars == <<isShutdown, setNetworkThrew>>
netVars == <<now, node, listVars, earliestReadmitTime, settingVars, stateVars>>

Lesser(a, b) == IF a <= b THEN a ELSE b
Greater(a, b) == IF a >= b THEN a ELSE b

\* Number.MAX_SAFE_INTEGER: later than any time of the model.
MaxSafeInteger == MaxTime + 1

NodeFields ==
    [account : Account, address : Address, readmitTime : Nat,
     currentBackoff : Nat, minBackoff : Nat, maxBackoff : Nat,
     channel : BOOLEAN]

-----------------------------------------------------------------------------
(* One node object *)

IsHealthy(n) == n.readmitTime <= now

IncreasedBackoff(n) == Lesser(n.currentBackoff * 2, n.maxBackoff)

BackedOff(n) ==
    [n EXCEPT !.currentBackoff = IncreasedBackoff(n),
              !.readmitTime = now + IncreasedBackoff(n)]

\* Halving: a time unit is fine enough for half a backoff to be whole.
Relieved(n) ==
    [n EXCEPT !.currentBackoff = Greater(n.currentBackoff \div 2, n.minBackoff)]

WithMinBackoff(n, b) ==
    [n EXCEPT !.currentBackoff = IF n.currentBackoff <= b THEN b ELSE @,
              !.minBackoff = b]

WithMaxBackoff(n, b) ==
    [n EXCEPT !.currentBackoff = IF n.currentBackoff <= b THEN b ELSE @,
              !.maxBackoff = b]

\* Mutant: close() leaves the channel.
Closed_NoOp(n) == n

Closed(n) == [n EXCEPT !.channel = FALSE]

\* `new Node({newNode})' followed by setMinBackoff(network._minBackoff).
NewNode(acct, addr) ==
    WithMinBackoff(
        [account |-> acct, address |-> addr, readmitTime |-> now,
         currentBackoff |-> DefaultMinBackoff, minBackoff |-> DefaultMinBackoff,
         maxBackoff |-> DefaultMaxBackoff, channel |-> FALSE],
        minBackoff)

\* ManagedNodeAddress.toSecure() and toInsecure(): other ports are left alone.
Secured(addr) ==
    IF addr[2] = PlainPort THEN <<addr[1], SecurePort>> ELSE addr
Insecured(addr) ==
    IF addr[2] = SecurePort THEN <<addr[1], PlainPort>> ELSE addr

\* `new Node({cloneNode})': the maximum is copied from the minimum.
CloneNode(n, secure) ==
    [n EXCEPT !.address = IF secure THEN Secured(@) ELSE Insecured(@),
              !.maxBackoff = n.minBackoff]

-----------------------------------------------------------------------------
(* The lists *)

\* _readmitNodes: the objects the healthy list holds once it has run.
ReadmittedNodes ==
    IF earliestReadmitTime <= now
    THEN healthyNodes \cup {o \in nodes : IsHealthy(node[o])}
    ELSE healthyNodes

\* The smallest pending readmit time the scan happens to see: it stops
\* looking at the first object that is not listed, in a shuffled order.
NextEarliestReadmitTimes ==
    {MaxSafeInteger} \cup
    {node[o].readmitTime : o \in {x \in nodes : ~ IsHealthy(node[x])}}

\* Mutant: the next scan is not capped by nodeMaxReadmitPeriod.
ReadmitNodes_Uncapped ==
    /\ healthyNodes' = ReadmittedNodes
    /\ IF earliestReadmitTime <= now
       THEN \E next \in NextEarliestReadmitTimes :
                earliestReadmitTime' = Greater(next, nodeMinReadmitPeriod)
       ELSE UNCHANGED earliestReadmitTime

ReadmitNodes ==
    /\ healthyNodes' = ReadmittedNodes
    /\ IF earliestReadmitTime <= now
       THEN \E next \in NextEarliestReadmitTimes :
                earliestReadmitTime' =
                    Lesser(Greater(next, nodeMinReadmitPeriod),
                           nodeMaxReadmitPeriod)
       ELSE UNCHANGED earliestReadmitTime

\* getNode(key): an object of the key's account, or of a random account of
\* the map when it has none. The map is read after _readmitNodes, which
\* leaves it alone.
NodesForKey(acct) ==
    IF network[acct] # {} THEN network[acct] ELSE UNION {network[a] : a \in Account}

\* getNode(): any object of the healthy list.
GetAnyNode(o) == ReadmitNodes /\ o \in healthyNodes'
GetNode(acct, o) == ReadmitNodes /\ o \in NodesForKey(acct)

\* getNode() throws "failed to find a healthy working node"; getNode(key)
\* reads the length of undefined when the map is empty.
GetAnyNodeThrows == ReadmitNodes /\ healthyNodes' = {}
GetNodeThrows(acct) == ReadmitNodes /\ NodesForKey(acct) = {}

GetChannel(o) == node' = [node EXCEPT ![o].channel = TRUE]

\* getNumberOfNodesForTransaction.
NumberOfNodesForTransaction ==
    IF MaxNodesPerTransaction > 0 THEN MaxNodesPerTransaction
    ELSE IF Cardinality(nodes) <= 9 THEN Cardinality(nodes)
    ELSE (Cardinality(nodes) + 2) \div 3

\* getNodeAccountIdsForExecute: the accounts of that many objects of the
\* healthy list, picked at random among those with an account not picked yet.
AccountsOf(S) == {node[o].account : o \in S}
GetNodeAccountIdsForExecute(S) ==
    /\ ReadmitNodes
    /\ S \subseteq AccountsOf(healthyNodes')
    /\ Cardinality(S) = Lesser(NumberOfNodesForTransaction,
                               Cardinality(AccountsOf(healthyNodes')))

\* Mutant: the failed node stays on the healthy list.
IncreaseBackoff_StaysListed(o) ==
    /\ now + IncreasedBackoff(node[o]) <= MaxTime
    /\ node' = [node EXCEPT ![o] = BackedOff(@)]
    /\ UNCHANGED healthyNodes

\* increaseBackoff(node) and decreaseBackoff(node) of the network; the first
\* has the bound of the model: a backoff ends within the horizon.
IncreaseBackoff(o) ==
    /\ now + IncreasedBackoff(node[o]) <= MaxTime
    /\ node' = [node EXCEPT ![o] = BackedOff(@)]
    /\ healthyNodes' = healthyNodes \ {o}

DecreaseBackoff(o) == node' = [node EXCEPT ![o] = Relieved(@)]

-----------------------------------------------------------------------------
(* setNetwork *)

\* Mutant: a node whose account has changed is kept.
NodesToRemove_ByAddress(net) == {o \in nodes : node[o].address \notin DOMAIN net}

\* _getNodesToRemove.
NodesToRemove(net) ==
    {o \in nodes : \/ node[o].address \notin DOMAIN net
                   \/ net[node[o].address] # node[o].account}

\* The entries that get a new object. The code tests for the account and for
\* the address apart, over all the objects that stay.
MissingAddresses(net) ==
    LET kept == nodes \ NodesToRemove(net)
    IN  {a \in DOMAIN net :
            ~ /\ net[a] \in AccountsOf(kept)
              /\ a \in {node[o].address : o \in kept}}

\* _removeNodeFromNetwork(o) reads the length of undefined if the map has no
\* entry for o's account. An object that is not in its account's entry must
\* therefore be removed before that entry is emptied; the order is random.
CanRemove(S) == \A o \in S : network[node[o].account] # {}
NoEntryLeft(o, removed) == network[node[o].account] \subseteq removed

Without(S) == [a \in Account |-> network[a] \ S]
CloseAll(S) == [o \in DOMAIN node |-> IF o \in S THEN Closed(node[o]) ELSE node[o]]

\* Mutant: the healthy list is not started anew.
HealthyOf_KeepsOld(S, objs) ==
    healthyNodes \cup {o \in S : objs[o].readmitTime <= now}

HealthyOf(S, objs) == {o \in S : objs[o].readmitTime <= now}

\* `_network' is rebuilt from the healthy objects alone.
Index(S, objs) == [a \in Account |-> {o \in S : objs[o].account = a}]

SetNetwork(net) ==
    LET removed == NodesToRemove(net)
        missing == MissingAddresses(net)
        created == [a \in missing |-> NewNode(net[a], a)]
    IN  /\ CanRemove(removed)
        /\ \E id \in Injection(missing, Obj \ DOMAIN node) :
              /\ node' = [o \in DOMAIN node \cup {id[a] : a \in missing} |->
                             IF o \in DOMAIN node THEN CloseAll(removed)[o]
                             ELSE created[CHOOSE a \in missing : id[a] = o]]
              /\ nodes' = (nodes \ removed) \cup {id[a] : a \in missing}
        /\ healthyNodes' = HealthyOf(nodes', node')
        /\ network' = Index(healthyNodes', node')
        /\ UNCHANGED <<now, earliestReadmitTime, settingVars, stateVars>>

\* setNetwork throws half way: some objects are closed and removed, the one
\* that makes it throw is closed, and nothing else happens.
SetNetworkThrows(net) ==
    \E removed \in SUBSET NodesToRemove(net) :
    \E culprit \in NodesToRemove(net) \ removed :
        /\ CanRemove(removed)
        /\ NoEntryLeft(culprit, removed)
        /\ node' = CloseAll(removed \cup {culprit})
        /\ nodes' = nodes \ removed
        /\ network' = Without(removed)
        /\ setNetworkThrew' = TRUE
        /\ UNCHANGED <<now, healthyNodes, earliestReadmitTime, settingVars,
                       isShutdown>>

-----------------------------------------------------------------------------
(* The other operations of the client on its network *)

SetTransportSecurity(secure) ==
    /\ transportSecurity # secure
    /\ \E id \in Injection(nodes, Obj \ DOMAIN node) :
          LET clones == {id[o] : o \in nodes}
          IN  /\ node' = [c \in DOMAIN node \cup clones |->
                             IF c \in DOMAIN node THEN CloseAll(nodes)[c]
                             ELSE CloneNode(CloseAll(nodes)
                                              [CHOOSE o \in nodes : id[o] = c],
                                            secure)]
              /\ nodes' = clones
    /\ network' = Index(nodes', node')
    /\ healthyNodes' = nodes'
    /\ transportSecurity' = secure
    /\ UNCHANGED <<now, earliestReadmitTime, nodeMinReadmitPeriod,
                   nodeMaxReadmitPeriod, minBackoff, maxBackoff, stateVars>>

SetMinBackoff(b) ==
    /\ minBackoff' = b
    /\ node' = [o \in DOMAIN node |->
                   IF o \in nodes THEN WithMinBackoff(node[o], b) ELSE node[o]]
    /\ UNCHANGED <<now, listVars, earliestReadmitTime, nodeMinReadmitPeriod,
                   nodeMaxReadmitPeriod, maxBackoff, transportSecurity, stateVars>>

SetMaxBackoff(b) ==
    /\ maxBackoff' = b
    /\ node' = [o \in DOMAIN node |->
                   IF o \in nodes THEN WithMaxBackoff(node[o], b) ELSE node[o]]
    /\ UNCHANGED <<now, listVars, earliestReadmitTime, nodeMinReadmitPeriod,
                   nodeMaxReadmitPeriod, minBackoff, transportSecurity, stateVars>>

\* The guard is the bound of the model: the scan it puts off still happens.
SetNodeMinReadmitPeriod(p) ==
    /\ now + p <= MaxTime
    /\ nodeMinReadmitPeriod' = p
    /\ earliestReadmitTime' = now + p
    /\ UNCHANGED <<now, node, listVars, nodeMaxReadmitPeriod, minBackoff,
                   maxBackoff, transportSecurity, stateVars>>

SetNodeMaxReadmitPeriod(p) ==
    /\ nodeMaxReadmitPeriod' = p
    /\ UNCHANGED <<now, node, listVars, earliestReadmitTime, nodeMinReadmitPeriod,
                   minBackoff, maxBackoff, transportSecurity, stateVars>>

\* Client.close(): the healthy list keeps what it holds.
Close ==
    /\ node' = CloseAll(nodes)
    /\ nodes' = {}
    /\ network' = [a \in Account |-> {}]
    /\ isShutdown' = TRUE
    /\ UNCHANGED <<now, healthyNodes, earliestReadmitTime, settingVars,
                   setNetworkThrew>>

Tick ==
    /\ now < MaxTime
    /\ now' = now + 1
    /\ UNCHANGED <<node, listVars, earliestReadmitTime, settingVars, stateVars>>

-----------------------------------------------------------------------------
(* A client whose network is used by requests that are not modelled here:  *)
(* any object handed out may still be failed or relieved later on.         *)

PickNode ==
    \E o \in DOMAIN node :
        /\ \/ GetAnyNode(o)
           \/ \E acct \in Account : GetNode(acct, o)
        /\ GetChannel(o)
        /\ UNCHANGED <<now, nodes, network, settingVars, stateVars>>

ListNodes ==
    /\ \E S \in SUBSET Account : GetNodeAccountIdsForExecute(S)
    /\ UNCHANGED <<now, node, nodes, network, settingVars, stateVars>>

FailNode ==
    \E o \in DOMAIN node :
        /\ IncreaseBackoff(o)
        /\ UNCHANGED <<now, nodes, network, earliestReadmitTime, settingVars,
                       stateVars>>

RelieveNode ==
    \E o \in DOMAIN node :
        /\ DecreaseBackoff(o)
        /\ UNCHANGED <<now, listVars, earliestReadmitTime, settingVars, stateVars>>

Reconfigure ==
    \/ \E net \in NetworkMaps : SetNetwork(net) \/ SetNetworkThrows(net)
    \/ \E secure \in Securities : SetTransportSecurity(secure)
    \/ \E b \in MinBackoffs : SetMinBackoff(b)
    \/ \E b \in MaxBackoffs : SetMaxBackoff(b)
    \/ \E p \in ReadmitPeriods : SetNodeMinReadmitPeriod(p)
                                 \/ SetNodeMaxReadmitPeriod(p)

\* The client before its first setNetwork.
Init ==
    /\ now = Epoch
    /\ node = [o \in {} |-> {}]
    /\ nodes = {} /\ healthyNodes = {} /\ network = [a \in Account |-> {}]
    /\ nodeMinReadmitPeriod = DefaultMinBackoff
    /\ nodeMaxReadmitPeriod = DefaultMaxBackoff
    /\ earliestReadmitTime = Epoch + DefaultMinBackoff
    /\ minBackoff = DefaultMinBackoff /\ maxBackoff = DefaultMaxBackoff
    /\ transportSecurity = FALSE
    /\ isShutdown = FALSE /\ setNetworkThrew = FALSE

Next == Tick \/ PickNode \/ ListNodes \/ FailNode \/ RelieveNode \/ Reconfigure \/ Close

Spec == Init /\ [][Next]_netVars

\* Timers run, and the application keeps making requests.
LiveSpec == Spec /\ WF_netVars(Tick) /\ WF_netVars(ListNodes)

-----------------------------------------------------------------------------
(* Properties *)

TypeOK ==
    /\ now \in Epoch..MaxTime
    /\ DOMAIN node \subseteq Obj
    /\ node \in [DOMAIN node -> NodeFields]
    /\ nodes \subseteq DOMAIN node /\ healthyNodes \subseteq DOMAIN node
    /\ network \in [Account -> SUBSET DOMAIN node]
    /\ earliestReadmitTime \in 0..MaxTime
    /\ nodeMinReadmitPeriod \in 0..Epoch /\ nodeMaxReadmitPeriod \in 0..Epoch
    /\ minBackoff \in Nat /\ maxBackoff \in Nat
    /\ transportSecurity \in BOOLEAN
    /\ isShutdown \in BOOLEAN /\ setNetworkThrew \in BOOLEAN

\* The two ways in which the lists and `_nodes' come apart.
ListsIntact == ~ isShutdown /\ ~ setNetworkThrew

\* Until the client is closed or a setNetwork throws, the healthy list and the
\* account map hold only objects of `_nodes', each under its own account: no
\* operation leaves a replaced or removed object where getNode would find it.
ListsHoldCurrentNodes ==
    ListsIntact =>
        /\ healthyNodes \subseteq nodes
        /\ \A a \in Account :
              network[a] \subseteq {o \in nodes : node[o].account = a}

\* Until then an object with an open channel is in `_nodes', where close()
\* will find it: replacing the network, switching transport security and the
\* retries of requests in flight leak no channel.
OpenChannelsAreReachable ==
    ListsIntact => \A o \in DOMAIN node : node[o].channel => o \in nodes

\* A successful setNetwork leaves exactly the nodes its map names, although it
\* keeps objects, and tests accounts and addresses apart.
SetNetworkInstallsMap ==
    [][\A net \in NetworkMaps :
          SetNetwork(net) =>
              {<<node'[o].address, node'[o].account>> : o \in nodes'} =
              {<<a, net[a]>> : a \in DOMAIN net}]_netVars

\* No object that is backing off gets into the healthy list, except a clone
\* that setTransportSecurity has just made of it.
OnlyClonesListedUnhealthy ==
    [][\A o \in healthyNodes' :
          node'[o].readmitTime > now' =>
              \/ o \notin DOMAIN node
              \/ o \in healthyNodes /\ node[o].readmitTime > now]_netVars

\* An object that has been taken off the healthy list is offered again, or
\* leaves the network, if time passes and requests keep coming.
EveryNodeIsReadmitted ==
    \A o \in Obj : (o \in nodes) ~> (o \in healthyNodes \/ o \notin nodes)
=============================================================================
