---------------------------- MODULE ChannelCache -----------------------------
(***************************************************************************)
(* The channels of nodes (NodeChannel.js) and the gRPC clients they share. *)
(*                                                                         *)
(* A node makes its channel when a request first asks for it and drops it  *)
(* when it is closed. A channel takes its gRPC client at each call from a  *)
(* cache that all channels of the process share, by address, or makes it;  *)
(* an address with TLS is asked for its certificate first. A request holds *)
(* its channel across awaits, so that the node may be closed meanwhile.    *)
(***************************************************************************)
EXTENDS Naturals, FiniteSets

CONSTANTS
    Node,       \* places of the clients' networks, each filled by one node
    Address, Secure,    \* the addresses, and those with port 50212
    Channel,    \* identities of channels; bounds how many are made
    Grpc,       \* identities of gRPC clients; bounds how many are made
    Call,       \* calls that are under way together
    None

CacheAssumption ==
    /\ Secure \subseteq Address
    /\ None \notin Channel \cup Grpc
ASSUME CacheAssumption

VARIABLES
    address,    \* the address of each place; never changes
    channel,    \* `_channel' of each node
    client,     \* `_client' of the channels made so far
    home,       \* the address of the channels made so far
    cache,      \* `clientCache'
    open,       \* gRPC clients that are not closed
    made,       \* gRPC clients made so far
    call,       \* the calls under way
    raced,      \* history: a certificate arrived after another call's
    evicted,    \* history: close() deleted the client of other channels
    late        \* history: a call made a client for a channel already dropped

channelVars == <<address, channel, client, home>>
clientVars == <<cache, open, made>>
historyVars == <<raced, evicted, late>>
vars == <<channelVars, clientVars, call, historyVars>>

\* A call is held by a request, waits for a certificate, or for `awaits' to be
\* ready.
CallFields ==
    [at : {"held", "certificate", "ready"}, channel : Channel,
     awaits : Grpc \cup {None}]

Idle == Call \ DOMAIN call

Finish(k) == call' = [x \in DOMAIN call \ {k} |-> call[x]]

\* f with the value y for one more x.
With(f, x, y) == [z \in DOMAIN f \cup {x} |-> IF z = x THEN y ELSE f[z]]

Held(c) == \E n \in Node : channel[n] = c

-----------------------------------------------------------------------------

NewCall(c) == [at |-> "held", channel |-> c, awaits |-> None]

\* getChannel(), then the request is built, which takes a while.
GetChannel(n) ==
    /\ \/ /\ channel[n] # None
          /\ UNCHANGED channelVars
          /\ \E k \in Idle : call' = With(call, k, NewCall(channel[n]))
       \/ /\ channel[n] = None
          /\ \E c \in Channel \ DOMAIN client, k \in Idle :
                /\ channel' = [channel EXCEPT ![n] = c]
                /\ client' = With(client, c, None)
                /\ home' = With(home, c, address[n])
                /\ call' = With(call, k, NewCall(c))
          /\ UNCHANGED address
    /\ UNCHANGED <<clientVars, historyVars>>

\* `_client' of a channel is set, and the call goes on to waitForReady.
Await(k, g) ==
    /\ client' = [client EXCEPT ![call[k].channel] = g]
    /\ call' = [call EXCEPT ![k].at = "ready", ![k].awaits = g]

\* Mutant: the new client is not cached.
Make_NotCached(k) ==
    \E g \in Grpc \ made :
        /\ Await(k, g)
        /\ made' = made \cup {g} /\ open' = open \cup {g}
        /\ UNCHANGED <<address, channel, home, cache, historyVars>>

\* A new gRPC client, for the channel of the call and for the cache.
Make(k) ==
    \E g \in Grpc \ made :
        LET c == call[k].channel
        IN  /\ Await(k, g)
            /\ made' = made \cup {g} /\ open' = open \cup {g}
            /\ cache' = [cache EXCEPT ![home[c]] = g]
            /\ raced' = (raced \/ cache[home[c]] # None)
            /\ late' = (late \/ ~ Held(c))
            /\ UNCHANGED <<address, channel, home, evicted>>

\* The cache is looked up at each call: a channel follows it.
Cached(k) ==
    LET g == cache[home[call[k].channel]]
    IN  /\ g # None
        /\ Await(k, g)
        /\ UNCHANGED <<address, channel, home, clientVars, historyVars>>

AskForCertificate(k) ==
    /\ call' = [call EXCEPT ![k].at = "certificate"]
    /\ UNCHANGED <<channelVars, clientVars, historyVars>>

NeedsCertificate(c) == home[c] \in Secure

\* _initializeClient up to its await, if any.
Start(k) ==
    /\ call[k].at = "held"
    /\ \/ Cached(k)
       \/ /\ cache[home[call[k].channel]] = None
          /\ IF NeedsCertificate(call[k].channel)
             THEN AskForCertificate(k)
             ELSE Make(k)

\* The cache is not looked up again.
CertificateArrives(k) ==
    /\ call[k].at = "certificate"
    /\ Make(k)

CertificateFails(k) ==
    /\ call[k].at = "certificate"
    /\ Finish(k)
    /\ UNCHANGED <<channelVars, clientVars, historyVars>>

\* The request goes out by the client that the channel has by now.
Ready(k) ==
    /\ call[k].at = "ready" /\ call[k].awaits \in open
    /\ Finish(k)
    /\ UNCHANGED <<channelVars, clientVars, historyVars>>

\* The client is closed, or the deadline passes.
NotReady(k) ==
    /\ call[k].at = "ready"
    /\ Finish(k)
    /\ UNCHANGED <<channelVars, clientVars, historyVars>>

\* Mutant: the client stays in the cache.
Close_KeepsEntry(n) ==
    /\ channel[n] # None
    /\ channel' = [channel EXCEPT ![n] = None]
    /\ open' = open \ {client[channel[n]]}
    /\ UNCHANGED <<address, client, home, cache, made, call, historyVars>>

\* Mutant: the client is left to its keepalive timeout.
Close_LeavesOpen(n) ==
    /\ channel[n] # None
    /\ channel' = [channel EXCEPT ![n] = None]
    /\ cache' = [cache EXCEPT ![address[n]] = None]
    /\ UNCHANGED <<address, client, home, open, made, call, historyVars>>

\* The node is closed: its network is closed or loses it. The client may be
\* shared, and the entry in the cache may be another client's.
Close(n) ==
    /\ channel[n] # None
    /\ channel' = [channel EXCEPT ![n] = None]
    /\ LET own == client[channel[n]]
       IN  IF own = None
           THEN UNCHANGED <<cache, open, evicted>>
           ELSE /\ open' = open \ {own}
                /\ cache' = [cache EXCEPT ![address[n]] = None]
                /\ evicted' = (evicted \/ cache[address[n]] \notin {None, own})
    /\ UNCHANGED <<address, client, home, made, call, raced, late>>

Init ==
    /\ address \in [Node -> Address]
    /\ channel = [n \in Node |-> None]
    /\ client = [c \in {} |-> None] /\ home = [c \in {} |-> None]
    /\ cache = [a \in Address |-> None]
    /\ open = {} /\ made = {}
    /\ call = [k \in {} |-> None]
    /\ raced = FALSE /\ evicted = FALSE /\ late = FALSE

Next ==
    \/ \E n \in Node : GetChannel(n) \/ Close(n)
    \/ \E k \in DOMAIN call :
          \/ Start(k) \/ CertificateArrives(k) \/ CertificateFails(k)
          \/ Ready(k) \/ NotReady(k)

Spec == Init /\ [][Next]_vars

-----------------------------------------------------------------------------
(* Properties *)

TypeOK ==
    /\ address \in [Node -> Address]
    /\ DOMAIN client \subseteq Channel
    /\ client \in [DOMAIN client -> made \cup {None}]
    /\ home \in [DOMAIN client -> Address]
    /\ channel \in [Node -> DOMAIN client \cup {None}]
    /\ cache \in [Address -> made \cup {None}]
    /\ open \subseteq made /\ made \subseteq Grpc
    /\ DOMAIN call \subseteq Call /\ call \in [DOMAIN call -> CallFields]
    /\ \A k \in DOMAIN call :
          /\ call[k].channel \in DOMAIN client
          /\ call[k].at = "certificate" => home[call[k].channel] \in Secure
          /\ call[k].at = "ready" => call[k].awaits \in made
    /\ {raced, evicted, late} \subseteq BOOLEAN

\* The cache never offers a closed client, although any channel of an address
\* may close the client of all of them.
CachedClientsAreOpen ==
    \A a \in Address : cache[a] # None => cache[a] \in open

\* An address has one client, the cached one, unless two certificates were
\* awaited together or a channel deleted an entry that was not its own.
OneClientPerAddress ==
    raced \/ evicted \/ open \subseteq {cache[a] : a \in Address}

\* Cache, channels and clients fit together.
CacheInv == TypeOK /\ CachedClientsAreOpen /\ OneClientPerAddress

\* Every open client can still be closed: it is the client of a node's channel.
\* Only those two cases, and a call that outlives its node's close(), leave a
\* client that nobody closes.
OpenClientsHaveOwners ==
    \/ raced \/ evicted \/ late
    \/ \A g \in open : \E n \in Node :
          channel[n] # None /\ client[channel[n]] = g

\* The client that became ready is the one that the request goes out by, and
\* is open, although the channel may take another client between the two.
RequestsLeaveByOpenClients ==
    [][\A k \in DOMAIN call :
          Ready(k) => \/ client[call[k].channel] \in open
                      \/ raced \/ evicted]_vars
=============================================================================
