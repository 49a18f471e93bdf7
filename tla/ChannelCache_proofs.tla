-------------------------- MODULE ChannelCache_proofs -------------------------
(***************************************************************************)
(* Proofs about ChannelCache: the cache, the channels and the gRPC clients *)
(* they share fit together, whatever the order of calls, certificates and  *)
(* closed nodes.                                                           *)
(***************************************************************************)
EXTENDS ChannelCache, TLAPS

-----------------------------------------------------------------------------
(* The inductive invariant *)

\* The cache has a client under one address only, a channel has no client that
\* the cache holds for another address, and a node's channel is for its address.
OneHome ==
    \A a, b \in Address : cache[a] # None /\ cache[a] = cache[b] => a = b

ClientsAtHome ==
    \A c \in DOMAIN client, a \in Address :
        client[c] # None /\ cache[a] = client[c] => home[c] = a

ChannelsAtHome ==
    \A n \in Node : channel[n] # None => home[channel[n]] = address[n]

\* The client a call waits for stays its channel's while it is open: another
\* call would take the same one from the cache.
ReadyCallsFollow ==
    \/ raced \/ evicted
    \/ \A k \in DOMAIN call :
          call[k].at = "ready" /\ call[k].awaits \in open =>
              client[call[k].channel] = call[k].awaits

Homes == OneHome /\ ClientsAtHome /\ ChannelsAtHome

IInv ==
    /\ CacheInv
    /\ Homes
    /\ OpenClientsHaveOwners
    /\ ReadyCallsFollow

-----------------------------------------------------------------------------
(* Functions that are extended, and the client a call takes *)

LEMMA WithType ==
    ASSUME NEW f, NEW x, NEW S, f \in [DOMAIN f -> S], NEW y \in S
    PROVE  With(f, x, y) \in [DOMAIN f \cup {x} -> S]
BY DEF With

LEMMA NoneIsNobody ==
    /\ None \notin Grpc
    /\ TypeOK => None \notin open /\ None \notin made
    /\ TypeOK => None \notin DOMAIN client
BY CacheAssumption DEF CacheAssumption, TypeOK

LEMMA FlagsAreBoolean ==
    TypeOK => raced \in BOOLEAN /\ evicted \in BOOLEAN /\ late \in BOOLEAN
BY DEF TypeOK

\* A call is made on channel c.
LEMMA CallIsAdded ==
    ASSUME TypeOK, NEW k \in Idle, NEW c \in Channel,
           call' = With(call, k, NewCall(c))
    PROVE  /\ k \in Call
           /\ DOMAIN call' = DOMAIN call \cup {k}
           /\ call' \in [DOMAIN call' -> CallFields]
           /\ call'[k].at = "held" /\ call'[k].channel = c
           /\ \A x \in DOMAIN call : call'[x] = call[x]
<1>1. NewCall(c) \in CallFields
  BY DEF NewCall, CallFields
<1>2. call \in [DOMAIN call -> CallFields]
  BY DEF TypeOK
<1>3. With(call, k, NewCall(c)) \in [DOMAIN call \cup {k} -> CallFields]
  BY <1>1, <1>2, WithType
<1>4. /\ DOMAIN call' = DOMAIN call \cup {k}
      /\ call' \in [DOMAIN call' -> CallFields]
      /\ call'[k] = NewCall(c)
      /\ \A x \in DOMAIN call \ {k} : call'[x] = call[x]
  BY <1>3 DEF With
<1>5. QED
  BY <1>4 DEF Idle, NewCall

\* Node n makes channel c.
LEMMA ChannelIsAdded ==
    ASSUME TypeOK, NEW n \in Node, NEW c \in Channel \ DOMAIN client,
           client' = With(client, c, None),
           home' = With(home, c, address[n])
    PROVE  /\ DOMAIN client' = DOMAIN client \cup {c}
           /\ client' \in [DOMAIN client' -> made \cup {None}]
           /\ home' \in [DOMAIN client' -> Address]
           /\ client'[c] = None /\ home'[c] = address[n]
           /\ \A x \in DOMAIN client :
                 x # c /\ client'[x] = client[x] /\ home'[x] = home[x]
<1>1. /\ client \in [DOMAIN client -> made \cup {None}]
      /\ home \in [DOMAIN home -> Address] /\ DOMAIN home = DOMAIN client
      /\ address[n] \in Address
  BY DEF TypeOK
<1>2. With(client, c, None) \in [DOMAIN client \cup {c} -> made \cup {None}]
  BY <1>1, WithType
<1>3. With(home, c, address[n]) \in [DOMAIN home \cup {c} -> Address]
  BY <1>1, WithType
<1>4. /\ DOMAIN client' = DOMAIN client \cup {c}
      /\ client' \in [DOMAIN client' -> made \cup {None}]
      /\ client'[c] = None
      /\ \A x \in DOMAIN client \ {c} : client'[x] = client[x]
  BY <1>2 DEF With
<1>5. /\ home' \in [DOMAIN client' -> Address]
      /\ home'[c] = address[n]
      /\ \A x \in DOMAIN client \ {c} : home'[x] = home[x]
  BY <1>1, <1>3, <1>4 DEF With
<1>6. QED
  BY <1>4, <1>5

\* The channel of call k takes client g, and k waits for it.
LEMMA ClientIsTaken ==
    ASSUME TypeOK, NEW k \in DOMAIN call, NEW g \in Grpc, Await(k, g)
    PROVE  /\ DOMAIN client' = DOMAIN client
           /\ client' \in [DOMAIN client -> made \cup {g, None}]
           /\ client'[call[k].channel] = g
           /\ \A x \in DOMAIN client \ {call[k].channel} : client'[x] = client[x]
           /\ DOMAIN call' = DOMAIN call
           /\ call' \in [DOMAIN call -> CallFields]
           /\ \A x \in DOMAIN call : call'[x].channel = call[x].channel
           /\ call'[k].at = "ready" /\ call'[k].awaits = g
           /\ \A x \in DOMAIN call \ {k} : call'[x] = call[x]
<1>1. /\ call[k] \in CallFields /\ call[k].channel \in DOMAIN client
      /\ client \in [DOMAIN client -> made \cup {None}]
      /\ call \in [DOMAIN call -> CallFields]
  BY DEF TypeOK
<1>2. [call[k] EXCEPT !.at = "ready", !.awaits = g] \in CallFields
  BY <1>1 DEF CallFields
<1>3. call' = [call EXCEPT ![k] = [call[k] EXCEPT !.at = "ready", !.awaits = g]]
  BY <1>1 DEF Await
<1>4. /\ DOMAIN client' = DOMAIN client
      /\ client' \in [DOMAIN client -> made \cup {g, None}]
      /\ client'[call[k].channel] = g
      /\ \A x \in DOMAIN client \ {call[k].channel} : client'[x] = client[x]
  BY <1>1 DEF Await
<1>5. /\ DOMAIN call' = DOMAIN call
      /\ call' \in [DOMAIN call -> CallFields]
      /\ call'[k] = [call[k] EXCEPT !.at = "ready", !.awaits = g]
      /\ \A x \in DOMAIN call \ {k} : call'[x] = call[x]
  BY <1>1, <1>2, <1>3
<1>6. /\ call'[k].at = "ready" /\ call'[k].awaits = g
      /\ call'[k].channel = call[k].channel
  BY <1>1, <1>5 DEF CallFields
<1>7. QED
  BY <1>4, <1>5, <1>6

\* Call k is done with.
LEMMA CallIsRemoved ==
    ASSUME TypeOK, NEW k \in DOMAIN call, Finish(k)
    PROVE  /\ DOMAIN call' = DOMAIN call \ {k}
           /\ call' \in [DOMAIN call' -> CallFields]
           /\ \A x \in DOMAIN call' : call'[x] = call[x]
BY DEF TypeOK, Finish

\* The client of a channel that its address's entry lost is closed, unless two
\* calls raced for it.
LEMMA OpenClientIsCached ==
    ASSUME IInv, ~ raced, ~ evicted,
           NEW c \in DOMAIN client, client[c] \in open
    PROVE  cache[home[c]] = client[c]
BY NoneIsNobody
DEF IInv, CacheInv, OneClientPerAddress, Homes, ClientsAtHome

-----------------------------------------------------------------------------
(* Each action keeps the inductive invariant *)

LEMMA InitIInv == Init => IInv
BY DEF Init, IInv, CacheInv, TypeOK, CachedClientsAreOpen, OneClientPerAddress,
       Homes, OneHome, ClientsAtHome, ChannelsAtHome, OpenClientsHaveOwners,
       ReadyCallsFollow

\* The invariant says nothing of the calls but of those that are ready.
LEMMA CallsMove ==
    ASSUME IInv, UNCHANGED <<channelVars, clientVars, historyVars>>, TypeOK',
           \A x \in DOMAIN call' :
               call'[x].at = "ready" => x \in DOMAIN call /\ call'[x] = call[x]
    PROVE  IInv'
BY DEF IInv, CacheInv, CachedClientsAreOpen, OneClientPerAddress,
       Homes, OneHome, ClientsAtHome, ChannelsAtHome, OpenClientsHaveOwners,
       ReadyCallsFollow, channelVars, clientVars, historyVars

LEMMA GetChannelKeeps ==
    ASSUME IInv, NEW n \in Node, GetChannel(n)
    PROVE  IInv'
<1> USE DEF IInv, CacheInv
<1>1. CASE /\ channel[n] # None
           /\ UNCHANGED channelVars
           /\ \E k \in Idle : call' = With(call, k, NewCall(channel[n]))
  <2>1. PICK k \in Idle : call' = With(call, k, NewCall(channel[n]))
    BY <1>1
  <2>2. channel[n] \in DOMAIN client /\ channel[n] \in Channel
    BY <1>1 DEF TypeOK
  <2>3. /\ k \in Call
        /\ DOMAIN call' = DOMAIN call \cup {k}
        /\ call' \in [DOMAIN call' -> CallFields]
        /\ call'[k].at = "held" /\ call'[k].channel = channel[n]
        /\ \A x \in DOMAIN call : call'[x] = call[x]
    BY <2>1, <2>2, CallIsAdded
  <2>4. UNCHANGED <<channelVars, clientVars, historyVars>>
    BY <1>1 DEF GetChannel
  <2>5. TypeOK'
    BY <2>2, <2>3, <2>4 DEF TypeOK, channelVars, clientVars, historyVars
  <2>6. QED
    BY <2>3, <2>4, <2>5, CallsMove
<1>2. ASSUME NEW c \in Channel \ DOMAIN client, NEW k \in Idle,
             channel[n] = None,
             channel' = [channel EXCEPT ![n] = c],
             client' = With(client, c, None),
             home' = With(home, c, address[n]),
             call' = With(call, k, NewCall(c)),
             UNCHANGED <<address, clientVars, historyVars>>
      PROVE  IInv'
  <2>1. /\ k \in Call
        /\ DOMAIN call' = DOMAIN call \cup {k}
        /\ call' \in [DOMAIN call' -> CallFields]
        /\ call'[k].at = "held" /\ call'[k].channel = c
        /\ \A x \in DOMAIN call : call'[x] = call[x]
    BY <1>2, CallIsAdded
  <2>2. /\ DOMAIN client' = DOMAIN client \cup {c}
        /\ client' \in [DOMAIN client' -> made \cup {None}]
        /\ home' \in [DOMAIN client' -> Address]
        /\ client'[c] = None /\ home'[c] = address[n]
        /\ \A x \in DOMAIN client :
              x # c /\ client'[x] = client[x] /\ home'[x] = home[x]
    BY <1>2, ChannelIsAdded
  <2>3. /\ channel'[n] = c /\ \A m \in Node \ {n} : channel'[m] = channel[m]
        /\ channel' \in [Node -> DOMAIN client' \cup {None}]
    BY <1>2, <2>2 DEF TypeOK
  <2>4. UNCHANGED <<address, cache, open, made, raced, evicted, late>>
    BY <1>2 DEF clientVars, historyVars
  <2>5. \A x \in DOMAIN call :
            call[x].channel \in DOMAIN client /\ x # k
    BY DEF TypeOK, Idle
  <2>6. TypeOK'
    <3>1. \A x \in DOMAIN call' :
              /\ call'[x].channel \in DOMAIN client'
              /\ call'[x].at = "certificate" => home'[call'[x].channel] \in Secure
              /\ call'[x].at = "ready" => call'[x].awaits \in made
      BY <2>1, <2>2, <2>5 DEF TypeOK
    <3>2. DOMAIN client' \subseteq Channel /\ DOMAIN call' \subseteq Call
      BY <2>1, <2>2 DEF TypeOK
    <3>3. QED
      BY <2>1, <2>2, <2>3, <2>4, <3>1, <3>2 DEF TypeOK
  <2>7. CachedClientsAreOpen' /\ OneClientPerAddress' /\ OneHome'
    BY <2>4 DEF CachedClientsAreOpen, OneClientPerAddress, Homes, OneHome
  <2>8. ClientsAtHome'
    BY <2>2, <2>4 DEF Homes, ClientsAtHome
  <2>9. ChannelsAtHome'
    BY <2>2, <2>3, <2>4 DEF Homes, ChannelsAtHome, TypeOK
  <2>10. OpenClientsHaveOwners'
    BY <1>2, <2>2, <2>3, <2>4 DEF OpenClientsHaveOwners, TypeOK
  <2>11. ReadyCallsFollow'
    BY <2>1, <2>2, <2>4, <2>5 DEF ReadyCallsFollow
  <2>12. QED
    BY <2>6, <2>7, <2>8, <2>9, <2>10, <2>11 DEF Homes
<1>3. QED
  BY <1>1, <1>2 DEF GetChannel

\* A new client takes the address's entry; what it replaces there, and in the
\* channel, is why `raced' and `late' are kept.
LEMMA MakeKeeps ==
    ASSUME IInv, NEW k \in DOMAIN call, Make(k)
    PROVE  IInv'
<1> USE DEF IInv, CacheInv
<1> PICK g \in Grpc \ made :
        /\ Await(k, g)
        /\ made' = made \cup {g} /\ open' = open \cup {g}
        /\ cache' = [cache EXCEPT ![home[call[k].channel]] = g]
        /\ raced' = (raced \/ cache[home[call[k].channel]] # None)
        /\ late' = (late \/ ~ Held(call[k].channel))
        /\ UNCHANGED <<address, channel, home, evicted>>
  BY DEF Make
<1> PICK c \in DOMAIN client : c = call[k].channel
  BY DEF TypeOK
<1> PICK b \in Address : b = home[c]
  BY DEF TypeOK
<1>1. /\ DOMAIN client' = DOMAIN client
      /\ client' \in [DOMAIN client -> made \cup {g, None}]
      /\ client'[c] = g
      /\ \A x \in DOMAIN client \ {c} : client'[x] = client[x]
      /\ DOMAIN call' = DOMAIN call
      /\ call' \in [DOMAIN call -> CallFields]
      /\ \A x \in DOMAIN call : call'[x].channel = call[x].channel
      /\ call'[k].at = "ready" /\ call'[k].awaits = g
      /\ \A x \in DOMAIN call \ {k} : call'[x] = call[x]
  BY ClientIsTaken
<1>2. /\ cache' \in [Address -> made' \cup {None}]
      /\ cache'[b] = g
      /\ \A a \in Address \ {b} : cache'[a] = cache[a]
  BY DEF TypeOK
<1>3. /\ g # None /\ g \notin open
      /\ \A a \in Address : cache[a] # g
      /\ \A x \in DOMAIN client : client[x] # g
  BY NoneIsNobody DEF TypeOK
<1>4. ~ raced' => ~ raced /\ cache[b] = None
  BY FlagsAreBoolean
<1>5. ~ raced' /\ ~ evicted' => client[c] \notin open
  BY <1>4, NoneIsNobody, OpenClientIsCached
<1>6. TypeOK'
  <2>1. \A x \in DOMAIN call' :
            /\ call'[x].channel \in DOMAIN client'
            /\ call'[x].at = "certificate" => home'[call'[x].channel] \in Secure
            /\ call'[x].at = "ready" => call'[x].awaits \in made'
    BY <1>1 DEF TypeOK
  <2>2. {raced', evicted', late'} \subseteq BOOLEAN
    BY FlagsAreBoolean
  <2>3. client' \in [DOMAIN client' -> made' \cup {None}]
    BY <1>1
  <2>4. QED
    BY <1>1, <1>2, <2>1, <2>2, <2>3 DEF TypeOK
<1>7. CachedClientsAreOpen'
  BY <1>2 DEF CachedClientsAreOpen
<1>8. OneClientPerAddress'
  BY <1>2, <1>4, NoneIsNobody DEF OneClientPerAddress
<1>9. OneHome'
  BY <1>2, <1>3 DEF Homes, OneHome
<1>10. ClientsAtHome'
  BY <1>1, <1>2, <1>3 DEF Homes, ClientsAtHome
<1>11. ChannelsAtHome'
  BY DEF Homes, ChannelsAtHome
<1>12. OpenClientsHaveOwners'
  <2> SUFFICES ASSUME ~ raced', ~ evicted', ~ late', NEW h \in open'
               PROVE  \E n \in Node :
                          channel[n] # None /\ client'[channel[n]] = h
    BY DEF OpenClientsHaveOwners
  <2>1. CASE h = g
    BY <1>1, <2>1, NoneIsNobody DEF Held
  <2>2. CASE h \in open
    <3>1. PICK n \in Node : channel[n] # None /\ client[channel[n]] = h
      BY <1>4, <2>2 DEF OpenClientsHaveOwners
    <3>2. channel[n] \in DOMAIN client \ {c}
      BY <1>5, <2>2, <3>1 DEF TypeOK
    <3>3. QED
      BY <1>1, <3>1, <3>2
  <2>3. QED
    BY <2>1, <2>2
<1>13. ReadyCallsFollow'
  <2> SUFFICES ASSUME ~ raced', ~ evicted', NEW x \in DOMAIN call,
                      call'[x].at = "ready", call'[x].awaits \in open'
               PROVE  client'[call[x].channel] = call'[x].awaits
    BY <1>1 DEF ReadyCallsFollow
  <2>1. CASE x = k
    BY <1>1, <2>1
  <2>2. CASE x # k
    <3>1. call[x].at = "ready" /\ call[x].awaits \in open
      BY <1>1, <2>2 DEF TypeOK
    <3>2. client[call[x].channel] = call[x].awaits
      BY <1>4, <3>1 DEF ReadyCallsFollow
    <3>3. call[x].channel \in DOMAIN client \ {c}
      BY <1>5, <3>1, <3>2 DEF TypeOK
    <3>4. QED
      BY <1>1, <2>2, <3>2, <3>3
  <2>3. QED
    BY <2>1, <2>2
<1>14. QED
  BY <1>6, <1>7, <1>8, <1>9, <1>10, <1>11, <1>12, <1>13 DEF Homes

\* A channel that takes the cached client gives up none that is open.
LEMMA CachedKeeps ==
    ASSUME IInv, NEW k \in DOMAIN call, Cached(k)
    PROVE  IInv'
<1> USE DEF IInv, CacheInv
<1> PICK c \in DOMAIN client : c = call[k].channel
  BY DEF TypeOK
<1> PICK g \in open : g = cache[home[c]] /\ g # None
  BY DEF Cached, TypeOK, CachedClientsAreOpen
<1>1. g \in Grpc /\ g \in made /\ home[c] \in Address
  BY DEF TypeOK
<1>2. Await(k, g)
  BY DEF Cached
<1>3. UNCHANGED <<address, channel, home, cache, open, made,
                  raced, evicted, late>>
  BY DEF Cached, clientVars, historyVars
<1>4. /\ DOMAIN client' = DOMAIN client
      /\ client' \in [DOMAIN client -> made \cup {g, None}]
      /\ client'[c] = g
      /\ \A x \in DOMAIN client \ {c} : client'[x] = client[x]
      /\ DOMAIN call' = DOMAIN call
      /\ call' \in [DOMAIN call -> CallFields]
      /\ \A x \in DOMAIN call : call'[x].channel = call[x].channel
      /\ call'[k].at = "ready" /\ call'[k].awaits = g
      /\ \A x \in DOMAIN call \ {k} : call'[x] = call[x]
  BY <1>1, <1>2, ClientIsTaken
<1>5. ~ raced /\ ~ evicted /\ client[c] \in open => client[c] = g
  BY OpenClientIsCached
<1>6. TypeOK'
  <2>1. \A x \in DOMAIN call' :
            /\ call'[x].channel \in DOMAIN client'
            /\ call'[x].at = "certificate" => home'[call'[x].channel] \in Secure
            /\ call'[x].at = "ready" => call'[x].awaits \in made
    BY <1>1, <1>3, <1>4 DEF TypeOK
  <2>2. client' \in [DOMAIN client' -> made \cup {None}]
    BY <1>1, <1>4
  <2>3. QED
    BY <1>3, <1>4, <2>1, <2>2 DEF TypeOK
<1>7. CachedClientsAreOpen' /\ OneClientPerAddress' /\ OneHome' /\ ChannelsAtHome'
  BY <1>3 DEF CachedClientsAreOpen, OneClientPerAddress, Homes, OneHome,
              ChannelsAtHome
<1>8. ClientsAtHome'
  BY <1>1, <1>3, <1>4 DEF Homes, ClientsAtHome, OneHome
<1>9. OpenClientsHaveOwners'
  <2> SUFFICES ASSUME ~ raced, ~ evicted, ~ late, NEW h \in open
               PROVE  \E n \in Node :
                          channel[n] # None /\ client'[channel[n]] = h
    BY <1>3 DEF OpenClientsHaveOwners
  <2>1. PICK n \in Node : channel[n] # None /\ client[channel[n]] = h
    BY DEF OpenClientsHaveOwners
  <2>2. channel[n] \in DOMAIN client
    BY <2>1 DEF TypeOK
  <2>3. client'[channel[n]] = h
    BY <1>4, <1>5, <2>1, <2>2
  <2>4. QED
    BY <2>1, <2>3
<1>10. ReadyCallsFollow'
  <2> SUFFICES ASSUME ~ raced, ~ evicted, NEW x \in DOMAIN call,
                      call'[x].at = "ready", call'[x].awaits \in open
               PROVE  client'[call[x].channel] = call'[x].awaits
    BY <1>3, <1>4 DEF ReadyCallsFollow
  <2>1. CASE x = k
    BY <1>4, <2>1
  <2>2. CASE x # k
    <3>1. call[x].at = "ready" /\ call[x].awaits \in open
      BY <1>4, <2>2
    <3>2. client[call[x].channel] = call[x].awaits
      BY <3>1 DEF ReadyCallsFollow
    <3>3. call[x].channel \in DOMAIN client
      BY DEF TypeOK
    <3>4. client'[call[x].channel] = call[x].awaits
      BY <1>4, <1>5, <3>1, <3>2, <3>3
    <3>5. QED
      BY <1>4, <2>2, <3>4
  <2>3. QED
    BY <2>1, <2>2
<1>11. QED
  BY <1>6, <1>7, <1>8, <1>9, <1>10 DEF Homes

LEMMA AskForCertificateKeeps ==
    ASSUME IInv, NEW k \in DOMAIN call, AskForCertificate(k),
           NeedsCertificate(call[k].channel)
    PROVE  IInv'
<1>1. /\ call \in [DOMAIN call -> CallFields] /\ call[k] \in CallFields
      /\ TypeOK
  BY DEF IInv, CacheInv, TypeOK
<1>2. [call[k] EXCEPT !.at = "certificate"] \in CallFields
  BY <1>1 DEF CallFields
<1>3. /\ DOMAIN call' = DOMAIN call /\ call' \in [DOMAIN call -> CallFields]
      /\ call'[k] = [call[k] EXCEPT !.at = "certificate"]
      /\ \A x \in DOMAIN call \ {k} : call'[x] = call[x]
  BY <1>1, <1>2 DEF AskForCertificate
<1>4. call'[k].at = "certificate" /\ call'[k].channel = call[k].channel
  BY <1>1, <1>3 DEF CallFields
<1>5. UNCHANGED <<channelVars, clientVars, historyVars>>
  BY DEF AskForCertificate
<1>6. TypeOK'
  BY <1>1, <1>3, <1>4, <1>5
  DEF TypeOK, NeedsCertificate, channelVars, clientVars, historyVars
<1>7. QED
  BY <1>3, <1>4, <1>5, <1>6, CallsMove

LEMMA CallEndKeeps ==
    ASSUME IInv, NEW k \in DOMAIN call, Finish(k),
           UNCHANGED <<channelVars, clientVars, historyVars>>
    PROVE  IInv'
<1>1. /\ DOMAIN call' = DOMAIN call \ {k}
      /\ call' \in [DOMAIN call' -> CallFields]
      /\ \A x \in DOMAIN call' : call'[x] = call[x]
  BY CallIsRemoved DEF IInv, CacheInv
<1>2. TypeOK'
  BY <1>1 DEF IInv, CacheInv, TypeOK, channelVars, clientVars, historyVars
<1>3. QED
  BY <1>1, <1>2, CallsMove

\* A node closes the client that its channel has, and deletes its address's
\* entry: the same one, or `evicted' is kept.
LEMMA CloseKeeps ==
    ASSUME IInv, NEW n \in Node, Close(n)
    PROVE  IInv'
<1> USE DEF IInv, CacheInv
<1> PICK c \in DOMAIN client : c = channel[n]
  BY DEF Close, TypeOK
<1> PICK b \in Address : b = address[n]
  BY DEF TypeOK
<1>1. c # None /\ home[c] = b
  BY DEF Close, Homes, ChannelsAtHome
<1>2. /\ channel'[n] = None /\ \A m \in Node \ {n} : channel'[m] = channel[m]
      /\ channel' \in [Node -> DOMAIN client \cup {None}]
      /\ UNCHANGED <<address, client, home, made, call, raced, late>>
  BY DEF Close, TypeOK
<1>3. ChannelsAtHome'
  BY <1>2 DEF Homes, ChannelsAtHome
<1>4. CASE client[c] = None
  <2>1. UNCHANGED <<cache, open, evicted>>
    BY <1>4 DEF Close
  <2>2. TypeOK'
    BY <1>2, <2>1 DEF TypeOK
  <2>3. /\ CachedClientsAreOpen' /\ OneClientPerAddress' /\ OneHome'
        /\ ClientsAtHome' /\ ReadyCallsFollow'
    BY <1>2, <2>1
    DEF CachedClientsAreOpen, OneClientPerAddress, Homes, OneHome,
        ClientsAtHome, ReadyCallsFollow
  <2>4. OpenClientsHaveOwners'
    BY <1>2, <1>4, <2>1, NoneIsNobody DEF OpenClientsHaveOwners
  <2>5. QED
    BY <1>3, <2>2, <2>3, <2>4 DEF Homes
<1>5. CASE client[c] # None
  <2>1. /\ open' = open \ {client[c]}
        /\ cache' = [cache EXCEPT ![b] = None]
        /\ evicted' = (evicted \/ cache[b] \notin {None, client[c]})
    BY <1>5 DEF Close
  <2>2. /\ cache' \in [Address -> made \cup {None}] /\ cache'[b] = None
        /\ \A a \in Address \ {b} :
              cache'[a] = cache[a] /\ cache[a] # client[c]
    BY <1>1, <1>5, <2>1 DEF TypeOK, Homes, ClientsAtHome
  <2>3. ~ evicted' => ~ evicted /\ cache[b] \in {None, client[c]}
    BY <2>1, FlagsAreBoolean
  <2>4. TypeOK'
    BY <1>2, <2>1, <2>2, FlagsAreBoolean DEF TypeOK
  <2>5. CachedClientsAreOpen'
    BY <2>1, <2>2 DEF CachedClientsAreOpen
  <2>6. OneClientPerAddress'
    BY <1>2, <2>1, <2>2, <2>3, NoneIsNobody DEF OneClientPerAddress
  <2>7. OneHome' /\ ClientsAtHome'
    BY <1>2, <2>2 DEF Homes, OneHome, ClientsAtHome
  <2>8. OpenClientsHaveOwners'
    <3> SUFFICES ASSUME ~ raced, ~ evicted, ~ late, NEW h \in open'
                 PROVE  \E m \in Node :
                            channel'[m] # None /\ client[channel'[m]] = h
      BY <1>2, <2>3 DEF OpenClientsHaveOwners
    <3>1. PICK m \in Node : channel[m] # None /\ client[channel[m]] = h
      BY <2>1 DEF OpenClientsHaveOwners
    <3>2. m # n
      BY <2>1, <3>1
    <3>3. QED
      BY <1>2, <3>1, <3>2
  <2>9. ReadyCallsFollow'
    BY <1>2, <2>1, <2>3 DEF ReadyCallsFollow
  <2>10. QED
    BY <1>3, <2>4, <2>5, <2>6, <2>7, <2>8, <2>9 DEF Homes
<1>6. QED
  BY <1>4, <1>5

LEMMA StutterKeeps ==
    ASSUME IInv, UNCHANGED vars
    PROVE  IInv'
<1>1. TypeOK'
  BY DEF IInv, CacheInv, TypeOK, vars, channelVars, clientVars, historyVars
<1>2. QED
  BY <1>1, CallsMove DEF vars

LEMMA NextIInv == IInv /\ [Next]_vars => IInv'
<1> SUFFICES ASSUME IInv, [Next]_vars
             PROVE  IInv'
  OBVIOUS
<1>1. ASSUME NEW n \in Node, GetChannel(n) \/ Close(n)
      PROVE  IInv'
  BY <1>1, GetChannelKeeps, CloseKeeps
<1>2. ASSUME NEW k \in DOMAIN call, Start(k)
      PROVE  IInv'
  BY <1>2, CachedKeeps, AskForCertificateKeeps, MakeKeeps DEF Start
<1>3. ASSUME NEW k \in DOMAIN call, CertificateArrives(k)
      PROVE  IInv'
  BY <1>3, MakeKeeps DEF CertificateArrives
<1>4. ASSUME NEW k \in DOMAIN call,
             CertificateFails(k) \/ Ready(k) \/ NotReady(k)
      PROVE  IInv'
  BY <1>4, CallEndKeeps DEF CertificateFails, Ready, NotReady
<1>5. CASE UNCHANGED vars
  BY <1>5, StutterKeeps
<1>6. QED
  BY <1>1, <1>2, <1>3, <1>4, <1>5 DEF Next

-----------------------------------------------------------------------------
(* The results *)

\* The invariant holds in every state: NodeChannel.js keeps cache, channels and
\* clients together.
THEOREM Invariance == Spec => []IInv
<1>1. Init => IInv
  BY InitIInv
<1>2. IInv /\ [Next]_vars => IInv'
  BY NextIInv
<1>3. QED
  BY <1>1, <1>2, PTL DEF Spec

\* The cache never offers a closed client, and an address has no other client
\* than its cached one unless two certificates were awaited together or a
\* channel deleted another's entry.
THEOREM CacheCorrect == Spec => []CacheInv
<1>1. IInv => CacheInv
  BY DEF IInv
<1>2. QED
  BY <1>1, Invariance, PTL

\* Outside the races named by the history variables, closing the nodes closes
\* every client: none is left that no node's channel holds.
THEOREM ClientsAreClosable == Spec => []OpenClientsHaveOwners
<1>1. IInv => OpenClientsHaveOwners
  BY DEF IInv
<1>2. QED
  BY <1>1, Invariance, PTL

\* A request leaves by an open client, although waitForReady is awaited on one
\* client and the call is made with whichever client the channel has then.
THEOREM RequestsLeave == Spec => RequestsLeaveByOpenClients
<1>1. IInv /\ [Next]_vars =>
          [\A k \in DOMAIN call :
              Ready(k) => \/ client[call[k].channel] \in open
                          \/ raced \/ evicted]_vars
  BY DEF IInv, ReadyCallsFollow, Ready
<1>2. QED
  BY <1>1, Invariance, PTL DEF Spec, RequestsLeaveByOpenClients
=============================================================================
