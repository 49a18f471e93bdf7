------------------------- MODULE TransferTransaction --------------------------
(***************************************************************************)
(* TransferTransaction and TokenAirdropTransaction, up to the body that is *)
(* sent: transfers of hbar, tokens and NFTs are collected in three lists,  *)
(* each account, token and NFT once, and the body groups those of tokens   *)
(* by token. Bytes of a transaction that is not frozen yet can be read     *)
(* again, changed and frozen elsewhere.                                    *)
(*                                                                         *)
(* Accounts and tokens are numbers, which is how compare() orders IDs of   *)
(* one kind. AccountId.compare is no order when numbers, aliases and EVM   *)
(* addresses meet, but never 0 for different ones; no property depends on  *)
(* more. Amounts are far from the width of a Long, as the total supply of  *)
(* every token is.                                                         *)
(***************************************************************************)
EXTENDS Integers, FiniteSets, SequencesExt

CONSTANTS
    Account, Token, Serial,
    Amounts,        \* amounts that are added at a time
    Approvals,      \* whether transfers by allowance are added
    Decimals,       \* expected decimals that are given
    Props,          \* what the constructor is called with
    AirdropProps,   \* the same of TokenAirdropTransaction, without hbar
    Null,           \* null
    MaxCalls        \* bound: calls of the application

VARIABLES
    airdrop,    \* a TokenAirdropTransaction
    hbars,      \* `_hbarTransfers'
    tokens,     \* `_tokenTransfers'
    nfts,       \* `_nftTransfers'
    frozen,
    body,       \* what the nodes get, once frozen
    calls,      \* calls that the application has made
    asked,      \* history: what it has asked for
    torn        \* history: a call has failed half-way, or the constructor has
                \* left out what it was given

lists == <<hbars, tokens, nfts>>
transferVars == <<airdrop, lists, frozen, body, calls, asked, torn>>

Hbar == [account : Account, amount : Int, approved : BOOLEAN]
TokenTransfer == [token : Token, account : Account, amount : Int,
                  approved : BOOLEAN, decimals : Decimals \cup {Null}]
Nft == [token : Token, serial : Serial, sender : Account, receiver : Account,
        approved : BOOLEAN]

TransferAssumption ==
    /\ Account \cup Token \cup Serial \cup Decimals \subseteq Nat
    /\ Amounts \subseteq Int \ {0} /\ Approvals \subseteq BOOLEAN
    /\ \A p \in Props \cup AirdropProps :
          /\ p.hbars \in Seq(Hbar) /\ p.tokens \in Seq(TokenTransfer)
          /\ p.nfts \in Seq(Nft)
    /\ \A p \in AirdropProps : p.hbars = <<>>
    /\ Null \notin Nat /\ MaxCalls \in Nat
ASSUME TransferAssumption

-----------------------------------------------------------------------------
(* Adding to the lists *)

\* The first transfer of an account decides whether it is by allowance.
WithHbar(s, h) ==
    LET i == SelectInSeq(s, LAMBDA e : e.account = h.account)
    IN  IF i = 0 THEN Append(s, h) ELSE [s EXCEPT ![i].amount = @ + h.amount]

WithToken(s, t) ==
    LET i == SelectInSeq(s, LAMBDA e : e.token = t.token /\ e.account = t.account)
    IN  IF i = 0 THEN Append(s, t)
        ELSE [s EXCEPT ![i].amount = @ + t.amount, ![i].decimals = t.decimals]

\* The NFT goes to the accounts that are given last.
WithNft(s, n) ==
    LET i == SelectInSeq(s, LAMBDA e : e.token = n.token /\ e.serial = n.serial)
    IN  IF i = 0 THEN Append(s, n)
        ELSE [s EXCEPT ![i].sender = n.sender, ![i].receiver = n.receiver]

\* The first transfer of the token that expects other decimals, 0 if none does.
Mismatch(s, t) ==
    SelectInSeq(s, LAMBDA e : /\ e.token = t.token
                              /\ e.decimals \notin {Null, t.decimals})

\* The decimals are set in all transfers of the token, and the amount is added
\* to the account's, until there is a mismatch.
Updated(s, t) ==
    [i \in DOMAIN s |->
        IF s[i].token # t.token \/ Mismatch(s, t) \in 1..i THEN s[i]
        ELSE [s[i] EXCEPT !.decimals = t.decimals,
                          !.amount = IF s[i].account = t.account THEN @ + t.amount
                                     ELSE @]]

-----------------------------------------------------------------------------
(* The body *)

\* For every two different keys, which are of the same length, one is less.
Less(a, b) ==
    \E k \in DOMAIN a : a[k] < b[k] /\ \A l \in 1..(k - 1) : a[l] = b[l]

\* Array.sort is stable. An element goes where its rank is.
Sorted(s, keys) ==
    LET Before(i, j) == Less(keys[i], keys[j]) \/ (keys[i] = keys[j] /\ i < j)
        rank == [i \in DOMAIN s |-> Cardinality({j \in DOMAIN s : Before(j, i)}) + 1]
    IN  [k \in DOMAIN s |-> s[CHOOSE i \in DOMAIN s : rank[i] = k]]

TokenKey(t) == <<t.token, t.account>>

HbarKeys(s) == [i \in DOMAIN s |-> <<s[i].account>>]
TokenKeys(s) == [i \in DOMAIN s |-> TokenKey(s[i])]

\* Not the token.
NftKeys(s) == [i \in DOMAIN s |-> <<s[i].sender, s[i].receiver, s[i].serial>>]

SortedOf(l) ==
    [hbars |-> Sorted(l.hbars, HbarKeys(l.hbars)),
     tokens |-> Sorted(l.tokens, TokenKeys(l.tokens)),
     nfts |-> Sorted(l.nfts, NftKeys(l.nfts))]

\* The lists, and what sorting leaves.
Current == [hbars |-> hbars, tokens |-> tokens, nfts |-> nfts]
SortedLists == SortedOf(Current)

\* The group that transfers of the token are added to, 0 if none: while both
\* lists go on, only the last group is looked at.
Group(groups, token, both) ==
    IF both
    THEN IF groups # <<>> /\ Last(groups).token = token THEN Len(groups) ELSE 0
    ELSE SelectLastInSeq(groups, LAMBDA g : g.token = token)

\* Mutant: the transfer takes the place of those that are there.
WithTransfer_Replaced(m, g, t) ==
    [m EXCEPT !.i = @ + 1, !.groups[g].transfers = <<t>>]

WithTransfer(m, g, t) ==
    [m EXCEPT !.i = @ + 1, !.groups[g].transfers = Append(@, t)]

WithNftTransfer(m, g, n) ==
    [m EXCEPT !.j = @ + 1, !.groups[g].nfts = Append(@, n)]

\* A group of its own for the lesser token, or for both if they are the same.
NewGroup(ts, ns, m) ==
    LET t == m.i <= Len(ts) /\ (m.j <= Len(ns) => ts[m.i].token <= ns[m.j].token)
        n == m.j <= Len(ns) /\ (m.i <= Len(ts) => ns[m.j].token <= ts[m.i].token)
    IN  [i |-> IF t THEN m.i + 1 ELSE m.i, j |-> IF n THEN m.j + 1 ELSE m.j,
         groups |-> Append(m.groups,
             [token |-> IF t THEN ts[m.i].token ELSE ns[m.j].token,
              decimals |-> IF t THEN ts[m.i].decimals ELSE Null,
              transfers |-> IF t THEN <<ts[m.i]>> ELSE <<>>,
              nfts |-> IF n THEN <<ns[m.j]>> ELSE <<>>])]

\* Each step adds the next transfer or the next NFT to a group there is, or
\* starts a group.
MergeStep(ts, ns, m) ==
    LET t == m.i <= Len(ts)
        n == m.j <= Len(ns)
        gt == IF t THEN Group(m.groups, ts[m.i].token, n) ELSE 0
        gn == IF n THEN Group(m.groups, ns[m.j].token, t) ELSE 0
    IN  IF ~ t /\ ~ n THEN m
        ELSE IF gt # 0 THEN WithTransfer(m, gt, ts[m.i])
        ELSE IF gn # 0 THEN WithNftTransfer(m, gn, ns[m.j])
        ELSE NewGroup(ts, ns, m)

\* The two sorted lists are merged.
Merged(ts, ns) ==
    FoldLeft(LAMBDA m, k : MergeStep(ts, ns, m), [i |-> 1, j |-> 1, groups |-> <<>>],
             ts \o ns).groups

\* Decimals are those of the group, not of each transfer.
Encoded(g) ==
    [g EXCEPT !.transfers = [k \in DOMAIN @ |-> [@[k] EXCEPT !.decimals = Null]]]

\* `_makeTransactionData' sorts the lists, and makes this of them.
DataOf(l) ==
    LET groups == Merged(l.tokens, l.nfts)
    IN  [hbars |-> l.hbars, groups |-> [k \in DOMAIN groups |-> Encoded(groups[k])]]

\* Mutant: whether a transfer is by allowance is not read.
Read_NotApproved(g) ==
    [k \in DOMAIN g.transfers |->
        [g.transfers[k] EXCEPT !.approved = FALSE,
                               !.decimals = IF g.decimals = 0 THEN Null ELSE g.decimals]]

\* All transfers of a group get its decimals; 0 is read as none.
Read(g) ==
    [k \in DOMAIN g.transfers |->
        [g.transfers[k] EXCEPT !.decimals = IF g.decimals = 0 THEN Null ELSE g.decimals]]

Decoded(data) ==
    LET groups == data.groups
    IN  [hbars |-> data.hbars,
         tokens |-> FlattenSeq([k \in DOMAIN groups |-> Read(groups[k])]),
         nfts |-> FlattenSeq([k \in DOMAIN groups |-> groups[k].nfts])]

-----------------------------------------------------------------------------
(* What the application does *)

\* What transfers amount to: sums, and the parties of an NFT.
Total(amounts) == FoldLeft(LAMBDA sum, amount : sum + amount, 0, amounts)

HbarTotal(s, a) == Total([i \in DOMAIN s |-> IF s[i].account = a THEN s[i].amount ELSE 0])

TokenTotal(s, key) ==
    Total([i \in DOMAIN s |-> IF TokenKey(s[i]) = key THEN s[i].amount ELSE 0])

Parties(s, token, serial) ==
    LET i == SelectLastInSeq(s, LAMBDA e : e.token = token /\ e.serial = serial)
    IN  IF i = 0 THEN Null ELSE <<s[i].sender, s[i].receiver>>

Outcome(l) ==
    [hbars |-> [a \in Account |-> HbarTotal(l.hbars, a)],
     tokens |-> [x \in Token \X Account |-> TokenTotal(l.tokens, x)],
     nfts |-> [x \in Token \X Serial |-> Parties(l.nfts, x[1], x[2])]]

Lists(l) == hbars' = l.hbars /\ tokens' = l.tokens /\ nfts' = l.nfts

\* What asks for a transfer is refused once the transaction is frozen.
Add == ~ frozen /\ UNCHANGED <<airdrop, frozen, body>>

AddHbarTransfer(h) ==
    /\ Add /\ ~ airdrop
    /\ hbars' = WithHbar(hbars, h)
    /\ asked' = [asked EXCEPT !.hbars[h.account] = @ + h.amount]
    /\ UNCHANGED <<tokens, nfts, torn>>

\* Only an airdrop takes decimals together with an allowance.
AddTokenTransfer(t) ==
    /\ Add
    /\ t.decimals = Null \/ (airdrop /\ t.approved)
    /\ tokens' = WithToken(tokens, t)
    /\ asked' = [asked EXCEPT !.tokens[<<t.token, t.account>>] = @ + t.amount]
    /\ UNCHANGED <<hbars, nfts, torn>>

\* It throws at a mismatch, and leaves what it has changed by then.
AddTokenTransferWithDecimals(t) ==
    LET found == \E i \in DOMAIN tokens :
                     tokens[i].token = t.token /\ tokens[i].account = t.account
        throws == Mismatch(tokens, t) # 0
        updated == Updated(tokens, t)
    IN  /\ Add
        /\ t.decimals # Null /\ ~ t.approved
        /\ tokens' = IF throws \/ found THEN updated ELSE Append(updated, t)
        /\ asked' = IF throws THEN asked
                    ELSE [asked EXCEPT !.tokens[<<t.token, t.account>>] = @ + t.amount]
        /\ torn' = (torn \/ (throws /\ updated # tokens))
        /\ UNCHANGED <<hbars, nfts>>

AddNftTransfer(n) ==
    /\ Add
    /\ nfts' = WithNft(nfts, n)
    /\ asked' = [asked EXCEPT !.nfts[<<n.token, n.serial>>] = <<n.sender, n.receiver>>]
    /\ UNCHANGED <<hbars, tokens, torn>>

\* The three setters of approvals, which do not look whether it is frozen.
SetApproval(approved) ==
    LET Set(s, i) == [s EXCEPT ![i].approved = approved]
    IN  /\ ~ airdrop
        /\ \/ \E i \in DOMAIN hbars : hbars' = Set(hbars, i) /\ UNCHANGED <<tokens, nfts>>
           \/ \E i \in DOMAIN tokens : tokens' = Set(tokens, i) /\ UNCHANGED <<hbars, nfts>>
           \/ \E i \in DOMAIN nfts : nfts' = Set(nfts, i) /\ UNCHANGED <<hbars, tokens>>
        /\ UNCHANGED <<airdrop, frozen, body, asked, torn>>

\* The bodies for all nodes are made.
Freeze ==
    /\ ~ frozen
    /\ Lists(SortedLists)
    /\ frozen' = TRUE /\ body' = DataOf(SortedLists)
    /\ UNCHANGED <<airdrop, asked, torn>>

\* toBytes, and fromBytes somewhere else. If it is not frozen the body is made
\* for the bytes; otherwise it is in them.
Reload ==
    /\ Lists(Decoded(IF frozen THEN body ELSE DataOf(SortedLists)))
    /\ UNCHANGED <<airdrop, frozen, body, asked, torn>>

-----------------------------------------------------------------------------

\* What is added at a time.
HbarsAdded == [account : Account, amount : Amounts, approved : Approvals]
TokensAdded == [token : Token, account : Account, amount : Amounts,
                approved : Approvals, decimals : Decimals \cup {Null}]
NftsAdded == {n \in [token : Token, serial : Serial, sender : Account,
                     receiver : Account, approved : Approvals] : n.sender # n.receiver}

\* TransferTransaction hands neither transfers of tokens nor of NFTs on to the
\* constructor it extends, TokenAirdropTransaction adds them itself.
TransferInit ==
    /\ airdrop \in BOOLEAN
    /\ \E p \in IF airdrop THEN AirdropProps ELSE Props :
          /\ hbars = FoldLeft(WithHbar, <<>>, p.hbars)
          /\ tokens = IF airdrop THEN FoldLeft(WithToken, <<>>, p.tokens) ELSE <<>>
          /\ nfts = IF airdrop THEN FoldLeft(WithNft, <<>>, p.nfts) ELSE <<>>
          /\ asked = Outcome(p)
          /\ torn = (~ airdrop /\ (p.tokens # <<>> \/ p.nfts # <<>>))
    /\ frozen = FALSE /\ body = Null /\ calls = 0

TransferNext ==
    /\ calls < MaxCalls /\ calls' = calls + 1
    /\ \/ \E h \in HbarsAdded : AddHbarTransfer(h)
       \/ \E t \in TokensAdded : AddTokenTransfer(t) \/ AddTokenTransferWithDecimals(t)
       \/ \E n \in NftsAdded : AddNftTransfer(n)
       \/ \E approved \in Approvals : SetApproval(approved)
       \/ Freeze \/ Reload

TransferSpec == TransferInit /\ [][TransferNext]_transferVars

-----------------------------------------------------------------------------
(* Properties *)

TransferTypeOK ==
    /\ airdrop \in BOOLEAN /\ frozen \in BOOLEAN /\ torn \in BOOLEAN
    /\ hbars \in Seq(Hbar) /\ tokens \in Seq(TokenTransfer) /\ nfts \in Seq(Nft)
    /\ calls \in 0..MaxCalls

\* No account, no token of an account and no NFT is in the lists twice, also
\* after the bytes were read: the network refuses repeated ones.
EachOnce(l) ==
    /\ \A i, j \in DOMAIN l.hbars : l.hbars[i].account = l.hbars[j].account => i = j
    /\ \A i, j \in DOMAIN l.tokens :
          TokenKey(l.tokens[i]) = TokenKey(l.tokens[j]) => i = j
    /\ \A i, j \in DOMAIN l.nfts :
          /\ l.nfts[i].token = l.nfts[j].token
          /\ l.nfts[i].serial = l.nfts[j].serial
          => i = j

\* The body that is sent, or would be if it were frozen now.
Data == IF frozen THEN body ELSE DataOf(SortedLists)

\* What is read from the bytes of these lists are the same transfers, by
\* allowance or not, in some order. The decimals are kept if they are not 0 and
\* all transfers of the token agree on them, none being of an NFT.
WithoutDecimals(s) == {[t EXCEPT !.decimals = Null] : t \in Range(s)}

DecodedIsSame ==
    LET read == Decoded(DataOf(SortedLists))
        Agreed(t) == /\ t.decimals # 0
                     /\ \A u \in Range(tokens) :
                           u.token = t.token => u.decimals = t.decimals
                     /\ \A n \in Range(nfts) : n.token # t.token
    IN  /\ Range(read.hbars) = Range(hbars) /\ Range(read.nfts) = Range(nfts)
        /\ WithoutDecimals(read.tokens) = WithoutDecimals(tokens)
        /\ \A t \in Range(tokens) : Agreed(t) => t \in Range(read.tokens)

\* The lists are well-formed, and so are those that their bytes are read as.
TransferInv ==
    /\ TransferTypeOK
    /\ EachOnce(Current) /\ EachOnce(Decoded(Data))
    /\ DecodedIsSame

\* However transfers are added, merged, sorted, grouped and read from bytes, the
\* body moves for every account exactly what the application has asked for in
\* total, each transfer in a group of its token.
BodyMovesWhatIsAsked ==
    /\ torn \/ Outcome(Decoded(Data)) = asked
    /\ \A g \in Range(Data.groups) :
          /\ g.transfers # <<>> \/ g.nfts # <<>>
          /\ \A t \in Range(g.transfers) \cup Range(g.nfts) : t.token = g.token
=============================================================================
