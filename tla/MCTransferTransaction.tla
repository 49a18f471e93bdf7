------------------------ MODULE MCTransferTransaction ------------------------
(* Instances of TransferTransaction for TLC. *)
EXTENDS TransferTransaction

Nothing == [hbars |-> <<>>, tokens |-> <<>>, nfts |-> <<>>]
OneHbar == [account |-> 2, amount |-> 1, approved |-> FALSE]
OneToken == [token |-> 3, account |-> 2, amount |-> 1, approved |-> TRUE,
             decimals |-> 8]
NftOf(token, sender) ==
    [token |-> token, serial |-> 1, sender |-> sender, receiver |-> 3 - sender,
     approved |-> FALSE]

\* What is given twice is added twice, tokens are dropped.
HbarProps ==
    {Nothing, [Nothing EXCEPT !.hbars = <<OneHbar, OneHbar>>],
     [Nothing EXCEPT !.tokens = <<[OneToken EXCEPT !.approved = FALSE, !.decimals = Null]>>]}
TokenProps ==
    {[Nothing EXCEPT !.tokens = <<OneToken, OneToken>>, !.nfts = nfts1] :
        nfts1 \in {<<>>} \cup {<<NftOf(2, a), NftOf(1, b)>> : a, b \in Account}}
=============================================================================
