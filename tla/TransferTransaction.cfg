SPECIFICATION TransferSpec
CONSTANTS
    Account = {1, 2}
    Token = {1, 2, 3}
    Serial = {1}
    Amounts = {1}
    Approvals = {FALSE, TRUE}
    Decimals = {0, 8}
    Props <- HbarProps
    AirdropProps <- TokenProps
    MaxCalls = 3
    Null = Null
INVARIANTS
    TransferInv
    BodyMovesWhatIsAsked
CHECK_DEADLOCK FALSE
