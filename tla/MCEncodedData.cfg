SPECIFICATION DataSpec
CONSTANTS
    WordBits = 8
    LimbBits = 7
    Words = 4
    VBits = 16
    PubKeyOf <- MCPubKeyOf
    Bytes <- MCBytes
    MaxData = 2
    Sizes <- MCSizes
INVARIANTS
    ConversionsReadBack
    RecordsReadBack
    KeysAndAddressesRead
    TransactionsDecode
    CommandsAndRepliesWhole
