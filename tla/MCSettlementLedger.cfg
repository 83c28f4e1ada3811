\* A ledger whose payers may also be written with letters outside ASCII.
CONSTANTS
    Networks = {n1}
    Hashes = {h1}
    Accounts = {a1}
    Amounts = {1}
    Spellings = {"lower", "unicode_upper"}
    NoHash = NoHash
    NoRecord = NoRecord
    RequestedRecords = 1
    LeastRecords = 2
    MaxVolume = 1
SPECIFICATION LedgerSpec
INVARIANTS
    PayerRecordsRetained
