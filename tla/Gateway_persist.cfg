\* Persistent queue, a snapshot file that never fails, one restart.
SPECIFICATION FairSpec
CONSTANTS
    BindingIds <- MCBindingIds
    Binding <- MCBinding
    Nonces <- MCNonces
    Receipts <- PersistReceipts
    Grants <- CoreGrants
    NoReceipt = NoReceipt
    NONCE_RING_CAPACITY = 3
    RECEIPT_FRESHNESS_MS = 1
    ATTESTATION_FRESHNESS_MS = 0
    Persistent = TRUE
    DiskFaults = FALSE
    ReaderActive = TRUE
    MaxTime = 3
    MaxCrashes = 1
INVARIANTS
    DiskMirrorsMemory
PROPERTIES
    BusWriteSpendsApproval
    GateAdmitsOnlyNewest
    ImplementsLifecycle
    RequestAnswered
