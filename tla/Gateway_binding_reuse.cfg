\* A binding and its grant presented again after Phase 2.
SPECIFICATION Spec
CONSTANTS
    BindingIds <- MCBindingIds
    Binding <- MCBinding
    Nonces <- MCNonces
    Receipts <- CoreReceipts
    Grants <- CoreGrants
    NoReceipt = NoReceipt
    NONCE_RING_CAPACITY = 4
    RECEIPT_FRESHNESS_MS = 1
    ATTESTATION_FRESHNESS_MS = 0
    Persistent = TRUE
    DiskFaults = FALSE
    ReaderActive = TRUE
    MaxTime = 3
    MaxCrashes = 1
PROPERTIES
    BindingConsumedOnce
