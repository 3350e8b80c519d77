\* Saves and loads of the snapshot may fail; receipts that fail every step of
\* the verification; no state ingest; a ring that holds the receipts of a
\* window and evicts once the window is over.
SPECIFICATION Spec
CONSTANTS
    BindingIds <- MCBindingIds
    Binding <- MCBinding
    Nonces <- MCNonces
    Receipts <- WindowedReceipts
    Grants <- OneGrant
    NoReceipt = NoReceipt
    NONCE_RING_CAPACITY = 3
    RECEIPT_FRESHNESS_MS = 1
    ATTESTATION_FRESHNESS_MS = 0
    Persistent = TRUE
    DiskFaults = TRUE
    ReaderActive = FALSE
    MaxTime = 3
    MaxCrashes = 1
INVARIANTS
    EnforcedOnlyGranted
    RingCoversWindow
PROPERTIES
    RepeatNeedsRestart
