SPECIFICATION Spec
CONSTANTS
    AddressSpace <- MCAddressSpace
    Jobs <- MCJobs
    Starts <- MCStarts
INVARIANTS
    StorageIsApart ImageIsFaithful LinkedIsAccepted RefusesExactlyUnlinkable LoadedAsLinked
CHECK_DEADLOCK FALSE
