SPECIFICATION Spec
CONSTANTS
    Realms = {"gno.land/r/a", "gno.land/r/sys/params"}
    SysRealm = "gno.land/r/sys/params"
    Names = {"p:k", "chain_domain", "storage_fee_collector"}
    Colons = {"p:k"}
    Modules <- MCModules
    Submodules <- MCSubmodules
    Texts = {"s", "t"}
    Blobs <- MCBlobs
    Word = 2
    ParamSets <- MCParamSets
    AddressLen = 2
    ZeroAddress <- MCZero
    Keys = {1, 2, 3}
    FirstKeys = {"kv", "memory"}
    MaxSet = 2
INVARIANTS
    LastWriteIsRead
    FieldsFollowUpdates
    StoredIsFound
