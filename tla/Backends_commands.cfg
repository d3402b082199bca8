CONSTANTS
    w1 = w1
    w2 = w2
    x1 = x1
    x2 = x2
    None = None
    Torn = Torn
    Names = {"wg0", "wg1"}
    WGParts = {w1, w2}
    NetParts = {x1, x2}
    Configs <- SomeConfigs
    Unparsable <- NoKey
    Kinds = {"wg-quick", "networkmanager", "windows"}
    MayFail <- Checked
SPECIFICATION Spec
INVARIANTS
    TypeOK
    EnabledFailsOnlyOnFault
    FreshInForce
    CleanRemove
PROPERTIES
    KeepsContract
