CONSTANTS
    Nil = Nil
    Apps <- MCApps
    ConfiguredCIDRs <- MCConfiguredCIDRs
    HostNumbers <- MCHostNumbers
    SeverityWeights <- MCSeverityWeights
    Rolls <- MCRolls
SPECIFICATION Spec
INVARIANT
    ArgAttributesAgree
