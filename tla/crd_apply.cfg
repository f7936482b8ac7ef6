SPECIFICATION FairSpec
CONSTANTS
    CrdFiles <- Files
    Converting = {"leaderworkersets"}
    CAs = {ca1, ca2}
    Limit <- Everything
    ConversionRemovable = FALSE
INVARIANTS
    TypeOK
    AppliedAsRequired
PROPERTIES
    BundleLostOnlyByRace
    BundleRecovers
    SpecsRepaired
