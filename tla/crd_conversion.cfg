SPECIFICATION FairSpec
CONSTANTS
    CrdFiles <- Files
    Converting = {"leaderworkersets"}
    CAs = {ca1, ca2}
    Limit <- Nothing
    ConversionRemovable = TRUE
PROPERTIES
    ConversionManaged
