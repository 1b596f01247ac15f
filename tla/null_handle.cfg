SPECIFICATION FairSpec
CONSTANTS
    ThreadCounts = {1}
    MaxAddresses = 2
    MaxChunks = 0
PROPERTIES
    NullHandleLeadsToDeletion
