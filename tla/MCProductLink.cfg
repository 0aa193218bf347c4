SPECIFICATION FairSpec
PROPERTY LinkReachable
