SPECIFICATION MonitorsSpec
CONSTANTS
    MaxHeight = 3
    MaxCrash = 1
    Proof = {p1, p2}
INVARIANT LagNotOverstated
PROPERTIES StallIsReported OutageShows EveryProofRecorded
