SPECIFICATION Spec
CONSTANTS
    Projects = {"p1"}
    Freelancers = {"f1", "f2"}
    Proposals = {"b1", "b2", "b3"}
    ProjectOf <- ProjectOfProposal
    BidderOf <- BidderOfProposal
    Requests = {r1, r2}
SYMMETRY RequestSymmetry
INVARIANTS
    TypeOK
    ContractsAreAccepted
    RejectedForAnother
    SecondContractNeedsOldRead
    OpenAfterHireNeedsOldRead
PROPERTIES ClosedBidsStayClosed FinishedMovesByOldReads
