SPECIFICATION Spec
CONSTANTS
    Projects = {"p1"}
    Freelancers = {"f1", "f2"}
    Proposals = {"b1", "b2"}
    ProjectOf <- ProjectOfProposal
    BidderOf <- BidderOfProposal
    Requests = {r1, r2}
INVARIANT OneContractPerProject
