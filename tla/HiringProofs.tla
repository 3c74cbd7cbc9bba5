---------------------------- MODULE HiringProofs ----------------------------
(***************************************************************************)
(* Theorems about Hiring, for any projects, freelancers, proposals and     *)
(* requests.                                                               *)
(***************************************************************************)
EXTENDS Hiring, TLAPS

\* The id a submission has drawn is its own until it is inserted.
FreshIds ==
    \A r \in Requests : request[r].does = "submit" =>
        /\ proposal[request[r].proposal] = "none"
        /\ \A q \in Requests :
              request[q].does = "submit" /\ request[q].proposal = request[r].proposal => q = r

BidsInv ==
    /\ TypeOK
    /\ FreshIds
    /\ ContractsAreAccepted
    /\ RejectedForAnother

\* What a request saw allowed what it is about to write.
ReadsWereChecked ==
    \A r \in Requests :
        /\ request[r].does = "update" => CanTransitionTo(request[r].saw, request[r].status)
        /\ request[r].does = "submit" => request[r].saw = "accepting_proposals"
        /\ request[r].does = "accept" => CanTransitionTo(request[r].saw, "hired")

\* A project that has hired does not take bids again, but by an outdated read.
PastHiring == {"hired", "active", "disputed", "completed", "cancelled"}

ContractsPastHiring ==
    \A b \in Proposals :
        contract[b] # "none" /\ ProjectOf[b] \notin outdated => project[ProjectOf[b]] \in PastHiring

HiringInv ==
    /\ TypeOK
    /\ ReadsWereChecked
    /\ ContractsPastHiring
    /\ OpenAfterHireNeedsOldRead
    /\ SecondContractNeedsOldRead

-----------------------------------------------------------------------------
(* An acceptance is the whole of it or nothing.                            *)
LEMMA Acceptance ==
    ASSUME TypeOK, NEW r \in Requests, AcceptProposalTx(r)
    PROVE  \/ UNCHANGED rows
           \/ \E b \in Proposals :
                 /\ request[r].does = "accept" /\ request[r].proposal = b
                 /\ proposal[b] = "submitted"
                 /\ Hire(b)
  <1>1. request[r].proposal \in Proposals
    BY DEF AcceptProposalTx, TypeOK, Idle, Updating, Bidding, Accepting
  <1> QED
    BY <1>1 DEF AcceptProposalTx, Acceptable, IsOpen

(* What a starting request reads is left as it is.                         *)
LEMMA BeginsTypes ==
    ASSUME TypeOK, NEW r \in Requests, Begins(r)
    PROVE  TypeOK' /\ UNCHANGED <<rows, active, outdated>>
  <1> USE HiringAssumption DEF TypeOK, rows, Starts, Updating, Bidding, Accepting
  <1>1. ASSUME NEW p \in Projects, NEW next \in ProjectStatus, UpdateOwnProject(r, p, next)
        PROVE  TypeOK' /\ UNCHANGED <<rows, active, outdated>>
    BY <1>1 DEF UpdateOwnProject
  <1>2. ASSUME NEW p \in Projects, AdminCancelProject(r, p)
        PROVE  TypeOK' /\ UNCHANGED <<rows, active, outdated>>
    BY <1>2 DEF AdminCancelProject, ProjectStatus
  <1>3. ASSUME NEW b \in Proposals, SubmitProposal(r, b)
        PROVE  TypeOK' /\ UNCHANGED <<rows, active, outdated>>
    BY <1>3 DEF SubmitProposal
  <1>4. ASSUME NEW b \in Proposals, AcceptProposal(r, b)
        PROVE  TypeOK' /\ UNCHANGED <<rows, active, outdated>>
    BY <1>4 DEF AcceptProposal
  <1> QED
    BY <1>1, <1>2, <1>3, <1>4 DEF Begins

LEMMA WritesTypes ==
    ASSUME TypeOK, NEW r \in Requests, Writes(r)
    PROVE  TypeOK'
  <1> USE HiringAssumption
  <1>0. request[r] \in {Idle} \cup Updating \cup Bidding \cup Accepting
    BY DEF TypeOK
  <1>e. ASSUME Ends(r)
        PROVE  request' \in [Requests -> {Idle} \cup Updating \cup Bidding \cup Accepting]
    BY <1>e DEF Ends, TypeOK
  <1>n. ASSUME NEW p \in Projects, Notes(r, p) PROVE outdated' \subseteq Projects
    BY <1>n DEF Notes, TypeOK
  <1>1. CASE UpdateProject(r)
    <2>1. request[r].project \in Projects /\ request[r].status \in ProjectStatus
      BY <1>0, <1>1 DEF UpdateProject, Idle, Updating, Bidding, Accepting
    <2> QED
      BY <1>1, <1>e, <1>n, <2>1 DEF UpdateProject, TypeOK
  <1>2. CASE InsertProposal(r)
    <2>1. request[r].proposal \in Proposals
      BY <1>0, <1>2 DEF InsertProposal, Idle, Updating, Bidding, Accepting
    <2>2. proposal' \in [Proposals -> ProposalStatus]
      BY <1>2, <2>1 DEF InsertProposal, TypeOK, ProposalStatus
    <2>3. outdated' \subseteq Projects
      BY <1>2, <1>n, <2>1 DEF InsertProposal, TypeOK
    <2> QED
      BY <1>2, <1>e, <2>2, <2>3 DEF InsertProposal, TypeOK
  <1>3. CASE AcceptProposalTx(r)
    <2>1. CASE UNCHANGED rows
      BY <1>3, <1>e, <2>1 DEF AcceptProposalTx, TypeOK, rows
    <2>2. ASSUME NEW b \in Proposals, Hire(b)
          PROVE  TypeOK'
      BY <1>3, <1>e, <2>2
      DEF AcceptProposalTx, Hire, TypeOK, ProjectStatus, ProposalStatus, ContractStatus
    <2> QED
      BY <1>3, <2>1, <2>2, Acceptance
  <1>4. CASE RequestFails(r)
    BY <1>4, <1>e DEF RequestFails, TypeOK, rows
  <1> QED
    BY <1>1, <1>2, <1>3, <1>4 DEF Writes

LEMMA EscrowTypes ==
    ASSUME TypeOK, NEW b \in Proposals, EscrowMoves(b)
    PROVE  TypeOK' /\ UNCHANGED <<proposal, request, active, outdated>>
  <1> USE HiringAssumption DEF TypeOK, ContractMoves, ContractStatus, ProjectStatus
  <1>1. CASE FirstFunding(b)
    BY <1>1 DEF FirstFunding
  <1>2. CASE CompleteContract(b)
    BY <1>2 DEF CompleteContract
  <1>3. CASE OpenDispute(b)
    BY <1>3 DEF OpenDispute
  <1>4. CASE EndDispute(b)
    BY <1>4 DEF EndDispute
  <1>5. CASE EndDisputeAndContract(b)
    BY <1>5 DEF EndDisputeAndContract
  <1> QED
    BY <1>1, <1>2, <1>3, <1>4, <1>5 DEF EscrowMoves

(* The types, for all constants.                                           *)
THEOREM TypeCorrect == Spec => []TypeOK
  <1>1. Init => TypeOK
    BY DEF Init, TypeOK, ProposalStatus, ContractStatus
  <1>2. TypeOK /\ [Next]_vars => TypeOK'
    <2> SUFFICES ASSUME TypeOK, [Next]_vars PROVE TypeOK'
      OBVIOUS
    <2>1. ASSUME NEW p \in Projects, CreateProject(p) PROVE TypeOK'
      BY <2>1 DEF CreateProject, TypeOK, ProjectStatus
    <2>2. ASSUME NEW r \in Requests, Begins(r) PROVE TypeOK'
      BY <2>2, BeginsTypes
    <2>3. ASSUME NEW r \in Requests, Writes(r) PROVE TypeOK'
      BY <2>3, WritesTypes
    <2>4. ASSUME NEW b \in Proposals, EscrowMoves(b) PROVE TypeOK'
      BY <2>4, EscrowTypes
    <2>5. ASSUME NEW f \in Freelancers, SetFreelancerCapability(f) PROVE TypeOK'
      BY <2>5 DEF SetFreelancerCapability, TypeOK, rows
    <2>6. CASE UNCHANGED vars
      BY <2>6 DEF TypeOK, vars, rows
    <2> QED
      BY <2>1, <2>2, <2>3, <2>4, <2>5, <2>6 DEF Next
  <1> QED
    BY <1>1, <1>2, PTL DEF Spec

-----------------------------------------------------------------------------
(* The three things a step can do to proposals and contracts: nothing but  *)
(* move contracts that exist, insert a bid, or hire.                       *)
NothingDecided ==
    /\ UNCHANGED proposal
    /\ \A b \in Proposals : contract'[b] = "none" <=> contract[b] = "none"

BidInserted(r, b) ==
    /\ request[r].does = "submit" /\ request[r].proposal = b
    /\ Notes(r, ProjectOf[b])
    /\ UNCHANGED project
    /\ proposal' = [proposal EXCEPT ![b] = "submitted"]
    /\ UNCHANGED contract

Hired(b) == proposal[b] = "submitted" /\ Hire(b)

\* The requests that stay are the ones that were there.
RequestsOnlyEnd == \A r \in Requests : request'[r] \in {request[r], Idle}

LEMMA WritesDecide ==
    ASSUME TypeOK, NEW r \in Requests, Writes(r)
    PROVE  /\ RequestsOnlyEnd
           /\ request'[r] = Idle
           /\ \/ NothingDecided
              \/ \E b \in Proposals : BidInserted(r, b)
              \/ \E b \in Proposals : Hired(b)
  <1>0. request[r] \in {Idle} \cup Updating \cup Bidding \cup Accepting
    BY DEF TypeOK
  <1>1. Ends(r)
    BY DEF Writes, UpdateProject, InsertProposal, AcceptProposalTx, RequestFails
  <1>2. RequestsOnlyEnd /\ request'[r] = Idle
    BY <1>1 DEF Ends, RequestsOnlyEnd, TypeOK
  <1>3. CASE UpdateProject(r) \/ RequestFails(r)
    BY <1>2, <1>3 DEF UpdateProject, RequestFails, NothingDecided, rows
  <1>4. CASE InsertProposal(r)
    <2>1. request[r].proposal \in Proposals
      BY <1>0, <1>4 DEF InsertProposal, Idle, Updating, Bidding, Accepting
    <2>2. CASE HasLiveBid(request[r].proposal)
      BY <1>2, <1>4, <2>1, <2>2 DEF InsertProposal, NothingDecided, TypeOK
    <2>3. CASE ~HasLiveBid(request[r].proposal)
      BY <1>2, <1>4, <2>1, <2>3 DEF InsertProposal, BidInserted
    <2> QED
      BY <2>2, <2>3
  <1>5. CASE AcceptProposalTx(r)
    <2>1. UNCHANGED rows => NothingDecided
      BY DEF rows, NothingDecided
    <2> QED
      BY <1>2, <1>5, <2>1, Acceptance DEF Hired
  <1> QED
    BY <1>3, <1>4, <1>5 DEF Writes

LEMMA EscrowDecidesNothing ==
    ASSUME TypeOK, NEW b \in Proposals, EscrowMoves(b)
    PROVE  NothingDecided
  BY EscrowTypes DEF NothingDecided, EscrowMoves, ContractMoves, FirstFunding, CompleteContract,
     OpenDispute, EndDispute, EndDisputeAndContract, TypeOK

LEMMA HireKeeps ==
    ASSUME TypeOK, ContractsAreAccepted, RejectedForAnother, NEW b \in Proposals, Hired(b)
    PROVE  /\ ContractsAreAccepted'
           /\ RejectedForAnother'
           /\ \A c \in Proposals :
                 /\ proposal[c] # "submitted" => proposal'[c] = proposal[c]
                 /\ proposal[c] = "submitted" /\ SameProject(b, c) => proposal'[c] # "submitted"
                 /\ contract'[c] # "none" => contract[c] # "none" \/ c = b
  <1>1. \A c \in Proposals :
          /\ proposal'[c] = IF c = b THEN "accepted"
                            ELSE IF Competing(b, c) THEN "rejected" ELSE proposal[c]
          /\ contract'[c] = IF c = b THEN "pending" ELSE contract[c]
    BY DEF Hired, Hire, TypeOK
  <1>2. \A c \in Proposals : Competing(b, c) => proposal[c] = "submitted" /\ SameProject(b, c)
    BY DEF Competing, IsOpen
  <1>3. ContractsAreAccepted'
    BY <1>1, <1>2 DEF ContractsAreAccepted
  <1>4. RejectedForAnother'
    <2> SUFFICES ASSUME NEW c \in Proposals, proposal'[c] = "rejected"
                 PROVE  \E d \in Proposals : SameProject(c, d) /\ proposal'[d] = "accepted"
      BY DEF RejectedForAnother, SameProject
    <2>1. CASE Competing(b, c)
      BY <1>1, <1>2, <2>1 DEF SameProject
    <2>2. CASE ~Competing(b, c)
      <3>1. proposal[c] = "rejected"
        BY <1>1, <2>2
      <3>2. PICK d \in Proposals : SameProject(c, d) /\ proposal[d] = "accepted"
        BY <3>1 DEF RejectedForAnother
      <3> QED
        BY <1>1, <1>2, <3>2
    <2> QED
      BY <2>1, <2>2
  <1> QED
    BY <1>1, <1>2, <1>3, <1>4 DEF Hired, Competing, IsOpen

LEMMA NothingDecidedKeeps ==
    ASSUME ContractsAreAccepted, RejectedForAnother, NothingDecided
    PROVE  ContractsAreAccepted' /\ RejectedForAnother'
  BY DEF ContractsAreAccepted, RejectedForAnother, NothingDecided, SameProject

LEMMA InsertKeeps ==
    ASSUME BidsInv, NEW r \in Requests, NEW b \in Proposals, BidInserted(r, b)
    PROVE  /\ ContractsAreAccepted'
           /\ RejectedForAnother'
           /\ \A c \in Proposals : proposal[c] # "none" => proposal'[c] = proposal[c]
  <1>1. proposal[b] = "none"
    BY DEF BidsInv, FreshIds, BidInserted
  <1>2. \A c \in Proposals : proposal'[c] = IF c = b THEN "submitted" ELSE proposal[c]
    BY DEF BidsInv, TypeOK, BidInserted
  <1>3. ContractsAreAccepted'
    BY <1>1, <1>2 DEF BidsInv, ContractsAreAccepted, BidInserted
  <1>4. RejectedForAnother'
    BY <1>1, <1>2 DEF BidsInv, RejectedForAnother, SameProject
  <1> QED
    BY <1>1, <1>2, <1>3, <1>4

(* Requests that only end, and proposals that are inserted by the request  *)
(* that drew the id, keep the ids of the others fresh.                     *)
LEMMA FreshIdsKept ==
    ASSUME TypeOK, TypeOK', FreshIds, RequestsOnlyEnd,
           \A r \in Requests : request'[r].does = "submit" =>
               proposal'[request[r].proposal] = proposal[request[r].proposal]
    PROVE  FreshIds'
  <1> SUFFICES ASSUME NEW r \in Requests, request'[r].does = "submit"
               PROVE  /\ proposal'[request'[r].proposal] = "none"
                      /\ \A q \in Requests :
                            request'[q].does = "submit"
                              /\ request'[q].proposal = request'[r].proposal => q = r
    BY DEF FreshIds
  <1>1. request'[r] = request[r] /\ request[r].does = "submit"
    BY DEF RequestsOnlyEnd, Idle
  <1>2. \A q \in Requests : request'[q].does = "submit" => request'[q] = request[q]
    BY DEF RequestsOnlyEnd, Idle
  <1> QED
    BY <1>1, <1>2 DEF FreshIds

LEMMA BeginsKeepIdsFresh ==
    ASSUME TypeOK, FreshIds, NEW r \in Requests, Begins(r)
    PROVE  FreshIds'
  <1>1. UNCHANGED proposal
    BY BeginsTypes DEF rows
  <1>2. ASSUME NEW b \in Proposals, SubmitProposal(r, b)
        PROVE  FreshIds'
    <2>1. /\ request' = [request EXCEPT ![r] =
                           [does |-> "submit", proposal |-> b, saw |-> project[ProjectOf[b]]]]
          /\ proposal[b] = "none"
          /\ ~Drawn(b)
      BY <1>2 DEF SubmitProposal, Starts
    <2> QED
      BY <1>1, <2>1 DEF FreshIds, Drawn, TypeOK
  <1>3. ASSUME NEW w, w.does # "submit", Starts(r, w)
        PROVE  FreshIds'
    <2>1. request' = [request EXCEPT ![r] = w]
      BY <1>3 DEF Starts
    <2> QED
      BY <1>1, <1>3, <2>1 DEF FreshIds, TypeOK
  <1> QED
    BY <1>2, <1>3 DEF Begins, UpdateOwnProject, AdminCancelProject, AcceptProposal

LEMMA WritesKeepBids ==
    ASSUME BidsInv, TypeOK', NEW r \in Requests, Writes(r)
    PROVE  BidsInv'
  <1>1. RequestsOnlyEnd /\ request'[r] = Idle
    BY WritesDecide DEF BidsInv
  <1>2. CASE NothingDecided
    <2>1. FreshIds'
      BY <1>1, <1>2, FreshIdsKept DEF BidsInv, NothingDecided
    <2> QED
      BY <1>2, <2>1, NothingDecidedKeeps DEF BidsInv
  <1>3. ASSUME NEW b \in Proposals, BidInserted(r, b)
        PROVE  BidsInv'
    <2>1. \A q \in Requests : request'[q].does = "submit" =>
             q # r /\ request[q].does = "submit" /\ request[q].proposal # b
                   /\ request[q].proposal \in Proposals
      <3> SUFFICES ASSUME NEW q \in Requests, request'[q].does = "submit"
                   PROVE  q # r /\ request[q].does = "submit" /\ request[q].proposal # b
                              /\ request[q].proposal \in Proposals
        OBVIOUS
      <3>1. q # r /\ request[q].does = "submit"
        BY <1>1 DEF RequestsOnlyEnd, Idle
      <3>2. request[q] \in Bidding
        BY <3>1 DEF BidsInv, TypeOK, Idle, Updating, Bidding, Accepting
      <3>3. request[q].proposal \in Proposals
        BY <3>2 DEF Bidding
      <3> QED
        BY <1>3, <3>1, <3>3 DEF BidsInv, FreshIds, BidInserted
    <2>2. \A q \in Requests : request'[q].does = "submit" =>
             proposal'[request[q].proposal] = proposal[request[q].proposal]
      BY <1>3, <2>1 DEF BidInserted, BidsInv, TypeOK
    <2>3. FreshIds'
      BY <1>1, <2>2, FreshIdsKept DEF BidsInv
    <2> QED
      BY <1>3, <2>3, InsertKeeps DEF BidsInv
  <1>4. ASSUME NEW b \in Proposals, Hired(b)
        PROVE  BidsInv'
    <2>1. \A q \in Requests : request'[q].does = "submit" =>
             proposal'[request[q].proposal] = proposal[request[q].proposal]
      <3> SUFFICES ASSUME NEW q \in Requests, request'[q].does = "submit"
                   PROVE  proposal'[request[q].proposal] = proposal[request[q].proposal]
        OBVIOUS
      <3>1. request[q].does = "submit"
        BY <1>1 DEF RequestsOnlyEnd, Idle
      <3>2. request[q].proposal \in Proposals
        BY <3>1 DEF BidsInv, TypeOK, Idle, Updating, Bidding, Accepting
      <3> QED
        BY <1>4, <3>1, <3>2, HireKeeps DEF BidsInv, FreshIds
    <2>2. FreshIds'
      BY <1>1, <2>1, FreshIdsKept DEF BidsInv
    <2> QED
      BY <1>4, <2>2, HireKeeps DEF BidsInv
  <1> QED
    BY <1>2, <1>3, <1>4, WritesDecide DEF BidsInv

THEOREM BidsInvariant == Spec => []BidsInv
  <1>1. Init => BidsInv
    <2> SUFFICES ASSUME Init PROVE BidsInv
      OBVIOUS
    <2>1. TypeOK
      BY DEF Init, TypeOK, ProposalStatus, ContractStatus
    <2> QED
      BY <2>1 DEF Init, BidsInv, FreshIds, ContractsAreAccepted, RejectedForAnother, Idle
  <1>2. BidsInv /\ TypeOK' /\ [Next]_vars => BidsInv'
    <2> SUFFICES ASSUME BidsInv, TypeOK', [Next]_vars PROVE BidsInv'
      OBVIOUS
    <2>1. UNCHANGED <<proposal, contract, request>> => BidsInv'
      BY DEF BidsInv, FreshIds, ContractsAreAccepted, RejectedForAnother, SameProject
    <2>2. ASSUME NEW r \in Requests, Begins(r) PROVE BidsInv'
      <3>1. UNCHANGED <<proposal, contract>>
        BY <2>2, BeginsTypes DEF BidsInv, rows
      <3>2. FreshIds'
        BY <2>2, BeginsKeepIdsFresh DEF BidsInv
      <3> QED
        BY <3>1, <3>2 DEF BidsInv, ContractsAreAccepted, RejectedForAnother, SameProject
    <2>3. ASSUME NEW b \in Proposals, EscrowMoves(b) PROVE BidsInv'
      <3>1. NothingDecided /\ UNCHANGED <<proposal, request>>
        BY <2>3, EscrowDecidesNothing, EscrowTypes DEF BidsInv
      <3>2. FreshIds'
        BY <3>1 DEF BidsInv, FreshIds
      <3> QED
        BY <3>1, <3>2, NothingDecidedKeeps DEF BidsInv
    <2> QED
      BY <2>1, <2>2, <2>3, WritesKeepBids
      DEF Next, CreateProject, SetFreelancerCapability, vars, rows
  <1> QED
    BY <1>1, <1>2, TypeCorrect, PTL DEF Spec

(* A contract is there exactly when its proposal was accepted, however     *)
(* acceptances race (AcceptProposalTx).                                    *)
THEOREM ContractsMatchAcceptances == Spec => []ContractsAreAccepted
  BY BidsInvariant, PTL DEF BidsInv

(* Nobody is turned down without another one having been taken on.         *)
THEOREM RejectionsHaveAReason == Spec => []RejectedForAnother
  BY BidsInvariant, PTL DEF BidsInv

(* What was decided about a bid stands.                                    *)
THEOREM DecisionsStand == Spec => ClosedBidsStayClosed
  <1>1. BidsInv /\ [Next]_vars =>
          \A b \in Proposals : proposal[b] \in {"accepted", "rejected"} => proposal'[b] = proposal[b]
    <2> SUFFICES ASSUME BidsInv, [Next]_vars, NEW b \in Proposals,
                        proposal[b] \in {"accepted", "rejected"}
                 PROVE  proposal'[b] = proposal[b]
      OBVIOUS
    <2>1. ASSUME NEW r \in Requests, Begins(r) PROVE UNCHANGED proposal
      BY <2>1, BeginsTypes DEF BidsInv, rows
    <2>2. ASSUME NEW r \in Requests, Writes(r) PROVE proposal'[b] = proposal[b]
      BY <2>2, WritesDecide, InsertKeeps, HireKeeps DEF BidsInv, NothingDecided
    <2>3. ASSUME NEW c \in Proposals, EscrowMoves(c) PROVE UNCHANGED proposal
      BY <2>3, EscrowTypes DEF BidsInv
    <2> QED
      BY <2>1, <2>2, <2>3 DEF Next, CreateProject, SetFreelancerCapability, vars, rows
  <1> QED
    BY <1>1, BidsInvariant, PTL DEF Spec, ClosedBidsStayClosed

-----------------------------------------------------------------------------
(* What outdated reads cannot excuse.  Anything happens between the reads  *)
(* and the writes of requests.                                             *)

LEMMA Lifecycle ==
    ASSUME NEW s, NEW next, CanTransitionTo(s, next)
    PROVE  /\ s \in PastHiring => next \in PastHiring
           /\ s \in Finished => next = s
  BY DEF CanTransitionTo, projectTransitions, PastHiring, Finished

LEMMA BeginsCheck ==
    ASSUME TypeOK, ReadsWereChecked, NEW r \in Requests, Begins(r)
    PROVE  ReadsWereChecked'
  <1>1. ASSUME NEW w, Starts(r, w),
               w.does = "update" => CanTransitionTo(w.saw, w.status),
               w.does = "submit" => w.saw = "accepting_proposals",
               w.does = "accept" => CanTransitionTo(w.saw, "hired")
        PROVE  ReadsWereChecked'
    <2>1. \A q \in Requests : request'[q] = IF q = r THEN w ELSE request[q]
      BY <1>1 DEF Starts, TypeOK
    <2> QED
      BY <1>1, <2>1 DEF ReadsWereChecked, CanTransitionTo
  <1>2. ASSUME NEW p \in Projects, NEW next \in ProjectStatus, UpdateOwnProject(r, p, next)
        PROVE  ReadsWereChecked'
    BY <1>1, <1>2 DEF UpdateOwnProject
  <1>3. ASSUME NEW p \in Projects, AdminCancelProject(r, p) PROVE ReadsWereChecked'
    BY <1>1, <1>3 DEF AdminCancelProject
  <1>4. ASSUME NEW b \in Proposals, SubmitProposal(r, b) PROVE ReadsWereChecked'
    BY <1>1, <1>4 DEF SubmitProposal
  <1>5. ASSUME NEW b \in Proposals, AcceptProposal(r, b) PROVE ReadsWereChecked'
    BY <1>1, <1>5 DEF AcceptProposal
  <1> QED
    BY <1>2, <1>3, <1>4, <1>5 DEF Begins

LEMMA EndingKeepsChecks ==
    ASSUME ReadsWereChecked, RequestsOnlyEnd PROVE ReadsWereChecked'
  BY DEF ReadsWereChecked, RequestsOnlyEnd, CanTransitionTo, Idle

(* A write moves the project along its lifecycle, hires, or is noted.      *)
LEMMA WritesFollowLifecycle ==
    ASSUME TypeOK, ReadsWereChecked, NEW r \in Requests, Writes(r)
    PROVE  /\ outdated \subseteq outdated'
           /\ \A p \in Projects \ outdated' :
                 \/ project'[p] \in {project[p], "hired"}
                 \/ CanTransitionTo(project[p], project'[p])
  <1>1. CASE UpdateProject(r)
    BY <1>1 DEF UpdateProject, Notes, TypeOK, ReadsWereChecked
  <1>2. CASE InsertProposal(r)
    BY <1>2 DEF InsertProposal, Notes
  <1>3. CASE AcceptProposalTx(r)
    BY <1>3 DEF AcceptProposalTx, Hire, rows, TypeOK
  <1> QED
    BY <1>1, <1>2, <1>3 DEF Writes, RequestFails, rows

LEMMA WritesKeepHiring ==
    ASSUME HiringInv, BidsInv, TypeOK', NEW r \in Requests, Writes(r)
    PROVE  HiringInv'
  <1> USE HiringAssumption
  <1>1. ReadsWereChecked'
    BY WritesDecide, EndingKeepsChecks DEF HiringInv
  <1>2. outdated \subseteq outdated'
    BY WritesFollowLifecycle DEF HiringInv
  <1>3. \A b \in Proposals : contract[b] # "none" /\ ProjectOf[b] \notin outdated'
                               => project'[ProjectOf[b]] \in PastHiring
    <2> SUFFICES ASSUME NEW b \in Proposals, contract[b] # "none", ProjectOf[b] \notin outdated'
                 PROVE  project'[ProjectOf[b]] \in PastHiring
      OBVIOUS
    <2>1. project[ProjectOf[b]] \in PastHiring /\ ProjectOf[b] \in Projects
      BY <1>2 DEF HiringInv, ContractsPastHiring
    <2>2. "hired" \in PastHiring
      BY DEF PastHiring
    <2> QED
      BY <2>1, <2>2, WritesFollowLifecycle, Lifecycle DEF HiringInv
  <1>4. CASE NothingDecided
    BY <1>1, <1>2, <1>3, <1>4
    DEF HiringInv, NothingDecided, ContractsPastHiring, OpenAfterHireNeedsOldRead,
        SecondContractNeedsOldRead, SameProject
  <1>5. ASSUME NEW b \in Proposals, BidInserted(r, b)
        PROVE  HiringInv'
    <2>1. ProjectOf[b] \notin outdated' =>
             \A c \in Proposals : SameProject(c, b) => contract[c] = "none"
      BY <1>2, <1>5 DEF BidInserted, Notes, HiringInv, ReadsWereChecked,
                        ContractsPastHiring, PastHiring, SameProject
    <2>2. \A c \in Proposals : proposal'[c] = IF c = b THEN "submitted" ELSE proposal[c]
      BY <1>5 DEF BidInserted, HiringInv, TypeOK
    <2>3. OpenAfterHireNeedsOldRead'
      BY <1>2, <1>5, <2>1, <2>2
      DEF BidInserted, HiringInv, OpenAfterHireNeedsOldRead, SameProject, IsOpen
    <2> QED
      BY <1>1, <1>2, <1>3, <1>5, <2>3
      DEF BidInserted, HiringInv, ContractsPastHiring, SecondContractNeedsOldRead, SameProject
  <1>6. ASSUME NEW b \in Proposals, Hired(b)
        PROVE  HiringInv'
    <2>1. ProjectOf[b] \notin outdated' =>
             \A c \in Proposals : SameProject(c, b) => contract[c] = "none"
      BY <1>2, <1>6 DEF Hired, HiringInv, OpenAfterHireNeedsOldRead, SameProject, IsOpen
    <2>2. \A c \in Proposals :
            /\ proposal[c] # "submitted" => proposal'[c] # "submitted"
            /\ SameProject(b, c) => proposal'[c] # "submitted"
            /\ contract'[c] # "none" => contract[c] # "none" \/ c = b
      BY <1>6, HireKeeps DEF BidsInv
    <2>3. project'[ProjectOf[b]] = "hired"
      BY <1>6 DEF Hired, Hire, HiringInv, TypeOK
    <2>4. ContractsPastHiring'
      BY <1>3, <2>2, <2>3 DEF ContractsPastHiring, PastHiring
    <2>5. OpenAfterHireNeedsOldRead'
      BY <1>2, <2>2 DEF HiringInv, OpenAfterHireNeedsOldRead, SameProject, IsOpen
    <2>6. SecondContractNeedsOldRead'
      BY <1>2, <2>1, <2>2 DEF HiringInv, SecondContractNeedsOldRead, SameProject
    <2> QED
      BY <1>1, <2>4, <2>5, <2>6 DEF HiringInv
  <1> QED
    BY <1>4, <1>5, <1>6, WritesDecide DEF HiringInv

LEMMA EscrowKeepsHiring ==
    ASSUME HiringInv, TypeOK', NEW b \in Proposals, EscrowMoves(b)
    PROVE  HiringInv'
  <1> USE HiringAssumption
  <1>1. NothingDecided /\ UNCHANGED <<proposal, request, outdated>>
    BY EscrowDecidesNothing, EscrowTypes DEF HiringInv
  <1>2. \A p \in Projects : project'[p] = project[p] \/ project'[p] \in PastHiring
    BY DEF EscrowMoves, FirstFunding, CompleteContract, OpenDispute, EndDispute,
           EndDisputeAndContract, ContractMoves, HiringInv, TypeOK, PastHiring
  <1>3. ContractsPastHiring'
    BY <1>1, <1>2 DEF NothingDecided, HiringInv, ContractsPastHiring
  <1> QED
    BY <1>1, <1>3
    DEF HiringInv, NothingDecided, ReadsWereChecked, OpenAfterHireNeedsOldRead,
        SecondContractNeedsOldRead, SameProject

THEOREM HiringInvariant == Spec => []HiringInv
  <1>1. Init => HiringInv
    <2> SUFFICES ASSUME Init PROVE HiringInv
      OBVIOUS
    <2>1. TypeOK
      BY DEF Init, TypeOK, ProposalStatus, ContractStatus
    <2> QED
      BY <2>1
      DEF Init, HiringInv, ReadsWereChecked, ContractsPastHiring,
          OpenAfterHireNeedsOldRead, SecondContractNeedsOldRead, Idle
  <1>2. HiringInv /\ BidsInv /\ TypeOK' /\ [Next]_vars => HiringInv'
    <2> SUFFICES ASSUME HiringInv, BidsInv, TypeOK', [Next]_vars PROVE HiringInv'
      OBVIOUS
    <2> USE DEF HiringInv, ContractsPastHiring, OpenAfterHireNeedsOldRead,
                SecondContractNeedsOldRead, SameProject, rows
    <2>1. ASSUME NEW p \in Projects, CreateProject(p) PROVE HiringInv'
      <3>1. \A b \in Proposals :
              contract[b] # "none" /\ ProjectOf[b] \notin outdated => ProjectOf[b] # p
        BY <2>1 DEF CreateProject, PastHiring
      <3>2. ContractsPastHiring'
        BY <2>1, <3>1, HiringAssumption DEF CreateProject, TypeOK
      <3> QED
        BY <2>1, <3>2 DEF CreateProject, ReadsWereChecked
    <2>2. ASSUME NEW r \in Requests, Begins(r) PROVE HiringInv'
      BY <2>2, BeginsTypes, BeginsCheck
    <2>3. ASSUME NEW f \in Freelancers, SetFreelancerCapability(f) PROVE HiringInv'
      BY <2>3 DEF SetFreelancerCapability, ReadsWereChecked
    <2>4. CASE UNCHANGED vars
      BY <2>4 DEF vars, ReadsWereChecked
    <2> QED
      BY <2>1, <2>2, <2>3, <2>4, WritesKeepHiring, EscrowKeepsHiring DEF Next
  <1> QED
    BY <1>1, <1>2, TypeCorrect, BidsInvariant, PTL DEF Spec

(* However requests overlap, a project gets a second contract only after a *)
(* bid or an edit was written on it by an outdated read: racing            *)
(* acceptances, which may have read anything, write one at most.           *)
THEOREM SecondContractsCostARead == Spec => []SecondContractNeedsOldRead
  BY HiringInvariant, PTL DEF HiringInv

(* However requests overlap, a bid is open on a project that has hired     *)
(* only after a bid or an edit was written on it by an outdated read.      *)
THEOREM OpenBidsCostARead == Spec => []OpenAfterHireNeedsOldRead
  BY HiringInvariant, PTL DEF HiringInv

(* However requests overlap, what moves a finished project is the write of *)
(* a request that saw it in another state: no other request, and no move   *)
(* of a contract or a dispute, revives it or rewrites how it ended.        *)
THEOREM OnlyOldReadsRevive == Spec => FinishedMovesByOldReads
  <1>1. HiringInv /\ [Next]_vars =>
          \A p \in Projects :
             project[p] \in Finished /\ project'[p] # project[p] =>
               \E r \in Requests : /\ Concerns(r, p)
                                   /\ request[r].saw # project[p]
                                   /\ request'[r] = Idle
    <2> SUFFICES ASSUME HiringInv, [Next]_vars, NEW p \in Projects,
                        project[p] \in Finished, project'[p] # project[p]
                 PROVE  \E r \in Requests : /\ Concerns(r, p)
                                            /\ request[r].saw # project[p]
                                            /\ request'[r] = Idle
      OBVIOUS
    <2>1. ASSUME NEW q \in Projects, CreateProject(q) PROVE FALSE
      BY <2>1 DEF CreateProject, Finished, HiringInv, TypeOK
    <2>2. ASSUME NEW r \in Requests, Begins(r) PROVE FALSE
      BY <2>2, BeginsTypes DEF HiringInv, rows
    <2>3. ASSUME NEW r \in Requests, Writes(r)
          PROVE  Concerns(r, p) /\ request[r].saw # project[p] /\ request'[r] = Idle
      <3>1. request'[r] = Idle
        BY <2>3, WritesDecide DEF HiringInv
      <3>2. CASE UpdateProject(r)
        <4>1. /\ request[r].does = "update"
              /\ project' = [project EXCEPT ![request[r].project] = request[r].status]
          BY <3>2 DEF UpdateProject
        <4>2. request[r].project = p /\ project'[p] = request[r].status
          BY <4>1 DEF HiringInv, TypeOK
        <4>3. CanTransitionTo(request[r].saw, request[r].status)
          BY <4>1 DEF HiringInv, ReadsWereChecked
        <4> QED
          BY <3>1, <4>1, <4>2, <4>3, Lifecycle DEF Concerns
      <3>3. CASE AcceptProposalTx(r)
        <4>1. /\ request[r].does = "accept"
              /\ project' = [project EXCEPT ![ProjectOf[request[r].proposal]] = "hired"]
          BY <3>3 DEF AcceptProposalTx, Hire, rows
        <4>2. ProjectOf[request[r].proposal] = p /\ project'[p] = "hired"
          BY <4>1 DEF HiringInv, TypeOK
        <4>3. CanTransitionTo(request[r].saw, "hired")
          BY <4>1 DEF HiringInv, ReadsWereChecked
        <4> QED
          BY <3>1, <4>1, <4>2, <4>3, Lifecycle DEF Concerns
      <3> QED
        BY <2>3, <3>2, <3>3 DEF Writes, InsertProposal, RequestFails, rows
    <2>4. ASSUME NEW b \in Proposals, EscrowMoves(b) PROVE FALSE
      BY <2>4, HiringAssumption
      DEF EscrowMoves, FirstFunding, CompleteContract, OpenDispute, EndDispute,
          EndDisputeAndContract, ContractMoves, HiringInv, TypeOK, Finished
    <2> QED
      BY <2>1, <2>2, <2>3, <2>4 DEF Next, SetFreelancerCapability, vars, rows
  <1> QED
    BY <1>1, HiringInvariant, PTL DEF Spec, FinishedMovesByOldReads
=============================================================================
