------------------------------- MODULE Hiring -------------------------------
(***************************************************************************)
(* From a posted project to a contract (backend/internal/freelance:        *)
(* service/freelance_service.go and service/projects.go, over              *)
(* repository/freelance_repository.go).                                    *)
(*                                                                         *)
(* Every handler reads the rows it needs, consults the transition tables   *)
(* of domain/states.go and then writes, with no transaction around the     *)
(* two.  The reads are an action that starts a request, the write one that *)
(* ends it.  AcceptProposalTx, which writes four tables in one             *)
(* transaction, is one action: the rows it updates are locked.             *)
(*                                                                         *)
(* Anything may happen between a request's read and its write: nothing in  *)
(* the code prevents it.  A request keeps the project status it saw, and   *)
(* outdated remembers the projects a bid or an edit was written on after   *)
(* they had moved on from that.  No action reads outdated.                 *)
(*                                                                         *)
(* No code writes the statuses viewed, shortlisted, withdrawn and draft of *)
(* a proposal.  What happens to a contract and to its project once the     *)
(* contract exists belongs to Escrow; here its moves come at any time.     *)
(***************************************************************************)
CONSTANTS Projects,
          Freelancers,
          Proposals,   \* ids a submission may draw
          ProjectOf, BidderOf,
          Requests     \* requests the handlers may be serving at once

ASSUME HiringAssumption ==
    /\ ProjectOf \in [Proposals -> Projects]
    /\ BidderOf \in [Proposals -> Freelancers]

VARIABLES
    project,     \* status of each project, "none" before it is posted
    proposal,    \* status of each proposal, "none" before it is submitted
    contract,    \* status of each proposal's contract, "none" without one
    active,      \* whether each freelancer's capability is active
    request,     \* what each request in progress saw and has yet to write
    outdated     \* the projects bid on or edited by an outdated read

rows == <<project, proposal, contract>>
vars == <<rows, active, request, outdated>>

ProjectStatus == {"draft", "published", "accepting_proposals", "hired", "active",
                  "disputed", "completed", "cancelled"}
ProposalStatus == {"none", "submitted", "accepted", "rejected"}
ContractStatus == {"none", "pending", "active", "disputed", "completed"}

Finished == {"completed", "cancelled"}

Idle == [does |-> "nothing"]
Updating == [does : {"update"}, project : Projects, saw : ProjectStatus, status : ProjectStatus]
Bidding == [does : {"submit"}, proposal : Proposals, saw : ProjectStatus]
Accepting == [does : {"accept"}, proposal : Proposals, saw : ProjectStatus]

\* projectTransitions.
projectTransitions ==
    [draft |-> {"published", "cancelled"},
     published |-> {"accepting_proposals", "draft", "cancelled"},
     accepting_proposals |-> {"hired", "published", "cancelled"},
     hired |-> {"active", "cancelled", "disputed"},
     active |-> {"completed", "cancelled", "disputed"},
     disputed |-> {"active", "completed", "cancelled"},
     completed |-> {},
     cancelled |-> {}]

\* A status may always move to itself.
CanTransitionTo(s, next) == next = s \/ next \in projectTransitions[s]

IsOpen == {"submitted"}
Live == {"submitted", "accepted"}

Init ==
    /\ project = [p \in Projects |-> "none"]
    /\ proposal = [b \in Proposals |-> "none"]
    /\ contract = [b \in Proposals |-> "none"]
    /\ active = [f \in Freelancers |-> TRUE]
    /\ request = [r \in Requests |-> Idle]
    /\ outdated = {}

-----------------------------------------------------------------------------
(* What the handlers read, and decide.                                     *)

Starts(r, write) ==
    /\ request[r] = Idle
    /\ request' = [request EXCEPT ![r] = write]
    /\ UNCHANGED <<rows, active, outdated>>

\* An edit that names no status writes back the one it read: the move of a
\* status to itself.
UpdateOwnProject(r, p, next) ==
    /\ project[p] \notin Finished \cup {"none"}
    /\ CanTransitionTo(project[p], next)
    /\ Starts(r, [does |-> "update", project |-> p, saw |-> project[p], status |-> next])

AdminCancelProject(r, p) ==
    /\ project[p] # "none"
    /\ CanTransitionTo(project[p], "cancelled")
    /\ Starts(r, [does |-> "update", project |-> p, saw |-> project[p], status |-> "cancelled"])

\* The id of a submission in progress.
Drawn(b) == \E r \in Requests : request[r].does = "submit" /\ request[r].proposal = b

\* Mutant: bids are taken as long as the project is not finished.
SubmitToUnfinished(r, b) ==
    /\ active[BidderOf[b]]
    /\ project[ProjectOf[b]] \notin Finished \cup {"none", "draft"}
    /\ proposal[b] = "none"
    /\ ~Drawn(b)
    /\ Starts(r, [does |-> "submit", proposal |-> b, saw |-> project[ProjectOf[b]]])
SubmitProposal(r, b) ==
    /\ active[BidderOf[b]]
    /\ project[ProjectOf[b]] = "accepting_proposals"
    /\ proposal[b] = "none"
    /\ ~Drawn(b)
    /\ Starts(r, [does |-> "submit", proposal |-> b, saw |-> project[ProjectOf[b]]])

\* Mutant: the project's lifecycle is not consulted.
AcceptWhateverTheProject(r, b) ==
    /\ project[ProjectOf[b]] # "none"
    /\ proposal[b] \in IsOpen
    /\ Starts(r, [does |-> "accept", proposal |-> b, saw |-> project[ProjectOf[b]]])
AcceptProposal(r, b) ==
    /\ project[ProjectOf[b]] # "none"
    /\ proposal[b] \in IsOpen
    /\ CanTransitionTo(project[ProjectOf[b]], "hired")
    /\ Starts(r, [does |-> "accept", proposal |-> b, saw |-> project[ProjectOf[b]]])

-----------------------------------------------------------------------------
(* What they then write, whatever the rows have become since.              *)

Ends(r) == request' = [request EXCEPT ![r] = Idle]

\* A bid or an edit of p, noted when p is no longer what its request saw.
Notes(r, p) ==
    outdated' = IF request[r].saw = project[p] THEN outdated ELSE outdated \cup {p}

\* CreateProject is a single insert.
CreateProject(p) ==
    /\ project[p] = "none"
    /\ project' = [project EXCEPT ![p] = "draft"]
    /\ UNCHANGED <<proposal, contract, active, request, outdated>>

\* UpdateProject and UpdateProjectStatus: WHERE id, and nothing else.
UpdateProject(r) ==
    /\ request[r].does = "update"
    /\ project' = [project EXCEPT ![request[r].project] = request[r].status]
    /\ Notes(r, request[r].project)
    /\ Ends(r)
    /\ UNCHANGED <<proposal, contract, active>>

SameProject(b, c) == ProjectOf[b] = ProjectOf[c]

\* uq_freelance_proposals_live: one live bid per freelancer and project.
HasLiveBid(b) ==
    \E c \in Proposals : SameProject(b, c) /\ BidderOf[c] = BidderOf[b] /\ proposal[c] \in Live

InsertProposal(r) ==
    LET b == request[r].proposal
    IN  /\ request[r].does = "submit"
        /\ \/ HasLiveBid(b) /\ UNCHANGED <<proposal, outdated>>
           \/ /\ ~HasLiveBid(b)
              /\ proposal' = [proposal EXCEPT ![b] = "submitted"]
              /\ Notes(r, ProjectOf[b])
        /\ Ends(r)
        /\ UNCHANGED <<project, contract, active>>

\* Mutant: every other bid is rejected, also an accepted one.
AnyOther(b, c) == SameProject(b, c) /\ c # b /\ proposal[c] # "none"
\* Mutant: the competing bids are left open.
NoCompetitor(b, c) == FALSE
\* The competing bids that an acceptance of b rejects.
Competing(b, c) == SameProject(b, c) /\ c # b /\ proposal[c] \in IsOpen

\* Mutant: the acceptance is not guarded on the status.
AcceptableAlways(b) == TRUE
\* WHERE status IN ('submitted', 'viewed', 'shortlisted').
Acceptable(b) == proposal[b] \in IsOpen

\* Mutant: the rejection comes after the acceptance and lacks id <> $2.
HireAndRejectAll(b) ==
    /\ proposal' = [c \in Proposals |-> IF SameProject(b, c) /\ proposal[c] \in IsOpen
                                        THEN "rejected" ELSE proposal[c]]
    /\ project' = [project EXCEPT ![ProjectOf[b]] = "hired"]
    /\ contract' = [contract EXCEPT ![b] = "pending"]
Hire(b) ==
    /\ proposal' = [c \in Proposals |-> IF c = b THEN "accepted"
                                        ELSE IF Competing(b, c) THEN "rejected"
                                        ELSE proposal[c]]
    /\ project' = [project EXCEPT ![ProjectOf[b]] = "hired"]
    /\ contract' = [contract EXCEPT ![b] = "pending"]

\* A bid that is no longer open rolls the transaction back: ErrProposalNotOpen.
AcceptProposalTx(r) ==
    /\ request[r].does = "accept"
    /\ \/ Acceptable(request[r].proposal) /\ Hire(request[r].proposal)
       \/ ~Acceptable(request[r].proposal) /\ UNCHANGED rows
    /\ Ends(r)
    /\ UNCHANGED <<active, outdated>>

\* The statement fails or the caller has gone: nothing is written.
RequestFails(r) ==
    /\ request[r] # Idle
    /\ Ends(r)
    /\ UNCHANGED <<rows, active, outdated>>

-----------------------------------------------------------------------------
(* What comes from outside: a freelancer's capability and the escrow.      *)

SetFreelancerCapability(f) ==
    /\ active' = [active EXCEPT ![f] = ~@]
    /\ UNCHANGED <<rows, request, outdated>>

\* A guarded move of a contract, and of its project when it is where expected.
ContractMoves(b, from, to, projectFrom, projectTo) ==
    /\ contract[b] = from
    /\ contract' = [contract EXCEPT ![b] = to]
    /\ project' = [project EXCEPT ![ProjectOf[b]] = IF @ = projectFrom THEN projectTo ELSE @]
    /\ UNCHANGED <<proposal, active, request, outdated>>

\* Mutant: the name the status had before migration 0102.
FundingToInProgress(b) == ContractMoves(b, "pending", "active", "hired", "in_progress")
FirstFunding(b) == ContractMoves(b, "pending", "active", "hired", "active")
CompleteContract(b) == ContractMoves(b, "active", "completed", "active", "completed")
OpenDispute(b) == ContractMoves(b, "active", "disputed", "active", "disputed")
EndDispute(b) == ContractMoves(b, "disputed", "active", "disputed", "active")

\* A decision that settles the last milestone ends dispute and contract at once.
EndDisputeAndContract(b) ==
    /\ contract[b] = "disputed"
    /\ contract' = [contract EXCEPT ![b] = "completed"]
    /\ project' = [project EXCEPT ![ProjectOf[b]] =
                     IF @ \in {"disputed", "active"} THEN "completed" ELSE @]
    /\ UNCHANGED <<proposal, active, request, outdated>>

-----------------------------------------------------------------------------
Begins(r) ==
    \/ \E p \in Projects :
          \/ \E next \in ProjectStatus : UpdateOwnProject(r, p, next)
          \/ AdminCancelProject(r, p)
    \/ \E b \in Proposals : SubmitProposal(r, b) \/ AcceptProposal(r, b)

Writes(r) ==
    \/ UpdateProject(r)
    \/ InsertProposal(r)
    \/ AcceptProposalTx(r)
    \/ RequestFails(r)

EscrowMoves(b) ==
    \/ FirstFunding(b)
    \/ CompleteContract(b)
    \/ OpenDispute(b)
    \/ EndDispute(b)
    \/ EndDisputeAndContract(b)

Next ==
    \/ \E p \in Projects : CreateProject(p)
    \/ \E r \in Requests : Begins(r) \/ Writes(r)
    \/ \E b \in Proposals : EscrowMoves(b)
    \/ \E f \in Freelancers : SetFreelancerCapability(f)

Spec == Init /\ [][Next]_vars

-----------------------------------------------------------------------------
(* Types of the rows and of the requests in progress.                      *)
TypeOK ==
    /\ project \in [Projects -> ProjectStatus \cup {"none"}]
    /\ proposal \in [Proposals -> ProposalStatus]
    /\ contract \in [Proposals -> ContractStatus]
    /\ active \in [Freelancers -> BOOLEAN]
    /\ request \in [Requests -> {Idle} \cup Updating \cup Bidding \cup Accepting]
    /\ outdated \subseteq Projects

(* A contract and an accepted proposal come together (AcceptProposalTx's   *)
(* four writes "have to agree"), however acceptances race.                 *)
ContractsAreAccepted ==
    \A b \in Proposals : contract[b] # "none" <=> proposal[b] = "accepted"

(* A bid that was accepted or rejected is never decided again, though an   *)
(* acceptance in flight read it while it was open.                         *)
ClosedBidsStayClosed ==
    [][\A b \in Proposals : proposal[b] \in {"accepted", "rejected"}
                             => proposal'[b] = proposal[b]]_vars

(* A bid is only ever rejected for another one on the same project.        *)
RejectedForAnother ==
    \A b \in Proposals : proposal[b] = "rejected" =>
        \E c \in Proposals : SameProject(b, c) /\ proposal[c] = "accepted"

(* No project has two contracts: AcceptProposal's checks are there so that *)
(* nobody "could do it repeatedly, each time writing another contract for  *)
(* the same work".                                                         *)
OneContractPerProject ==
    \A b, c \in Proposals :
        SameProject(b, c) /\ contract[b] # "none" /\ contract[c] # "none" => b = c

(* What is left of it: a second contract costs a submission or an edit     *)
(* that wrote by an outdated read of the project.  Acceptances never do    *)
(* it, however they race and whatever they read, although the table lets a *)
(* hired project move to hired again.                                      *)
SecondContractNeedsOldRead ==
    \A b, c \in Proposals :
        SameProject(b, c) /\ contract[b] # "none" /\ contract[c] # "none"
                          /\ ProjectOf[b] \notin outdated => b = c

(* So does an open bid on a project that has hired (SubmitProposal's check *)
(* and AcceptProposalTx's rejection of the competing bids).                *)
OpenAfterHireNeedsOldRead ==
    \A b, c \in Proposals :
        SameProject(b, c) /\ contract[b] # "none" /\ ProjectOf[b] \notin outdated
            => proposal[c] \notin IsOpen

(* A completed or cancelled project does not move: "Terminal. A finished   *)
(* project is history" (projectTransitions).                               *)
FinishedStaysFinished ==
    [][\A p \in Projects : project[p] \in Finished => project'[p] = project[p]]_vars

(* What is left of it: the step that moves a finished project is the write *)
(* of a request that saw it in another state.  The moves of contracts and  *)
(* disputes, and requests that read it finished, leave it.                 *)
Concerns(r, p) ==
    \/ request[r].does = "update" /\ request[r].project = p
    \/ request[r].does = "accept" /\ ProjectOf[request[r].proposal] = p
FinishedMovesByOldReads ==
    [][\A p \in Projects :
        project[p] \in Finished /\ project'[p] # project[p] =>
            \E r \in Requests : /\ Concerns(r, p)
                                /\ request[r].saw # project[p]
                                /\ request'[r] = Idle]_vars

(* "ProjectHired means a proposal was accepted and a contract exists."     *)
HiredHasContract ==
    \A p \in Projects : project[p] = "hired" =>
        \E b \in Proposals : ProjectOf[b] = p /\ contract[b] # "none"
=============================================================================
