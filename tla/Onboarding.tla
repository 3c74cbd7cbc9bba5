----------------------------- MODULE Onboarding -----------------------------
(***************************************************************************)
(* Becoming, being and ceasing to be a freelancer (backend/internal/       *)
(* freelance: the capability methods of service/freelance_service.go and   *)
(* EnableFreelanceProfile, over repository/freelance_repository.go).       *)
(*                                                                         *)
(* Every handler reads the capability in one statement and writes in       *)
(* another, with no transaction around the two: the read is an action that *)
(* starts a request, the write an action that ends it, and requests of the *)
(* account and of administrators come between.                             *)
(*                                                                         *)
(* A profile's contents are reduced to what RequiredForActivation asks of  *)
(* them: whether rate, tagline and skills are all there.                   *)
(***************************************************************************)
CONSTANTS Accounts,
          Requests   \* requests a handler may be serving at once

VARIABLES
    capability,  \* capability_status of each account, "none" without a row
    complete,    \* whether its profile has all that activation requires
    request      \* what each request in progress has yet to write

vars == <<capability, complete, request>>

CapabilityStatus == {"none", "pending", "active", "suspended"}

Idle == [does |-> "nothing"]
Saving == [does : {"save", "enable"}, account : Accounts, complete : BOOLEAN]
Completing == [does : {"activate"}, account : Accounts]
Setting == [does : {"set"}, account : Accounts,
            from : CapabilityStatus, target : {"active", "suspended"}]

Init ==
    /\ capability = [a \in Accounts |-> "none"]
    /\ complete = [a \in Accounts |-> FALSE]
    /\ request = [r \in Requests |-> Idle]

-----------------------------------------------------------------------------
(* What the handlers read, and decide.                                     *)

Starts(r, write) ==
    /\ request[r] = Idle
    /\ request' = [request EXCEPT ![r] = write]
    /\ UNCHANGED <<capability, complete>>

SaveProfile(r, a) ==
    /\ capability[a] # "suspended"
    /\ \E full \in BOOLEAN : Starts(r, [does |-> "save", account |-> a, complete |-> full])

\* An existing profile is left alone; a new one is empty.
EnableFreelanceProfile(r, a) ==
    /\ capability[a] = "none"
    /\ Starts(r, [does |-> "enable", account |-> a, complete |-> FALSE])

CompleteOnboarding(r, a) ==
    /\ capability[a] = "pending"
    /\ complete[a]
    /\ Starts(r, [does |-> "activate", account |-> a])

SetCapability(r, a, target) ==
    /\ capability[a] \notin {"none", target}
    /\ Starts(r, [does |-> "set", account |-> a, from |-> capability[a], target |-> target])

-----------------------------------------------------------------------------
(* What they then write, whatever the row has become since.                *)

Ends(r) == request' = [request EXCEPT ![r] = Idle]

\* Mutant: a new row starts as the marketplace's other drafts do.
DraftDefault == "draft"
\* The column's default, which the insert relies on.
ColumnDefault == "pending"

\* The upsert: a new row is pending, an existing one keeps its capability.
\* Its update overwrites the contents, also of a profile it meant to create.
WriteProfile(r) ==
    LET w == request[r]
    IN  /\ w.does \in {"save", "enable"}
        /\ complete' = [complete EXCEPT ![w.account] = w.complete]
        /\ capability' = [capability EXCEPT ![w.account] =
                            IF @ = "none" THEN ColumnDefault ELSE @]
        /\ Ends(r)

\* Mutant: the guard is left to CompleteOnboarding, which has checked it.
AnyCapability == CapabilityStatus
\* WHERE capability_status = 'pending'.
Activable == {"pending"}

ActivateFreelancerCapability(r) ==
    LET a == request[r].account
    IN  /\ request[r].does = "activate"
        /\ capability' = [capability EXCEPT ![a] = IF @ \in Activable THEN "active" ELSE @]
        /\ Ends(r)
        /\ UNCHANGED complete

SetFreelancerCapability(r) ==
    /\ request[r].does = "set"
    /\ capability' = [capability EXCEPT ![request[r].account] = request[r].target]
    /\ Ends(r)
    /\ UNCHANGED complete

\* The statement fails or the caller has gone: nothing is written.
RequestFails(r) ==
    /\ request[r] # Idle
    /\ Ends(r)
    /\ UNCHANGED <<capability, complete>>

Next ==
    \E r \in Requests :
        \/ \E a \in Accounts :
            \/ SaveProfile(r, a)
            \/ EnableFreelanceProfile(r, a)
            \/ CompleteOnboarding(r, a)
            \/ \E target \in {"active", "suspended"} : SetCapability(r, a, target)
        \/ WriteProfile(r)
        \/ ActivateFreelancerCapability(r)
        \/ SetFreelancerCapability(r)
        \/ RequestFails(r)

Spec == Init /\ [][Next]_vars

-----------------------------------------------------------------------------
(* Types.  A profile row has a capability and a request names a write.     *)
TypeOK ==
    /\ capability \in [Accounts -> CapabilityStatus]
    /\ complete \in [Accounts -> BOOLEAN]
    /\ request \in [Requests -> {Idle} \cup Saving \cup Completing \cup Setting]

Reinstated(a) ==
    \E r \in Requests :
        request[r] \in Setting /\ request[r].account = a /\ request'[r] = Idle

(* Nobody comes back from a suspension but by an administrator's decision, *)
(* though completing onboarding, saving and enabling all read the          *)
(* capability before the suspension and may write after it: the guard on   *)
(* 'pending' in ActivateFreelancerCapability, and the upsert that leaves   *)
(* capability_status out.                                                  *)
SuspensionHolds ==
    [][\A a \in Accounts : capability[a] = "suspended" /\ capability'[a] # "suspended"
                            => Reinstated(a)]_vars

(* CompleteOnboarding "is the one transition that grants the capability    *)
(* [...] it is the only way in": a pending account becomes active by       *)
(* completing, not by an administrator's decision.                         *)
OnlyOnboardingGrants ==
    [][\A a \in Accounts : capability[a] = "pending" /\ capability'[a] = "active" =>
         \E r \in Requests : request[r] \in Completing /\ request[r].account = a]_vars

(* Enabling "must not reset a profile somebody has filled in": no write of *)
(* an EnableFreelanceProfile call finds a complete profile.                *)
EnableKeepsProfile ==
    [][\A r \in Requests :
         request[r].does = "enable" /\ WriteProfile(r) => ~complete[request[r].account]]_vars

(* The audit entry of setCapability gives "the real previous state [...]   *)
(* rather than asserting a transition that may not have happened": when    *)
(* it writes, the capability is the one it read.                           *)
AuditTellsWhatChanged ==
    [][\A r \in Requests :
         SetFreelancerCapability(r) => capability[request[r].account] = request[r].from]_vars
=============================================================================
