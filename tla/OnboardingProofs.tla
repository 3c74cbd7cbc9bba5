-------------------------- MODULE OnboardingProofs --------------------------
(***************************************************************************)
(* Theorems about Onboarding, for any accounts and requests.               *)
(***************************************************************************)
EXTENDS Onboarding, TLAPS

LEMMA StartsKeepsTypes ==
    ASSUME TypeOK, NEW r \in Requests,
           NEW w \in Saving \cup Completing \cup Setting, Starts(r, w)
    PROVE  TypeOK'
  BY DEF TypeOK, Starts

LEMMA EndsKeepsTypes ==
    ASSUME TypeOK, NEW r \in Requests, Ends(r)
    PROVE  request' \in [Requests -> {Idle} \cup Saving \cup Completing \cup Setting]
  BY DEF TypeOK, Ends

(* The types, for any number of accounts and of requests at once.          *)
THEOREM TypeCorrect == Spec => []TypeOK
  <1>1. Init => TypeOK
    BY DEF Init, TypeOK, CapabilityStatus
  <1>2. TypeOK /\ [Next]_vars => TypeOK'
    <2> SUFFICES ASSUME TypeOK, [Next]_vars PROVE TypeOK'
      OBVIOUS
    <2>1. ASSUME NEW r \in Requests, NEW a \in Accounts,
                 \/ SaveProfile(r, a)
                 \/ EnableFreelanceProfile(r, a)
                 \/ CompleteOnboarding(r, a)
                 \/ \E target \in {"active", "suspended"} : SetCapability(r, a, target)
          PROVE  TypeOK'
      <3>1. capability[a] \in CapabilityStatus
        BY DEF TypeOK
      <3> QED
        BY <2>1, <3>1, StartsKeepsTypes
        DEF SaveProfile, EnableFreelanceProfile, CompleteOnboarding, SetCapability,
            Saving, Completing, Setting
    <2>2. ASSUME NEW r \in Requests, WriteProfile(r) PROVE TypeOK'
      <3>1. request[r] \in Saving
        BY <2>2 DEF WriteProfile, TypeOK, Idle, Saving, Completing, Setting
      <3> QED
        BY <2>2, <3>1, EndsKeepsTypes
        DEF WriteProfile, TypeOK, Saving, CapabilityStatus, ColumnDefault
    <2>3. ASSUME NEW r \in Requests, ActivateFreelancerCapability(r) PROVE TypeOK'
      BY <2>3, EndsKeepsTypes
      DEF ActivateFreelancerCapability, TypeOK, CapabilityStatus
    <2>4. ASSUME NEW r \in Requests, SetFreelancerCapability(r) PROVE TypeOK'
      <3>1. request[r] \in Setting
        BY <2>4 DEF SetFreelancerCapability, TypeOK, Idle, Saving, Completing, Setting
      <3> QED
        BY <2>4, <3>1, EndsKeepsTypes
        DEF SetFreelancerCapability, TypeOK, Setting, CapabilityStatus
    <2>5. ASSUME NEW r \in Requests, RequestFails(r) PROVE TypeOK'
      BY <2>5, EndsKeepsTypes DEF RequestFails, TypeOK
    <2>6. CASE UNCHANGED vars
      BY <2>6 DEF vars, TypeOK
    <2> QED
      BY <2>1, <2>2, <2>3, <2>4, <2>5, <2>6 DEF Next
  <1> QED
    BY <1>1, <1>2, PTL DEF Spec

(* A suspension ends only by an administrator's decision, whatever the     *)
(* account's own requests read before it and write after it.               *)
THEOREM SuspensionsHold == Spec => SuspensionHolds
  <1>1. TypeOK /\ [Next]_vars =>
          \A a \in Accounts : capability[a] = "suspended" /\ capability'[a] # "suspended"
                               => Reinstated(a)
    <2> SUFFICES ASSUME TypeOK, [Next]_vars, NEW a \in Accounts,
                        capability[a] = "suspended", capability'[a] # "suspended"
                 PROVE  Reinstated(a)
      OBVIOUS
    <2>1. ASSUME NEW r \in Requests, WriteProfile(r) PROVE FALSE
      BY <2>1 DEF WriteProfile, TypeOK
    <2>2. ASSUME NEW r \in Requests, ActivateFreelancerCapability(r) PROVE FALSE
      BY <2>2 DEF ActivateFreelancerCapability, Activable, TypeOK
    <2>3. ASSUME NEW r \in Requests, SetFreelancerCapability(r) PROVE Reinstated(a)
      <3>1. request[r] \in Setting
        BY <2>3 DEF SetFreelancerCapability, TypeOK, Idle, Saving, Completing, Setting
      <3>2. request[r].account = a
        BY <2>3 DEF SetFreelancerCapability, TypeOK
      <3>3. request'[r] = Idle
        BY <2>3 DEF SetFreelancerCapability, Ends, TypeOK
      <3> QED
        BY <3>1, <3>2, <3>3 DEF Reinstated
    <2> QED
      BY <2>1, <2>2, <2>3
      DEF Next, vars, Starts, SaveProfile, EnableFreelanceProfile, CompleteOnboarding,
          SetCapability, RequestFails
  <1> QED
    BY <1>1, TypeCorrect, PTL DEF Spec, SuspensionHolds
=============================================================================
