-------------------------------- MODULE Services --------------------------------
(***************************************************************************)
(* The parts of the program that share no state with each other, side by   *)
(* side: an execution is one of one part.                                  *)
(***************************************************************************)
EXTENDS RemoteTrust, SignedRequests, ColdStorage, Tagging, Access, LoginLimit, Decisions

VARIABLE part

Parts == {"trust", "signed", "cold", "tags", "access", "login", "decisions"}

servicesVars ==
    <<part, trustVars, signedVars, coldVars, tagVars, accessVars, limitVars, decisionVars>>

\* The parts that do not run start in one of their initial states.
ServicesInit ==
    /\ part \in Parts
    /\ TrustInit /\ TagInit /\ AccessInit /\ LimitInit
    /\ SignedInit /\ (part = "signed" \/ \A r \in Requests : stamp[r] = 0)
    /\ ColdInit /\ (part = "cold" \/ op = CHOOSE o \in Ops : TRUE)
    /\ DecisionInit
    /\ \/ part = "decisions"
       \/ /\ ~linking /\ ~darwin /\ typed /\ criteria = CHOOSE c \in CriteriaSets : TRUE
          /\ \A l \in Locations : room[l] = CHOOSE r \in Room : TRUE

ServicesNext ==
    /\ UNCHANGED part
    /\ \/ /\ part = "trust" /\ TrustNext
          /\ UNCHANGED <<signedVars, coldVars, tagVars, accessVars, limitVars, decisionVars>>
       \/ /\ part = "signed" /\ SignedNext
          /\ UNCHANGED <<trustVars, coldVars, tagVars, accessVars, limitVars, decisionVars>>
       \/ /\ part = "cold" /\ ColdNext
          /\ UNCHANGED <<trustVars, signedVars, tagVars, accessVars, limitVars, decisionVars>>
       \/ /\ part = "tags" /\ TagNext
          /\ UNCHANGED <<trustVars, signedVars, coldVars, accessVars, limitVars, decisionVars>>
       \/ /\ part = "access" /\ AccessNext
          /\ UNCHANGED <<trustVars, signedVars, coldVars, tagVars, limitVars, decisionVars>>
       \/ /\ part = "login" /\ LimitNext
          /\ UNCHANGED <<trustVars, signedVars, coldVars, tagVars, accessVars, decisionVars>>
       \/ /\ part = "decisions" /\ DecisionNext
          /\ UNCHANGED <<trustVars, signedVars, coldVars, tagVars, accessVars, limitVars>>

ServicesSpec == ServicesInit /\ [][ServicesNext]_servicesVars

-----------------------------------------------------------------------------
\* Every part keeps to its types.
ServicesTypeOK ==
    /\ TrustTypeOK /\ SignedTypeOK /\ ColdTypeOK /\ TagTypeOK
    /\ AccessTypeOK /\ LimitTypeOK /\ DecisionTypeOK
=============================================================================
