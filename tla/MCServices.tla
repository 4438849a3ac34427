----------------------------- MODULE MCServices -----------------------------
(* Small instances for TLC of five parts that are checked for safety alone: the  *)
(* hub of one agent, the sessions of one connection, the mappings of one         *)
(* provider, a redemption code, and passes over the traffic limits, whose tasks    *)
(* are left to MCTrafficLimit.  They share no state, so a behaviour is of one of   *)
(* them, and of one kind of work in it, and the others are at rest.            *)
EXTENDS AgentHub, AgentSession, PortPool, Redemption, MCTrafficLimit

VARIABLE part

servicesVars == <<part, hubVars, sessionVars, poolVars, redemptionVars, mcTrafficVars>>

HubParts == {"rows", "health", "tunnels", "discovery", "edits"}
PoolParts == {"requests", "guests"}
CodeParts == {"codes", "edited codes"}

ServicesInit ==
    /\ HubInit /\ SessionInit /\ PortPoolInit /\ RedemptionInit /\ MCInit
    /\ part \in HubParts \cup PoolParts \cup CodeParts \cup {"session", "limits"}
    /\ part # "limits" => tier = "none"

(* Failures of the database, late frames and the ping loop go with the rows. *)
Plain == faults' = faults /\ pinger' = NoConn /\ late' = {} /\ (part = "discovery" \/ reboots' = 0)

HubPart ==
    \/ ConnStep /\ (part = "rows" \/ Plain)
    \/ part = "health" /\ HealthStep
    \/ part = "tunnels" /\ TunnelStep
    \/ part = "discovery" /\ DiscoveryStep
    \/ part = "edits" /\ EditStep

(* Requests cross each other, or one of them crosses what becomes of the guests. *)
SomeReq == CHOOSE q \in Reqs : TRUE
PoolPart ==
    /\ PortPoolNext
    /\ part = "requests" => guest' = guest
    /\ part = "guests" => \A q \in Reqs \ {SomeReq} : req'[q] = NoReq

(* A code is deleted by administrators, or its instance is edited by them. *)
CodePart ==
    /\ RedemptionNext
    /\ part = "codes" => copies' = copies
    /\ part = "edited codes" => plan' = plan

ServicesNext ==
    /\ part' = part
    /\ part # "limits" => UNCHANGED mcTrafficVars
    /\ \/ part \in HubParts /\ HubPart /\ UNCHANGED <<sessionVars, poolVars, redemptionVars>>
       \/ part = "session" /\ SessionNext /\ UNCHANGED <<hubVars, poolVars, redemptionVars>>
       \/ part \in PoolParts /\ PoolPart /\ UNCHANGED <<hubVars, sessionVars, redemptionVars>>
       \/ part \in CodeParts /\ CodePart /\ UNCHANGED <<hubVars, sessionVars, poolVars>>
       \/ /\ part = "limits" /\ MCNext
          /\ UNCHANGED <<hubVars, sessionVars, poolVars, redemptionVars>>

ServicesSpec == ServicesInit /\ [][ServicesNext]_servicesVars
=============================================================================
