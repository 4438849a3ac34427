-------------------------- MODULE MCProviderOutage --------------------------
(* Small instances of ProviderOutage for TLC.  Either the recovery is the scheduled  *)
(* one, or administrators request theirs as well and the process may end.  In the     *)
(* latter case there are no health passes, to keep it small: no behaviour of it is   *)
(* fair, and only safety is checked in it.                                       *)
EXTENDS ProviderOutage

VARIABLE asked

Asked == grace' /\ pass' = pass
Unasked == reboots' = 0 /\ rec'["manual"] = NoRec

RunInit == OutageInit /\ asked \in BOOLEAN

OutageRun ==
    /\ RunInit
    /\ [][/\ OutageNext /\ asked' = asked
          /\ IF asked THEN Asked ELSE Unasked]_<<asked, outageVars>>

FairSpec == OutageRun /\ OutageFairness
=============================================================================
