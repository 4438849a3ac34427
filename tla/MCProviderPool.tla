--------------------------- MODULE MCProviderPool ---------------------------
(* Small instances of ProviderPool for TLC.                                 *)
EXTENDS ProviderPool

VARIABLE ending

Symmetry == Permutations(Tasks) \cup Permutations(Submitters)

(* While the service goes on: two submitters with a resize or an idle pass, or one    *)
(* at a time with both.  At the end of the provider or of the service: one at a time   *)
(* with a resize or an idle pass.                                              *)
Alone == Cardinality({s \in Submitters : spc'[s] # "idle"}) <= 1
Few == resizes' + idles' <= 1
GoesOn == shut' = "no" /\ want' # 0 /\ made' <= 2 /\ (Few \/ Alone)
Ending == Few /\ Alone

RunInit == Init /\ ending \in BOOLEAN

SafeSpec ==
    /\ RunInit
    /\ [][Next /\ ending' = ending /\ IF ending THEN Ending ELSE GoesOn]_<<ending, vars>>

(* Liveness: two tasks, a resize and the end of the service; pools end only with it.   *)
LiveInit == Init /\ ending = TRUE

LiveSpec ==
    /\ LiveInit
    /\ [][Next /\ ending' = ending /\ idles' = idles /\ want' # 0]_<<ending, vars>>
    /\ Fairness

=============================================================================
