--------------------------- MODULE ProviderOutage ---------------------------
(***************************************************************************)
(* One provider that is reached by its agent's connection, from an outage to    *)
(* its recovery.  Five parties write its row: the edges of the agent hub         *)
(* (agent/hub.go), its frames, the health pass (scheduler/health.go and          *)
(* admin/provider/check.go), the recovery of the instances, periodic or          *)
(* requested (scheduler/instance_recovery*.go), and a starting process           *)
(* (agent/init.go).  Only the edges share a lock; the others read the row and     *)
(* write it later.  A freeze here is the automatic one.                         *)
(***************************************************************************)
EXTENDS Naturals

CONSTANTS
    Threshold,   \* autoFreezeThreshold: inactive passes in a row
    MaxReboots   \* bound: ends of the process

ASSUME OutageAssumption == Threshold \in Nat \ {0} /\ MaxReboots \in Nat

VARIABLES
    linked,     \* the hub holds a connection of the agent
    link,       \* the edge under way, and what Register read of the row
    grace,      \* IsInStartupGracePeriod
    agent, general, frozen, allow,  \* the row: agent_status, status, is_frozen, allow_claim
    recent,       \* agent_last_seen is within agentReconnectGraceWindow
    since,      \* recovery_offline_since: none, or within or beyond the window
    token, leased,  \* recovery_lease_token, and whether the lease is unexpired
    pass,       \* the health pass at this provider
    failures,   \* consecutiveFailures
    rec,        \* the two recoveries
    reboots    \* ends of the process so far

rowVars == <<agent, general, frozen, allow, recent, since>>
leaseVars == <<token, leased>>
hubSide == <<linked, link, grace, reboots>>
passVars == <<pass, failures>>
outageVars == <<hubSide, rowVars, leaseVars, passVars, rec>>

Recoveries == {"scheduled", "manual"}
Generals == {"active", "partial", "inactive"}
Unlinked == [at |-> "none", frozen |-> FALSE, inactive |-> FALSE]
NoPass == [at |-> "idle", old |-> "active", agent |-> "offline", now |-> "active",
           frozen |-> FALSE]
NoRec == [at |-> "idle", marked |-> "no"]

OutageTypeOK ==
    /\ {linked, grace, frozen, allow, recent, leased} \subseteq BOOLEAN
    /\ link \in [at : {"none", "linked", "online", "cleared", "read", "closing", "offline"},
                 frozen : BOOLEAN, inactive : BOOLEAN]
    /\ agent \in {"online", "offline"} /\ general \in Generals
    /\ since \in {"none", "short", "long"}
    /\ token \in Recoveries \cup {"none"}
    /\ pass \in [at : {"idle", "picked", "looked", "written", "read", "tracked"},
                 old : Generals, agent : {"online", "offline"}, now : Generals,
                 frozen : BOOLEAN]
    /\ failures \in 0..Threshold
    /\ rec \in [Recoveries -> [at : {"idle", "claimed", "probed", "queued"},
                               marked : {"no", "yes", "gone"}]]
    /\ reboots \in 0..MaxReboots

OutageInit ==
    /\ linked = FALSE /\ link = Unlinked /\ grace = TRUE /\ reboots = 0
    /\ agent = "offline" /\ general = "active" /\ frozen = FALSE /\ allow = TRUE
    /\ recent = FALSE /\ since = "none" /\ token = "none" /\ leased = FALSE
    /\ pass = NoPass /\ failures = 0 /\ rec = [w \in Recoveries |-> NoRec]

-----------------------------------------------------------------------------
(* The window of the outage.  A recovery completes the marker it read, never a     *)
(* later one.                                                                *)
MarkerGone == [w \in Recoveries |->
                 [rec[w] EXCEPT !.marked = IF @ = "yes" THEN "gone" ELSE @]]

RecordOffline ==
    /\ since' = IF since = "none" /\ ~leased THEN "short" ELSE since
    /\ UNCHANGED rec

ClearAny == since # "none"
ClearShort == since = "short"

ClearWindow ==
    IF ClearShort THEN since' = "none" /\ rec' = MarkerGone ELSE UNCHANGED <<since, rec>>

Ages ==
    /\ since = "short" /\ since' = "long"
    /\ UNCHANGED <<hubSide, agent, general, frozen, allow, recent, leaseVars, passVars, rec>>

LeaseExpires ==
    /\ leased /\ leased' = FALSE
    /\ UNCHANGED <<hubSide, rowVars, token, passVars, rec>>

Forget ==
    /\ recent /\ recent' = FALSE
    /\ UNCHANGED <<hubSide, agent, general, frozen, allow, since, leaseVars, passVars, rec>>

GraceEnds ==
    /\ grace /\ grace' = FALSE
    /\ UNCHANGED <<linked, link, reboots, rowVars, leaseVars, passVars, rec>>

-----------------------------------------------------------------------------
(* The edges: Register, write by write. *)
Link ==
    /\ link.at = "none"
    /\ linked' = TRUE /\ link' = [Unlinked EXCEPT !.at = "linked"]
    /\ UNCHANGED <<grace, reboots, rowVars, leaseVars, passVars, rec>>

LinkOnline ==
    /\ link.at = "linked"
    /\ link' = [link EXCEPT !.at = "online"]
    /\ agent' = "online" /\ recent' = TRUE
    /\ UNCHANGED <<linked, grace, reboots, general, frozen, allow, since, leaseVars, passVars, rec>>

LinkClear ==
    /\ link.at = "online"
    /\ link' = [link EXCEPT !.at = "cleared"]
    /\ ClearWindow
    /\ UNCHANGED <<linked, grace, reboots, agent, general, frozen, allow, recent, leaseVars, passVars>>

(* recoverProviderOnReconnect reads the row and writes what it decided. *)
LinkRead ==
    /\ link.at = "cleared"
    /\ link' = [at |-> "read", frozen |-> frozen, inactive |-> general = "inactive"]
    /\ UNCHANGED <<linked, grace, reboots, rowVars, leaseVars, passVars, rec>>

LinkWrite ==
    /\ link.at = "read"
    /\ frozen' = (frozen /\ ~link.frozen)
    /\ general' = IF link.inactive THEN "active" ELSE general
    /\ allow' = (allow \/ link.frozen \/ link.inactive)
    /\ link' = Unlinked
    /\ UNCHANGED <<linked, grace, reboots, agent, recent, since, leaseVars, passVars, rec>>

(* A frame: any of them repeats a write that is 30 s old. *)
Beat ==
    /\ linked /\ link.at = "none"
    /\ agent' = "online" /\ recent' = TRUE
    /\ UNCHANGED <<hubSide, general, frozen, allow, since, leaseVars, passVars, rec>>

Unlink ==
    /\ linked /\ link.at = "none"
    /\ linked' = FALSE /\ link' = [Unlinked EXCEPT !.at = "closing"]
    /\ UNCHANGED <<grace, reboots, rowVars, leaseVars, passVars, rec>>

UnlinkOffline ==
    /\ link.at = "closing"
    /\ link' = [link EXCEPT !.at = "offline"]
    /\ agent' = "offline"
    /\ UNCHANGED <<linked, grace, reboots, general, frozen, allow, recent, since, leaseVars, passVars, rec>>

UnlinkRecord ==
    /\ link.at = "offline"
    /\ link' = Unlinked
    /\ RecordOffline
    /\ UNCHANGED <<linked, grace, reboots, agent, general, frozen, allow, recent, leaseVars, passVars>>

-----------------------------------------------------------------------------
(* The health pass: it skips a frozen provider, whose count it may forget. *)
Skip ==
    /\ pass.at = "idle" /\ frozen /\ failures > 0
    /\ failures' = 0
    /\ UNCHANGED <<hubSide, rowVars, leaseVars, pass, rec>>

Pick ==
    /\ pass.at = "idle" /\ ~frozen /\ ~leased
    /\ pass' = [NoPass EXCEPT !.at = "picked", !.old = general]
    /\ UNCHANGED <<hubSide, rowVars, leaseVars, failures, rec>>

Downgraded == [g \in Generals |-> IF g = "active" THEN "partial" ELSE "inactive"]

(* CheckProviderHealth: the row, then the hub. *)
Look ==
    /\ pass.at = "picked"
    /\ pass' = [pass EXCEPT !.at = "looked",
                  !.agent = IF linked \/ recent THEN "online" ELSE "offline",
                  !.now = CASE linked -> "active"
                            [] ~linked /\ recent -> "partial"
                            [] ~linked /\ ~recent /\ grace -> general
                            [] OTHER -> Downgraded[general]]
    /\ UNCHANGED <<hubSide, rowVars, leaseVars, failures, rec>>

WriteHealth ==
    /\ pass.at = "looked"
    /\ agent' = pass.agent /\ general' = pass.now
    /\ pass' = [NoPass EXCEPT !.at = "written", !.old = pass.old]
    /\ UNCHANGED <<hubSide, frozen, allow, recent, since, leaseVars, failures, rec>>

Reread ==
    /\ pass.at = "written"
    /\ pass' = [pass EXCEPT !.at = "read", !.agent = agent, !.now = general, !.frozen = frozen]
    /\ UNCHANGED <<hubSide, rowVars, leaseVars, failures, rec>>

(* trackProviderRecoveryWindow, by what was read. *)
Track ==
    /\ pass.at = "read"
    /\ IF pass.agent = "online" THEN ClearWindow
       ELSE IF pass.now = "inactive" THEN RecordOffline ELSE UNCHANGED <<since, rec>>
    /\ pass' = [pass EXCEPT !.at = "tracked"]
    /\ UNCHANGED <<hubSide, agent, general, frozen, allow, recent, leaseVars, failures>>

Counted == IF pass.now = "inactive" THEN failures + 1 ELSE 0

(* Freeze, or follow a change of the status; neither looks at the row again. *)
Decide ==
    /\ pass.at = "tracked"
    /\ pass' = NoPass
    /\ IF Counted >= Threshold /\ ~pass.frozen
       THEN frozen' = TRUE /\ allow' = FALSE /\ failures' = 0
       ELSE /\ failures' = IF Counted > Threshold THEN Threshold ELSE Counted
            /\ allow' = CASE pass.now = "inactive" /\ pass.old # "inactive" -> FALSE
                          [] pass.now = "active" /\ pass.old # "active" -> TRUE
                          [] pass.now = "partial" /\ pass.old = "inactive" -> TRUE
                          [] OTHER -> allow
            /\ UNCHANGED frozen
    /\ UNCHANGED <<hubSide, agent, general, recent, since, leaseVars, rec>>

(* A failed query or the time limit of two minutes. *)
Abort ==
    /\ pass.at \in {"picked", "looked", "written"}
    /\ pass' = NoPass
    /\ UNCHANGED <<hubSide, rowVars, leaseVars, failures, rec>>

-----------------------------------------------------------------------------
(* The recoveries: the claim is one conditional update. *)
ClaimableActive(w) ==
    /\ ~leased
    /\ w = "scheduled" => since = "long" /\ agent = "online" /\ general # "inactive"

Claimable(w) ==
    /\ ~leased
    /\ w = "scheduled" => /\ since = "long" /\ agent = "online"
                          /\ general = "inactive" => frozen

Claim(w) ==
    /\ rec[w].at = "idle" /\ Claimable(w)
    /\ token' = w /\ leased' = TRUE
    /\ rec' = [rec EXCEPT ![w] = [at |-> "claimed",
                                  marked |-> IF since = "none" THEN "no" ELSE "yes"]]
    /\ UNCHANGED <<hubSide, rowVars, passVars>>

Usable(w) == agent = "online" /\ (general = "inactive" => frozen \/ w = "manual")

Probe(w) ==
    /\ rec[w].at = "claimed" /\ Usable(w) /\ linked
    /\ rec' = [rec EXCEPT ![w].at = "probed"]
    /\ UNCHANGED <<hubSide, rowVars, leaseVars, passVars>>

(* One transaction: the provider is trusted again and the starts are queued. *)
Enqueue(w) ==
    /\ rec[w].at = "probed" /\ Usable(w)
    /\ rec' = [rec EXCEPT ![w].at = "queued"]
    /\ frozen' = FALSE
    /\ allow' = (allow \/ frozen \/ general = "inactive")
    /\ general' = IF general = "inactive" THEN "active" ELSE general
    /\ UNCHANGED <<hubSide, agent, recent, since, leaseVars, passVars>>

Owns(w) == token = w

Complete(w) ==
    /\ rec[w].at = "queued" /\ Owns(w) /\ rec[w].marked # "gone"
    /\ token' = "none" /\ leased' = FALSE
    /\ IF rec[w].marked = "yes"
       THEN since' = "none" /\ rec' = [MarkerGone EXCEPT ![w] = NoRec]
       ELSE rec' = [rec EXCEPT ![w] = NoRec] /\ UNCHANGED since
    /\ UNCHANGED <<hubSide, agent, general, frozen, allow, recent, passVars>>

(* Refused, failed, or overtaken: the lease is given back if it is still its own.    *)
GiveUp(w) ==
    /\ rec[w].at # "idle"
    /\ rec' = [rec EXCEPT ![w] = NoRec]
    /\ IF Owns(w) THEN token' = "none" /\ leased' = FALSE ELSE UNCHANGED leaseVars
    /\ UNCHANGED <<hubSide, rowVars, passVars>>

-----------------------------------------------------------------------------
(* The process ends.  The next one marks who was online offline, from now on.       *)
Reboot ==
    /\ reboots < MaxReboots
    /\ reboots' = reboots + 1 /\ grace' = TRUE
    /\ linked' = FALSE /\ link' = Unlinked
    /\ agent' = "offline"
    /\ since' = IF agent = "online" /\ since = "none" THEN "short" ELSE since
    /\ pass' = NoPass /\ failures' = 0 /\ rec' = [w \in Recoveries |-> NoRec]
    /\ UNCHANGED <<general, frozen, allow, recent, leaseVars>>

EdgeGoesOn == LinkOnline \/ LinkClear \/ LinkRead \/ LinkWrite \/ UnlinkOffline \/ UnlinkRecord
PassGoesOn == Pick \/ Look \/ WriteHealth \/ Reread \/ Track \/ Decide
TimePasses == Ages \/ LeaseExpires \/ Forget \/ GraceEnds

OutageNext ==
    \/ Link \/ Unlink \/ EdgeGoesOn \/ Beat \/ TimePasses
    \/ Skip \/ PassGoesOn \/ Abort \/ Reboot
    \/ \E w \in Recoveries : Claim(w) \/ Probe(w) \/ Enqueue(w) \/ Complete(w) \/ GiveUp(w)

OutageSpec == OutageInit /\ [][OutageNext]_outageVars

(* The passes are periodic, time passes, an agent that is there sends frames, and   *)
(* queries and probes that are tried for ever succeed for ever.                   *)
OutageFairness ==
    /\ WF_outageVars(EdgeGoesOn) /\ WF_outageVars(Beat)
    /\ WF_outageVars(Forget) /\ WF_outageVars(GraceEnds) /\ WF_outageVars(LeaseExpires)
    /\ SF_outageVars(Pick) /\ SF_outageVars(Look) /\ SF_outageVars(WriteHealth)
    /\ SF_outageVars(Reread) /\ WF_outageVars(Track) /\ WF_outageVars(Decide)
    /\ SF_outageVars(Claim("scheduled")) /\ SF_outageVars(Probe("scheduled"))
    /\ SF_outageVars(Enqueue("scheduled")) /\ SF_outageVars(Complete("scheduled"))

-----------------------------------------------------------------------------
(* The marker of an outage beyond the window is taken away only by a recovery that  *)
(* has queued its starts, whatever flaps and passes come in between.               *)
LongOutageKept ==
    [][since = "long" /\ since' = "none" =>
         \E w \in Recoveries : rec[w].at = "queued" /\ token = w]_outageVars

(* An outage beyond the window is recovered when the agent stays. *)
OutageRecovered == []<>(since # "long" \/ ~linked)

(* An agent that stays away leaves a marker, even if it left under a recovery or     *)
(* while a pass that had seen it online cleared the window; or the provider is frozen. *)
OutageMarked == []<>(linked \/ since # "none" \/ frozen)

(* Both: an outage is noticed, and what it needs is done. *)
OutageSettles == OutageRecovered /\ OutageMarked
=============================================================================
