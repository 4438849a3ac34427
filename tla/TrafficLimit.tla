---------------------------- MODULE TrafficLimit ----------------------------
(***************************************************************************)
(* The three-tier traffic limit (src/server/service/traffic/three_tier_*.go,  *)
(* limit.go, operation_guard.go).  A pass looks at the quota of providers, of  *)
(* users and of instances, limits what has gone over its quota and lifts the   *)
(* limit of what has not, one short transaction for each; what it acts on it    *)
(* has read before.  The scheduler's sweep goes through all of them, resets the  *)
(* providers whose cycle has ended and restarts what the policy had stopped; a   *)
(* start request goes through its own three first; other passes look at one.    *)
(* Beside them an administrator edits a provider, a user or an instance: the edit  *)
(* reads the row and saves all of its columns later, the limits of then included.  *)
(***************************************************************************)
EXTENDS InstancePower, FiniteSets

CONSTANTS
    Users, Providers,
    OwnerOf, HostOf,  \* the user and the provider of every instance
    Passes,           \* bound: passes under way at once
    Sweeper           \* the one that is the scheduler's (trafficCheckMu)

Objects == Users \cup Providers \cup Instances

ASSUME TrafficAssumption ==
    /\ OwnerOf \in [Instances -> Users] /\ HostOf \in [Instances -> Providers]
    /\ Users \cap Providers = {} /\ Users \cap Instances = {} /\ Providers \cap Instances = {}
    /\ Sweeper \in Passes

VARIABLES
    over,     \* the objects whose usage is at their quota, where their traffic is controlled
    absent,   \* the users and providers a sweep leaves out: disabled, unreachable
    policy,   \* traffic_over_limit_action of every provider
    limited,  \* traffic_limited of users and providers
    reason,   \* traffic_limit_reason; traffic_limited of an instance says that there is one
    frozen,   \* is_frozen and frozen_reason
    marked,   \* traffic_stopped
    pass,     \* the passes
    draft,    \* the row that an edit has read and is going to save; {} without one
    revived   \* what a stale save gave a limit of before, or took the flag of one that holds:
              \* until that row is limited or lifted again

limitVars == <<limited, reason, frozen, marked, revived>>
worldVars == <<over, absent, policy, draft>>
trafficVars == <<powerVars, limitVars, worldVars, pass>>

Policies == {"stop", "freeze", "mark"}     \* speed_limit marks as well
Tiers == {"provider", "user", "instance"}
Tier(o) == IF o \in Providers THEN "provider" ELSE IF o \in Users THEN "user" ELSE "instance"
Of(o) == {i \in Instances : o \in {i, OwnerOf[i], HostOf[i]}}
Running == {i \in Instances : status[i] = "running"}

Drafts == [of : Users \cup Providers, limited : BOOLEAN] \cup
          [of : Instances, reason : Tiers \cup {""}, frozen : {"no", "traffic", "other"},
           marked : BOOLEAN]

Stages == {"reset", "recover", "ask", "reserve", "idle"} \cup Tiers
NoPass == [stage |-> "idle", goal |-> "none", of |-> {}, at |-> "judge", limit |-> {}, lift |-> {},
           up |-> {}, how |-> <<>>, on |-> {}, stops |-> {}]

TrafficTypeOK ==
    /\ PowerTypeOK
    /\ over \subseteq Objects /\ absent \subseteq Users \cup Providers
    /\ policy \in [Providers -> Policies]
    /\ limited \subseteq Users \cup Providers
    /\ reason \in [Instances -> Tiers \cup {""}]
    /\ frozen \in [Instances -> {"no", "traffic", "other"}]
    /\ marked \subseteq Instances
    /\ pass \in [Passes -> [stage : Stages, goal : {"none", "sweep", "check", "start", "stop"},
                            of : SUBSET Objects, at : {"judge", "each", "act"},
                            limit : SUBSET Objects, lift : SUBSET Objects, up : SUBSET Instances,
                            how : [Providers -> Policies] \cup {<<>>},
                            on : SUBSET Objects, stops : SUBSET Instances]]
    /\ draft \subseteq Drafts /\ revived \subseteq Objects

TrafficInit ==
    /\ PowerInit
    /\ over = {} /\ absent = {} /\ policy \in [Providers -> Policies]
    /\ limited = {} /\ reason = [i \in Instances |-> ""]
    /\ frozen = [i \in Instances |-> "no"] /\ marked = {}
    /\ pass = [q \in Passes |-> NoPass] /\ draft = {} /\ revived = {}

-----------------------------------------------------------------------------
(* What the transactions write *)

ClearsFlag(o, A) ==     \* mutant: the instances keep the limit of their user or provider
    /\ limited' = limited \ {o}
    /\ reason' = [i \in Instances |-> IF i = o THEN "" ELSE reason[i]]
    /\ UNCHANGED <<frozen, revived>>

(* unlimitProviderInstances, unlimitUserInstances, unlimitInstance,                  *)
(* resetProviderTrafficLimitState: A are the instances that lose their reason.         *)
Clears(o, A) ==
    /\ limited' = limited \ {o}
    /\ reason' = [i \in Instances |-> IF i \in A THEN "" ELSE reason[i]]
    /\ frozen' = [i \in Instances |-> IF i \in Of(o) /\ frozen[i] = "traffic" /\ reason'[i] = ""
                                      THEN "no" ELSE frozen[i]]
    /\ revived' = revived \ (A \cup {o})

Reasoned(o) == IF o \in Instances THEN {o} ELSE {i \in Of(o) : reason[i] = Tier(o)}
Lifted(o) == Clears(o, Reasoned(o)) /\ UNCHANGED <<powerVars, marked>>
Reset(p) == Clears(p, Of(p)) /\ UNCHANGED <<powerVars, marked>>

(* limitProviderInstances, limitUserInstances, limitInstanceWithAction.  A provider's     *)
(* limit outranks a user's when that is written, and not when it is an instance's.       *)
Written(o) == IF o \in Users THEN {i \in Of(o) : reason[i] # "provider"} ELSE Of(o)
ToStopOnce(o, how, running) ==   \* mutant: what is limited already is not stopped again
    {i \in running \cap Of(o) : how[HostOf[i]] = "stop" /\ reason[i] = ""}
ToStop(o, how, running) == {i \in running \cap Of(o) : how[HostOf[i]] = "stop"}

Flagged(o) == IF o \in Instances THEN limited ELSE limited \cup {o}
Limited(o, how, running) ==
    LET S == Written(o)
        down == ToStop(o, how, running) IN
    /\ HasRoom(down)
    /\ limited' = Flagged(o)
    /\ reason' = [i \in Instances |-> IF i \in S THEN Tier(o) ELSE reason[i]]
    /\ frozen' = [i \in Instances |->
                     IF i \in S /\ how[HostOf[i]] = "freeze" THEN "traffic" ELSE frozen[i]]
    /\ marked' = (marked \ S) \cup (S \cap down)
    /\ status' = [i \in Instances |-> IF i \in S \cap down THEN "stopped" ELSE status[i]]
    /\ task' = Queued(down, "stop")
    /\ revived' = revived \ (S \cup {o})
    /\ UNCHANGED runs

-----------------------------------------------------------------------------
(* The passes *)

Begins(q, stage, goal, of) ==
    /\ pass[q] = NoPass
    /\ pass' = [pass EXCEPT ![q] = [NoPass EXCEPT !.stage = stage, !.goal = goal, !.of = of]]

(* CheckAllTrafficLimits *)
Sweeps(q) ==
    /\ Begins(q, "reset", "sweep", Objects \ absent)
    /\ UNCHANGED <<powerVars, limitVars, worldVars>>

(* CheckUserTrafficLimit, CheckProviderTrafficLimit: an event, a report, an administrator. *)
Checks(q, o) ==
    /\ Begins(q, Tier(o), "check", {o})
    /\ UNCHANGED <<powerVars, limitVars, worldVars>>

(* InstanceAction: a start refreshes the three limits first. *)
Requests(q, i, kind) ==
    /\ Reservable(i, kind) /\ frozen[i] = "no"
    /\ IF kind = "start" THEN Begins(q, "provider", kind, {i, OwnerOf[i], HostOf[i]})
                         ELSE Begins(q, "ask", kind, {i})
    /\ UNCHANGED <<powerVars, limitVars, worldVars>>

(* RemoveUserTrafficLimit, RemoveProviderTrafficLimit *)
AdminLifts(q, o) ==
    /\ Begins(q, "recover", "sweep", {})
    /\ Lifted(o)
    /\ UNCHANGED worldVars

NextStage(q) ==
    CASE pass[q].goal = "check" -> "idle"
      [] pass[q].stage = "reset" -> "provider"
      [] pass[q].stage = "provider" -> "user"
      [] pass[q].stage = "user" -> "instance"
      [] pass[q].stage = "instance" /\ pass[q].goal = "sweep" -> "recover"
      [] pass[q].stage = "instance" /\ pass[q].goal = "start" -> "ask"
      [] OTHER -> "idle"
AtStage(q, stage) ==
    IF stage = "idle" THEN NoPass
    ELSE [NoPass EXCEPT !.stage = stage, !.goal = pass[q].goal, !.of = pass[q].of]

(* The rows and the usage of a tier are read together; an instance that a higher tier    *)
(* limits is left alone.                                                    *)
JudgedOnce(q) ==   \* mutant: an instance that has a limit of its own is left alone
    {o \in pass[q].of : Tier(o) = pass[q].stage /\ (o \in Instances => reason[o] = "")}
Judged(q) == {o \in pass[q].of : /\ Tier(o) = pass[q].stage
                                 /\ o \in Instances => reason[o] \in {"", "instance"}}
HasLimit(o) == IF o \in Instances THEN reason[o] # "" ELSE o \in limited

Judges(q) ==
    /\ pass[q].stage \in Tiers /\ pass[q].at = "judge"
    /\ pass' = [pass EXCEPT ![q].at = "each",
                            ![q].limit = Judged(q) \cap over,
                            ![q].lift = {o \in Judged(q) \ over : HasLimit(o)},
                            ![q].up = Running, ![q].how = policy]
    /\ UNCHANGED <<powerVars, limitVars, worldVars>>

(* ProcessDueTrafficResets: the providers whose cycle has ended. *)
FindsDue(q) ==
    /\ pass[q].stage = "reset" /\ pass[q].at = "judge"
    /\ \E due \in SUBSET Providers : pass' = [pass EXCEPT ![q].at = "each", ![q].lift = due]
    /\ UNCHANGED <<powerVars, limitVars, worldVars>>

Lifts(q, o) ==
    /\ pass[q].at = "each" /\ o \in pass[q].lift
    /\ pass' = [pass EXCEPT ![q].lift = @ \ {o}]
    /\ IF pass[q].stage = "reset" THEN Reset(o) ELSE Lifted(o)
    /\ UNCHANGED worldVars

(* The instances of a provider or a user are read, and the gate of the tasks is asked; an   *)
(* instance acts on the row it was judged by.                                   *)
Surveys(q, o, open) ==
    /\ pass[q].at = "each" /\ o \in pass[q].limit
    /\ LET running == IF o \in Instances THEN pass[q].up ELSE Running IN
       /\ open \/ running \cap Of(o) # {}
       /\ pass' = [pass EXCEPT ![q].at = "act", ![q].on = {o}, ![q].limit = @ \ {o},
                               ![q].how = IF o \in Users THEN policy ELSE @,
                               ![q].stops = IF open THEN running \cap Of(o) ELSE {}]
    /\ UNCHANGED <<powerVars, limitVars, worldVars>>

Limits(q, o) ==
    /\ pass[q].at = "act" /\ pass[q].on = {o}
    /\ pass' = [pass EXCEPT ![q].at = "each", ![q].on = {}, ![q].stops = {}]
    /\ Limited(o, pass[q].how, pass[q].stops)
    /\ UNCHANGED worldVars

Advances(q) ==
    /\ pass[q].at = "each" /\ pass[q].limit = {} /\ pass[q].lift = {}
    /\ pass' = [pass EXCEPT ![q] = AtStage(q, NextStage(q))]
    /\ UNCHANGED <<powerVars, limitVars, worldVars>>

(* A query or a transaction fails: a sweep goes on with the next tier, a request is     *)
(* answered with the error.  Or the process ends.                              *)
Errs(q) ==
    /\ pass[q] # NoPass
    /\ \E stage \in {"idle"} \cup (IF pass[q].goal = "sweep" THEN {NextStage(q)} ELSE {}) :
          pass' = [pass EXCEPT ![q] = AtStage(q, stage)]
    /\ UNCHANGED <<powerVars, limitVars, worldVars>>

(* EnsureUserInstanceOperationAllowed, then CreateTask *)
Unlimited(i) == reason[i] = "" /\ OwnerOf[i] \notin limited /\ HostOf[i] \notin limited

Asks(q) ==
    /\ pass[q].stage = "ask"
    /\ pass' = [pass EXCEPT ![q] =
                   AtStage(q, IF \A i \in Instances \cap pass[q].of : Unlimited(i) THEN "reserve" ELSE "idle")]
    /\ UNCHANGED <<powerVars, limitVars, worldVars>>

Reserves(q, i) ==
    /\ pass[q].stage = "reserve" /\ i \in pass[q].of
    /\ ReserveInstance(i, pass[q].goal)
    /\ pass' = [pass EXCEPT ![q] = NoPass]
    /\ UNCHANGED <<runs, limitVars, worldVars>>

(* RecoverTrafficStoppedInstances *)
Recoverable == {i \in marked : status[i] = "stopped" /\ Unlimited(i) /\ Unoccupied(i)}

Finds(q) ==
    /\ pass[q].stage = "recover" /\ pass[q].at = "judge"
    /\ pass' = [pass EXCEPT ![q] = IF Recoverable = {} THEN NoPass
                                   ELSE [@ EXCEPT !.at = "act", !.limit = Recoverable]]
    /\ UNCHANGED <<powerVars, limitVars, worldVars>>

(* batchCreateStartTasks: all of them, or none and an error. *)
Restarts(q) ==
    /\ pass[q].stage = "recover" /\ pass[q].at = "act"
    /\ \A i \in pass[q].limit : i \in marked /\ status[i] = "stopped"
    /\ HasRoom(pass[q].limit)
    /\ status' = [i \in Instances |-> IF i \in pass[q].limit THEN "starting" ELSE status[i]]
    /\ marked' = marked \ pass[q].limit
    /\ task' = Queued(pass[q].limit, "start")
    /\ pass' = [pass EXCEPT ![q] = AtStage(q, "recover")]
    /\ UNCHANGED <<runs, limited, reason, frozen, revived, worldVars>>

(* The instances are not as they were found: the transaction is undone. *)
TurnedDown(q) ==
    /\ \/ /\ pass[q].stage = "recover" /\ pass[q].at = "act"
          /\ \E i \in pass[q].limit : i \notin marked \/ status[i] # "stopped"
       \/ /\ pass[q].stage = "reserve"
          /\ \E i \in Instances \cap pass[q].of : ~Reservable(i, pass[q].goal)
    /\ pass' = [pass EXCEPT ![q] = NoPass]
    /\ UNCHANGED <<powerVars, limitVars, worldVars>>

PassStep(q) ==
    \/ Judges(q) \/ FindsDue(q) \/ Advances(q) \/ Asks(q)
    \/ Finds(q) \/ Restarts(q) \/ TurnedDown(q)
    \/ \E o \in Objects : Lifts(q, o) \/ Limits(q, o) \/ \E open \in BOOLEAN : Surveys(q, o, open)
    \/ \E i \in Instances : Reserves(q, i)

-----------------------------------------------------------------------------
(* Administrators, guests and the other parts of the controller *)

(* SetUserTrafficLimit, SetProviderTrafficLimit *)
AdminLimits(o) ==
    /\ limited' = limited \cup {o}
    /\ reason' = [i \in Instances |-> IF i \in Written(o) THEN Tier(o) ELSE reason[i]]
    /\ marked' = marked \ Written(o)
    /\ revived' = revived \ (Written(o) \cup {o})
    /\ UNCHANGED <<powerVars, frozen, worldVars, pass>>

Freezes(i, how) ==
    /\ frozen' = [frozen EXCEPT ![i] = how]
    /\ UNCHANGED <<powerVars, limited, reason, marked, revived, worldVars, pass>>

(* The limits do not bind an administrator. *)
AdminAsks(i, kind) == ReserveInstance(i, kind) /\ UNCHANGED <<runs, limitVars, worldVars, pass>>

(* The periodic comparison, taken as one step: InstanceSync. *)
Reconciles(i) ==
    /\ status' = [status EXCEPT ![i] = IF runs[i] THEN "running" ELSE "stopped"]
    /\ UNCHANGED <<runs, task, limitVars, worldVars, pass>>

Uses(o) ==
    /\ over' \in {over \cup {o}, over \ {o}}
    /\ UNCHANGED <<powerVars, limitVars, absent, policy, draft, pass>>

Leaves(o) ==
    /\ absent' \in {absent \cup {o}, absent \ {o}}
    /\ UNCHANGED <<powerVars, limitVars, over, policy, draft, pass>>

(* UpdateProvider, UpdateUser, UpdateInstance: the row is read; an instance that is in the    *)
(* middle of an operation is refused.                                        *)
OpensEdit(o) ==
    /\ draft = {} /\ (o \in Instances => status[o] \notin {Busy[kind] : kind \in Kinds})
    /\ draft' = {IF o \in Instances
                 THEN [of |-> o, reason |-> reason[o], frozen |-> frozen[o], marked |-> o \in marked]
                 ELSE [of |-> o, limited |-> o \in limited]}
    /\ UNCHANGED <<powerVars, limitVars, over, absent, policy, pass>>

With(S, o, is) == IF is THEN S \cup {o} ELSE S \ {o}

(* The save writes every column: the limit that was read, and the policy asked for.       *)
SavesTier(o, to) ==
    /\ \E d \in draft : d.of = o /\ limited' = With(limited, o, d.limited)
    /\ draft' = {}
    /\ revived' = revived \cup (limited \ limited')
    /\ policy' = IF o \in Providers THEN [policy EXCEPT ![o] = to] ELSE policy
    /\ UNCHANGED <<powerVars, reason, frozen, marked, over, absent, pass>>

(* An instance gets its limit, its freeze and its mark back, and the status that was read or  *)
(* that the administrator asks for: any.                                       *)
SavesInstance(i, s) ==
    /\ \E d \in draft :
          /\ d.of = i
          /\ reason' = [reason EXCEPT ![i] = d.reason]
          /\ frozen' = [frozen EXCEPT ![i] = d.frozen]
          /\ marked' = With(marked, i, d.marked)
          /\ revived' = IF d.reason \in {"", reason[i]} THEN revived ELSE revived \cup {i}
    /\ draft' = {}
    /\ status' = [status EXCEPT ![i] = s]
    /\ UNCHANGED <<runs, task, limited, over, absent, policy, pass>>

DropsEdit ==
    /\ draft # {} /\ draft' = {}
    /\ UNCHANGED <<powerVars, limitVars, over, absent, policy, pass>>

EditsRow ==
    \/ \E o \in Objects : OpensEdit(o)
    \/ \E o \in Users \cup Providers, to \in Policies : SavesTier(o, to)
    \/ \E i \in Instances, s \in Statuses : SavesInstance(i, s)
    \/ DropsEdit

ControlStep ==
    \/ \E o \in Users \cup Providers : AdminLimits(o) \/ Leaves(o)
    \/ \E i \in Instances, how \in {"no", "other"} : Freezes(i, how)
    \/ \E i \in Instances, kind \in Kinds : AdminAsks(i, kind)
    \/ EditsRow

Others == <<limitVars, worldVars, pass>>
TrafficNext ==
    \/ \E q \in Passes : \/ Sweeps(q) \/ PassStep(q) \/ Errs(q)
                         \/ \E o \in Users \cup Providers : Checks(q, o) \/ AdminLifts(q, o)
                         \/ \E i \in Instances, kind \in Kinds : Requests(q, i, kind)
    \/ ControlStep
    \/ \E o \in Objects : Uses(o)
    \/ \E i \in Instances : Reconciles(i)
    \/ TaskStep /\ UNCHANGED Others
    \/ \E i \in Instances : GuestTurns(i) /\ UNCHANGED Others

(* The ticker of the scheduler comes back, whatever took the slot meanwhile; a node obeys    *)
(* and the comparison gets through in the end, if they are tried again and again.         *)
TrafficFairness ==
    /\ SF_trafficVars(Sweeps(Sweeper)) /\ WF_trafficVars(PassStep(Sweeper))
    /\ \A i \in Instances :
          /\ SF_trafficVars(Reconciles(i))
          /\ \A k \in Slots : /\ SF_trafficVars(Obeys(i, k) /\ UNCHANGED Others)
                             /\ WF_trafficVars(Executes(i, k) /\ UNCHANGED Others)

TrafficSpec == TrafficInit /\ [][TrafficNext]_trafficVars /\ TrafficFairness

-----------------------------------------------------------------------------
(* An instance whose limit comes from its user or provider has a user or provider that is    *)
(* limited: what is lifted there, by a reset, by another pass or by an administrator, takes  *)
(* the limits of the instances with it, whatever the passes under way had read before.     *)
(* An edit that read the one or the other row before may break that, until one of the two   *)
(* is limited or lifted again.                                               *)
Causes(i) == CASE reason[i] = "user" -> {OwnerOf[i]} [] reason[i] = "provider" -> {HostOf[i]} [] OTHER -> {}
Revived(i) == ({i} \cup Causes(i)) \cap revived # {}
FlagBehindReason == \A i \in Instances : Causes(i) \subseteq limited \/ Revived(i)

(* An instance that the traffic policy froze is limited: the freeze ends with the limit,     *)
(* on whatever tier that is lifted, and a stale edit brings back both or none.           *)
FreezeBehindLimit == \A i \in Instances : frozen[i] = "traffic" => reason[i] # ""

(* Both: neither outlives the limit it comes from.                              *)
LimitsHaveCauses == FlagBehindReason /\ FreezeBehindLimit

(* When nothing is over its quota any more, every provider and user is swept and the sweeps *)
(* get through, each limit is lifted, also one that an administrator sets again or that a     *)
(* stale edit gives back to a provider or a user.  Only an instance whose limit a stale edit  *)
(* has parted from that of its user or provider may keep it: no sweep looks at it then.    *)
SweepFails == \/ Errs(Sweeper) /\ ~PassStep(Sweeper)
              \/ \E o \in Objects : Surveys(Sweeper, o, FALSE)
SweepsGetThrough == <>[][~SweepFails]_trafficVars

LimitsLift ==
    SweepsGetThrough /\ <>[](over = {} /\ absent = {}) =>
        /\ \A o \in Users \cup Providers : []<>(o \notin limited)
        /\ \A i \in Instances : []<>(reason[i] = "" \/ Revived(i))

(* Where the policy stops what is over its quota, the guest of an instance that stays over  *)
(* its own is off again and again: a stop that failed, that was cancelled or that found the *)
(* gate closed is tried once more when the comparison has seen the guest run.  Not while     *)
(* somebody limits by hand, which stops nothing and outranks the limit of the instance, or   *)
(* has a stop task of his own under way whenever a sweep looks, and cancels it, or saves a   *)
(* status of his own; nor while the instance keeps a limit that a stale edit gave it back.   *)
Meddles ==
    \/ \E i \in Instances, s \in Statuses : SavesInstance(i, s)
    \/ \E o \in Users \cup Providers : AdminLimits(o)
    \/ \E i \in Instances, kind \in Kinds : AdminAsks(i, kind) \/ \E q \in Passes : Requests(q, i, kind)
HandsOff == <>[][~Meddles]_trafficVars

EnforcedInTheEnd ==
    SweepsGetThrough /\ HandsOff =>
        \A i \in Instances :
            <>[](i \in over /\ absent = {} /\ policy[HostOf[i]] = "stop") => []<>(~runs[i] \/ Revived(i))
=============================================================================
