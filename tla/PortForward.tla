------------------------------ MODULE PortForward ------------------------------
(***************************************************************************)
(* The controller's own port forwards of one agent provider                *)
(* (src/server/service/agent/tunnel_proxy.go).  A row of mapping type      *)
(* "controller" asks the controller to listen on a port and to carry every *)
(* connection through the agent's tunnel.  Four goroutines start and stop  *)
(* listeners: the request that creates a mapping, the task that deletes    *)
(* one, the holder of recoveryMu (the periodic check, the recovery after a *)
(* reconnect, the stop after a disconnect), and the listeners themselves,  *)
(* which leave the map when they end.                                      *)
(*                                                                         *)
(* Only rows that share nothing but the host port interact, so a recovery  *)
(* handles its rows one after the other, in any order.  Every listener is  *)
(* a member of Socks; an id is used again once nobody refers to it.        *)
(***************************************************************************)
EXTENDS Naturals, FiniteSets, Functions

CONSTANTS Ports,       \* ids of controller mappings
          Addr,        \* Addr[p]: the host port that row p asks for
          Socks,       \* listeners
          None,
          MaxConns,    \* connections the agent makes
          MaxBreaks,   \* listeners that break and waits that time out
          MaxRestarts,
          MaxRepair,   \* maxRepairFailCount
          Retries        \* attempts of RestartControllerPortForward at a busy port

ASSUME PortForwardAssumption ==
    /\ None \notin Ports \cup Socks
    /\ MaxConns \in Nat /\ MaxBreaks \in Nat /\ MaxRestarts \in Nat /\ MaxRepair \in Nat
    /\ Retries \in Nat \ {0}

VARIABLES portStatus,      \* Port.status; "none" before the insertion, "gone" after the hard delete
          known,    \* ctrlListeners
          sock,     \* the listeners: their row, the connection of their tunnel manager, their stage
          run,      \* what the request, the task and the holder of recoveryMu are doing
          hubLink,     \* the hub: the published connection, the last one made, the edge under way
          fails,    \* portRepairFailCount
          breaks, restarts

netVars == <<known, sock>>
runVars == <<run, fails>>
linkVars == <<hubLink, breaks, restarts>>
forwardVars == <<portStatus, known, sock, run, hubLink, fails, breaks, restarts>>

Actors == {"request", "task", "holder"}
Recovered == {"active", "pending"}                       \* controllerPortRecoverStatuses
Exists(p) == portStatus[p] \notin {"none", "gone"}
NoSock == [port |-> None, conn |-> 0, st |-> "free", stop |-> FALSE]
AtRest == [op |-> "none", todo |-> {}, seen |-> [p \in Ports |-> "none"],
         port |-> None, at |-> "next", sock |-> None, tries |-> 0]

(***************************************************************************)
(* A status written WHERE id = ? touches nothing once the row is deleted.  *)
(***************************************************************************)
Recorded(p, status) == IF Exists(p) THEN [portStatus EXCEPT ![p] = status] ELSE portStatus

Bound(a) == \E s \in Socks : sock[s].st \in {"bound", "up"} /\ Addr[sock[s].port] = a
Unused == {s \in Socks : sock[s].st = "free" /\ \A a \in Actors : run[a].sock # s}

Goes(a, at) == run' = [run EXCEPT ![a].at = at]

--------------------------------------------------------------------------------
(***************************************************************************)
(* Starting one listener.                                                  *)
(***************************************************************************)
\* StartControllerPortForward reads the row again; the batch recovery starts from what it read.
Reload(a) ==
    /\ run[a].at = "reload"
    /\ LET p == run[a].port IN
       IF portStatus[p] \in Recovered
       THEN run' = [run EXCEPT ![a].at = "look", ![a].seen[p] = portStatus[p]]
       ELSE Goes(a, "failed")
    /\ UNCHANGED <<portStatus, netVars, linkVars, fails>>

LookUp(a) ==
    /\ run[a].at = "look"
    /\ Goes(a, IF known[run[a].port] # None THEN "started" ELSE "listen")
    /\ UNCHANGED <<portStatus, netVars, linkVars, fails>>

Listen(a) ==
    /\ run[a].at = "listen"
    /\ IF Bound(Addr[run[a].port])
       THEN Goes(a, "in use") /\ sock' = sock
       ELSE \E s \in Unused :
              /\ sock' = [sock EXCEPT ![s] = [NoSock EXCEPT !.port = run[a].port, !.st = "bound"]]
              /\ run' = [run EXCEPT ![a].at = "attach", ![a].sock = s]
    /\ UNCHANGED <<portStatus, known, linkVars, fails>>

\* GetOrCreateTunnelManager: the manager is the one of the connection published now.
Attach(a) ==
    /\ run[a].at = "attach"
    /\ LET s == run[a].sock IN
       IF hubLink.conn = 0
       THEN /\ sock' = [sock EXCEPT ![s] = NoSock]
            /\ run' = [run EXCEPT ![a].at = "failed", ![a].sock = None]
       ELSE /\ sock' = [sock EXCEPT ![s].conn = hubLink.conn]
            /\ Goes(a, "enter")
    /\ UNCHANGED <<portStatus, known, linkVars, fails>>

Taken(p) == known[p] # None

Enter(a) ==
    /\ run[a].at = "enter"
    /\ LET p == run[a].port
           s == run[a].sock
       IN IF Taken(p)
          THEN /\ sock' = [sock EXCEPT ![s] = NoSock]
               /\ run' = [run EXCEPT ![a].at = "started", ![a].sock = None]
               /\ known' = known
          ELSE /\ known' = [known EXCEPT ![p] = s]
               /\ Goes(a, "serve")
               /\ sock' = sock
    /\ UNCHANGED <<portStatus, linkVars, fails>>

\* A row read as pending becomes active, by its id alone; then the goroutine serves.
Serves(a) ==
    /\ run[a].at = "serve"
    /\ LET p == run[a].port IN
       portStatus' = IF run[a].seen[p] = "active" THEN portStatus ELSE Recorded(p, "active")
    /\ sock' = [sock EXCEPT ![run[a].sock].st = "up"]
    /\ run' = [run EXCEPT ![a].at = "started", ![a].sock = None]
    /\ UNCHANGED <<known, linkVars, fails>>

Starting(a) == Reload(a) \/ LookUp(a) \/ Listen(a) \/ Attach(a) \/ Enter(a) \/ Serves(a)

(***************************************************************************)
(* Stopping one listener: out of the map first, then wait for it to end.   *)
(***************************************************************************)
StopOne(a) ==
    /\ run[a].at = "stop"
    /\ LET p == run[a].port
           s == known[p]
       IN IF s = None
          THEN Goes(a, "stopped") /\ UNCHANGED netVars
          ELSE /\ sock' = [sock EXCEPT ![s].stop = TRUE]
               /\ known' = [known EXCEPT ![p] = None]
               /\ run' = [run EXCEPT ![a].at = "wait", ![a].sock = s]
    /\ UNCHANGED <<portStatus, linkVars, fails>>

Waited(a) ==
    /\ run[a].at = "wait"
    /\ \/ sock[run[a].sock].st = "free" /\ breaks' = breaks
       \/ breaks < MaxBreaks /\ breaks' = breaks + 1            \* five seconds have passed
    /\ run' = [run EXCEPT ![a].at = "stopped", ![a].sock = None]
    /\ UNCHANGED <<portStatus, netVars, hubLink, restarts, fails>>

(***************************************************************************)
(* The listener's goroutine closes the socket, and then leaves the map.    *)
(***************************************************************************)
CloseSock(s) ==
    /\ sock[s].st = "up"
    /\ \/ sock[s].stop /\ breaks' = breaks
       \/ ~sock[s].stop /\ breaks < MaxBreaks /\ breaks' = breaks + 1    \* Accept fails
    /\ sock' = [sock EXCEPT ![s].st = "shut"]
    /\ UNCHANGED <<portStatus, known, runVars, hubLink, restarts>>

LeavesMapAlways(s) == TRUE
LeavesMap(s) == known[sock[s].port] = s

Exit(s) ==
    /\ sock[s].st = "shut"
    /\ known' = IF LeavesMap(s) THEN [known EXCEPT ![sock[s].port] = None] ELSE known
    /\ sock' = [sock EXCEPT ![s] = NoSock]
    /\ UNCHANGED <<portStatus, runVars, linkVars>>

--------------------------------------------------------------------------------
(***************************************************************************)
(* The request that creates a mapping, under controllerPortAllocateMu: no  *)
(* row of the table holds the port.  The row is inserted before the        *)
(* listener starts and deleted outright when it cannot start.              *)
(***************************************************************************)
Create(p) ==
    /\ run["request"].op = "none" /\ portStatus[p] = "none"
    /\ \A q \in Ports : Addr[q] = Addr[p] => ~Exists(q)
    /\ portStatus' = [portStatus EXCEPT ![p] = "pending"]
    /\ run' = [run EXCEPT !["request"] = [AtRest EXCEPT !.op = "create", !.port = p, !.at = "reload"]]
    /\ UNCHANGED <<netVars, linkVars, fails>>

CreateEnds ==
    /\ run["request"].at \in {"started", "failed", "in use"}
    /\ LET p == run["request"].port IN
       portStatus' = IF run["request"].at = "started" THEN Recorded(p, "active") ELSE [portStatus EXCEPT ![p] = "gone"]
    /\ run' = [run EXCEPT !["request"] = AtRest]
    /\ UNCHANGED <<netVars, linkVars, fails>>

\* DeletePortMappingWithTask marks the row and queues a task, which the pool of workers may never run.
AskDelete(p) ==
    /\ Exists(p)
    /\ portStatus' = [portStatus EXCEPT ![p] = "deleting"]
    /\ UNCHANGED <<netVars, runVars, linkVars>>

\* The delete task, or the deletion of the instance, which removes every mapping it has.
BeginDelete(p) ==
    /\ run["task"].op = "none"
    /\ Exists(p)
    /\ run' = [run EXCEPT !["task"] = [AtRest EXCEPT !.op = "delete", !.port = p, !.at = "stop"]]
    /\ UNCHANGED <<portStatus, netVars, linkVars, fails>>

DeleteEnds ==
    /\ run["task"].at = "stopped"
    /\ portStatus' = [portStatus EXCEPT ![run["task"].port] = "gone"]
    /\ run' = [run EXCEPT !["task"] = AtRest]
    /\ UNCHANGED <<netVars, linkVars, fails>>

--------------------------------------------------------------------------------
(***************************************************************************)
(* The holder of recoveryMu.  Each pass reads the rows once and works on   *)
(* what it read.                                                           *)
(***************************************************************************)
Pass(op) ==
    /\ run["holder"].op = "none"
    /\ run' = [run EXCEPT !["holder"] =
                 [AtRest EXCEPT !.op = op, !.todo = {p \in Ports : portStatus[p] \in Recovered},
                              !.seen = [p \in Ports |-> IF portStatus[p] \in Recovered THEN portStatus[p] ELSE "none"]]]

\* RecoverAllControllerPortForwards, the reconnect of the agent, a recovered provider.
BeginEnsure == Pass("ensure") /\ UNCHANGED <<portStatus, netVars, linkVars, fails>>

\* CheckAndRepairControllerPortForwards; counts of rows that are no longer wanted are forgotten.
BeginCheck ==
    /\ Pass("orphans")
    /\ fails' = [p \in Ports |-> IF portStatus[p] \in Recovered THEN fails[p] ELSE 0]
    /\ UNCHANGED <<portStatus, netVars, linkVars>>

Orphans == {p \in Ports : known[p] # None /\ run["holder"].seen[p] = "none"}

\* The listeners are compared with the rows after the rows were read.
FindOrphans ==
    /\ run["holder"].op = "orphans" /\ run["holder"].at = "next"
    /\ run' = [run EXCEPT !["holder"].op = "retire", !["holder"].todo = Orphans]
    /\ UNCHANGED <<portStatus, netVars, linkVars, fails>>

Wanted == {p \in Ports : run["holder"].seen[p] # "none"}

OrphansRetired ==
    /\ run["holder"].op = "retire" /\ run["holder"].at = "next" /\ run["holder"].todo = {}
    /\ run' = [run EXCEPT !["holder"].op = "repair", !["holder"].todo = Wanted]
    /\ UNCHANGED <<portStatus, netVars, linkVars, fails>>

\* The next row of a pass that starts, or stops, without looking at it first.
NextOne(p) ==
    /\ run["holder"].at = "next" /\ p \in run["holder"].todo
    /\ run["holder"].op \in {"ensure", "retire", "disconnect"}
    /\ run' = [run EXCEPT !["holder"].todo = @ \ {p}, !["holder"].port = p,
                          !["holder"].at = IF run["holder"].op = "ensure" THEN "look" ELSE "stop"]
    /\ UNCHANGED <<portStatus, netVars, linkVars, fails>>

GivenUpSilently(p) == portStatus
GivenUp(p) == Recorded(p, "error")

\* The next row of a check: running, waiting for its agent, given up, or to be restarted.
RepairNext(p) ==
    /\ run["holder"].op = "repair" /\ run["holder"].at = "next" /\ p \in run["holder"].todo
    /\ LET skip == run' = [run EXCEPT !["holder"].todo = @ \ {p}] IN
       \/ /\ known[p] # None /\ skip
          /\ portStatus' = IF run["holder"].seen[p] = "active" THEN portStatus ELSE Recorded(p, "active")
          /\ fails' = [fails EXCEPT ![p] = 0]
       \/ known[p] = None /\ hubLink.conn = 0 /\ skip /\ UNCHANGED <<portStatus, fails>>
       \/ /\ known[p] = None /\ hubLink.conn # 0 /\ fails[p] >= MaxRepair /\ skip
          /\ portStatus' = GivenUp(p) /\ fails' = fails
       \/ /\ known[p] = None /\ hubLink.conn # 0 /\ fails[p] < MaxRepair
          /\ run' = [run EXCEPT !["holder"].todo = @ \ {p}, !["holder"].port = p, !["holder"].at = "stop"]
          /\ UNCHANGED <<portStatus, fails>>
    /\ UNCHANGED <<netVars, linkVars>>

TriesLeft(h) == h.tries < Retries

\* One row is done; RestartControllerPortForward starts what it stopped, and tries a busy port again.
OneDone ==
    /\ run["holder"].at \in {"started", "failed", "in use", "stopped"}
    /\ LET h == run["holder"]
           again == h.op = "repair" /\ (h.at = "stopped" \/ (h.at = "in use" /\ TriesLeft(h)))
       IN \/ /\ again
             /\ run' = [run EXCEPT !["holder"].at = "reload", !["holder"].tries = @ + 1]
             /\ fails' = fails
          \/ /\ ~again
             /\ run' = [run EXCEPT !["holder"].at = "next", !["holder"].tries = 0]
             /\ fails' = IF h.op # "repair" THEN fails
                         ELSE [fails EXCEPT ![h.port] = IF h.at = "started" THEN 0 ELSE @ + 1]
    /\ UNCHANGED <<portStatus, netVars, linkVars>>

PassEnds ==
    /\ run["holder"].op \in {"ensure", "repair", "disconnect"}
    /\ run["holder"].at = "next" /\ run["holder"].todo = {}
    /\ run' = [run EXCEPT !["holder"] = AtRest]
    /\ hubLink' = IF run["holder"].op = "disconnect" THEN [hubLink EXCEPT !.edge = "stopped"] ELSE hubLink
    /\ UNCHANGED <<portStatus, netVars, fails, breaks, restarts>>

--------------------------------------------------------------------------------
(***************************************************************************)
(* The connection's edges.  The old connection is withdrawn, its tunnel    *)
(* manager closed and its listeners stopped before another is published.   *)
(***************************************************************************)
Connect ==
    /\ hubLink.edge \in {"none", "stopped"} /\ hubLink.conn = 0 /\ hubLink.last < MaxConns
    /\ hubLink' = [conn |-> hubLink.last + 1, last |-> hubLink.last + 1, edge |-> "none"]
    /\ UNCHANGED <<portStatus, netVars, runVars, breaks, restarts>>

Withdraw ==
    /\ hubLink.edge = "none" /\ hubLink.conn # 0
    /\ hubLink' = [hubLink EXCEPT !.conn = 0, !.edge = "withdrawn"]
    /\ UNCHANGED <<portStatus, netVars, runVars, breaks, restarts>>

\* StopControllerPortForwardsByProvider
StopForwards ==
    /\ hubLink.edge = "withdrawn"
    /\ Pass("disconnect")
    /\ hubLink' = [hubLink EXCEPT !.edge = "stopping"]
    /\ UNCHANGED <<portStatus, netVars, fails, breaks, restarts>>

\* The controller stops and starts: the rows survive.
Restart ==
    /\ restarts < MaxRestarts
    /\ restarts' = restarts + 1
    /\ known' = [p \in Ports |-> None] /\ sock' = [s \in Socks |-> NoSock]
    /\ run' = [a \in Actors |-> AtRest] /\ fails' = [p \in Ports |-> 0]
    /\ hubLink' = [hubLink EXCEPT !.conn = 0, !.edge = "none"]
    /\ UNCHANGED <<portStatus, breaks>>

--------------------------------------------------------------------------------
PortForwardInit ==
    /\ portStatus = [p \in Ports |-> "none"]
    /\ known = [p \in Ports |-> None] /\ sock = [s \in Socks |-> NoSock]
    /\ run = [a \in Actors |-> AtRest] /\ fails = [p \in Ports |-> 0]
    /\ hubLink = [conn |-> 0, last |-> 0, edge |-> "none"]
    /\ breaks = 0 /\ restarts = 0

HolderStep ==
    \/ Starting("holder") \/ StopOne("holder") \/ Waited("holder")
    \/ FindOrphans \/ OrphansRetired \/ OneDone \/ PassEnds
    \/ \E p \in Ports : NextOne(p) \/ RepairNext(p)

PortForwardNext ==
    \/ \E p \in Ports : Create(p) \/ AskDelete(p) \/ BeginDelete(p)
    \/ Starting("request") \/ CreateEnds
    \/ StopOne("task") \/ Waited("task") \/ DeleteEnds
    \/ BeginEnsure \/ BeginCheck \/ HolderStep
    \/ \E s \in Socks : CloseSock(s) \/ Exit(s)
    \/ Connect \/ Withdraw \/ StopForwards \/ Restart

(***************************************************************************)
(* Goroutines run on, the check is periodic, an edge is finished by the    *)
(* goroutine that began it, and a Go mutex does not pass over a waiter for *)
(* ever (SF).  Requests, connections and failures owe nothing.             *)
(***************************************************************************)
PortForwardFairness ==
    /\ WF_forwardVars(Starting("request") \/ CreateEnds)
    /\ WF_forwardVars(StopOne("task") \/ Waited("task") \/ DeleteEnds)
    /\ WF_forwardVars(HolderStep)
    /\ SF_forwardVars(BeginCheck /\ \E p \in Ports : portStatus[p] # "none")
    /\ SF_forwardVars(StopForwards)
    /\ \A s \in Socks : WF_forwardVars((sock[s].stop /\ CloseSock(s)) \/ Exit(s))

--------------------------------------------------------------------------------
PortForwardTypeOK ==
    /\ portStatus \in [Ports -> {"none", "pending", "active", "deleting", "error", "gone"}]
    /\ known \in [Ports -> Socks \cup {None}]
    /\ sock \in [Socks -> [port : Ports \cup {None}, conn : 0..MaxConns,
                           st : {"free", "bound", "up", "shut"}, stop : BOOLEAN]]
    /\ \A a \in Actors :
         /\ run[a].todo \subseteq Ports /\ run[a].port \in Ports \cup {None}
         /\ run[a].sock \in Socks \cup {None} /\ run[a].tries \in 0..Retries
         /\ (run[a].op = "none" => run[a] = AtRest)
    /\ hubLink \in [conn : 0..MaxConns, last : 0..MaxConns,
                 edge : {"none", "withdrawn", "stopping", "stopped"}]
    /\ fails \in [Ports -> 0..MaxRepair]
    /\ breaks \in 0..MaxBreaks /\ restarts \in 0..MaxRestarts

(***************************************************************************)
(* A listener that serves and was not told to stop is the one the map      *)
(* knows for its row: otherwise nothing could ever stop it, and its port   *)
(* would be held until the controller restarts.                            *)
(***************************************************************************)
ServingIsKnown == \A s \in Socks : sock[s].st = "up" /\ ~sock[s].stop => known[sock[s].port] = s

(***************************************************************************)
(* A listener whose row was deleted or given up under it (a recovery that  *)
(* read the row earlier, a failed request that deleted it) is found by the *)
(* periodic check and stopped.                                             *)
(***************************************************************************)
OrphansStop ==
    \A p \in Ports : (known[p] # None /\ portStatus[p] \in {"gone", "error"})
                         ~> (known[p] = None \/ portStatus[p] \notin {"gone", "error"})

(***************************************************************************)
(* An active mapping whose agent is connected listens again, or is marked  *)
(* as failing, or the agent goes: also when a check took its listener for  *)
(* an orphan because it had read the rows before the row was there.        *)
(***************************************************************************)
ActiveListens ==
    \A p \in Ports : (portStatus[p] = "active" /\ hubLink.conn # 0)
                         ~> (known[p] # None \/ portStatus[p] # "active" \/ hubLink.conn = 0)

\* Both: what the map holds and what the rows ask for come together again.
ForwardsSettle == OrphansStop /\ ActiveListens

PortForwardSpec == PortForwardInit /\ [][PortForwardNext]_forwardVars
================================================================================
