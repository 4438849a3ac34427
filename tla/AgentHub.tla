------------------------------ MODULE AgentHub ------------------------------
(***************************************************************************)
(* The WebSocket connections by which the agent of one provider reaches the     *)
(* controller (server/service/agent): which of them is current, what the row     *)
(* of the provider says of it, the tunnels over it, the discovery of instances    *)
(* that waits for it, and the health pass and the edits that write the row too.   *)
(*                                                                          *)
(* The per-provider lifecycle lock serializes the edges, Register and            *)
(* unregister; the current connection, the tunnel managers and the row are       *)
(* each read without it.  An edge is a record <conn, place>.                    *)
(***************************************************************************)
EXTENDS Naturals, FiniteSets

CONSTANTS
    Conns,        \* connections the agent makes, one after the other or at once
    NoConn,
    Tunnels,      \* goroutines that open a tunnel session
    Tries,        \* attempts of triggerPendingDiscovery
    MaxFaults,    \* bound: failed database calls
    MaxMarks,     \* bound: requests for a discovery
    MaxEdits,     \* bound: administrators that edit the provider
    MaxReboots    \* bound: ends of the process

ASSUME AgentHubAssumption ==
    /\ NoConn \notin Conns /\ Tries \in Nat \ {0}
    /\ {MaxFaults, MaxMarks, MaxEdits, MaxReboots} \subseteq Nat

VARIABLES
    conns,      \* h.conns[providerID]
    tcp,        \* the underlying connection
    done,       \* connections whose doneCh is closed
    reader,     \* readLoop's place
    edge,       \* who is inside Register or unregister, and where
    pinger,     \* the connection StartPingLoop gave up
    late,       \* connections with an info frame still to be recorded
    memo, old,  \* statusPersistMemo[providerID].status, and whether 30 s have passed
    agentStatus, \* providers.agent_status
    mgr,        \* connection of tunnelMgrs[providerID]
    shut,       \* connections whose manager is closed
    handle, session,  \* what a tunnel goroutine has: a manager, a session
    marker,     \* providers.pending_discovery
    tries,      \* attempts a connection's discovery goroutine has left
    sight,      \* those that have seen their connection current
    found,      \* discovery tasks inserted
    marks,      \* requests for a discovery so far
    edit,       \* the row as an administrator's request read it
    look,       \* the status a health check has decided on and not yet written
    missed,     \* history: a write of the status was lost, or one made that was not true
    stale,      \* a saved row brought back a marker that had been consumed
    faults, edits, reboots

connVars == <<conns, tcp, done, reader, edge, pinger, late>>
statusVars == <<memo, old, agentStatus, missed>>
tunnelVars == <<mgr, shut, handle, session>>
discoveryVars == <<marker, tries, sight, found, marks, stale>>
hubBounds == <<edit, look, faults, edits, reboots>>
hubVars == <<connVars, statusVars, tunnelVars, discoveryVars, hubBounds>>

NoEdge == [conn |-> NoConn, at |-> "none"]
NoEdit == [status |-> "none", marker |-> FALSE]
Places == {"swept", "untunneled", "published", "removed", "silent"}

HubTypeOK ==
    /\ conns \in Conns \cup {NoConn} /\ pinger \in Conns \cup {NoConn}
    /\ tcp \in [Conns -> {"none", "open", "closed"}]
    /\ done \subseteq Conns /\ late \subseteq Conns /\ shut \subseteq Conns
    /\ reader \in [Conns -> {"none", "waits", "reads", "got", "leaves", "gone"}]
    /\ edge \in {NoEdge} \cup [conn : Conns, at : Places]
    /\ memo \in {"none", "online", "offline"} /\ old \in BOOLEAN /\ agentStatus \in {"online", "offline"}
    /\ mgr \in Conns \cup {NoConn}
    /\ handle \in [Tunnels -> Conns \cup {NoConn}]
    /\ session \in [Tunnels -> Conns \cup {NoConn}]
    /\ marker \in BOOLEAN /\ tries \in [Conns -> 0..Tries] /\ sight \subseteq Conns
    /\ found \in Nat /\ marks \in 0..MaxMarks
    /\ edit \in {NoEdit} \cup [status : {"online", "offline"}, marker : BOOLEAN]
    /\ missed \in BOOLEAN /\ stale \in BOOLEAN /\ look \in {"none", "online", "offline"}
    /\ faults \in 0..MaxFaults /\ edits \in 0..MaxEdits /\ reboots \in 0..MaxReboots

HubInit ==
    /\ conns = NoConn /\ pinger = NoConn /\ edge = NoEdge
    /\ tcp = [a \in Conns |-> "none"] /\ reader = [a \in Conns |-> "none"]
    /\ done = {} /\ late = {}
    /\ memo = "none" /\ old = FALSE /\ agentStatus = "offline" /\ missed = FALSE
    /\ mgr = NoConn /\ shut = {}
    /\ handle = [u \in Tunnels |-> NoConn] /\ session = [u \in Tunnels |-> NoConn]
    /\ marker = FALSE /\ tries = [a \in Conns |-> 0] /\ sight = {}
    /\ found = 0 /\ marks = 0 /\ stale = FALSE
    /\ edit = NoEdit /\ look = "none" /\ faults = 0 /\ edits = 0 /\ reboots = 0

IsCurrentAssumed(a) == TRUE
IsCurrent(a) == conns = a
Unlocked == edge = NoEdge

-----------------------------------------------------------------------------
(* Writes of the status, under the lifecycle lock.  A failed one is logged.     *)
Write(s) ==
    \/ memo' = s /\ old' = FALSE /\ agentStatus' = s /\ missed' = FALSE /\ UNCHANGED faults
    \/ /\ faults < MaxFaults
       /\ faults' = faults + 1 /\ missed' = TRUE
       /\ UNCHANGED <<memo, old, agentStatus>>

(* What is known to be in the row is written again after heartbeatPersistInterval.  *)
Due == memo # "online" \/ old

WriteOnline == IF Due THEN Write("online") ELSE UNCHANGED <<statusVars, faults>>

Age ==
    /\ memo = "online" /\ ~old
    /\ old' = TRUE
    /\ UNCHANGED <<memo, agentStatus, missed, connVars, tunnelVars, discoveryVars, hubBounds>>

-----------------------------------------------------------------------------
(* Register, on the goroutine of the HTTP request. *)
Dial(a) ==
    /\ tcp[a] = "none"
    /\ tcp' = [tcp EXCEPT ![a] = "open"]
    /\ reader' = [reader EXCEPT ![a] = "waits"]
    /\ UNCHANGED <<conns, done, edge, pinger, late, statusVars, tunnelVars,
                   discoveryVars, hubBounds>>

(* The old connection is closed and its sessions end: its own unregister will     *)
(* find that it is no longer current.                                          *)
Superseded == IF conns = NoConn THEN {} ELSE {conns}

Register(a) ==
    /\ reader[a] = "waits" /\ Unlocked
    /\ edge' = [conn |-> a, at |-> "swept"]
    /\ tcp' = [b \in Conns |-> IF b \in Superseded THEN "closed" ELSE tcp[b]]
    /\ conns' = NoConn
    /\ done' = done \cup Superseded
    /\ memo' = "none" /\ old' = FALSE
    /\ UNCHANGED <<reader, pinger, late, agentStatus, missed, tunnelVars, discoveryVars, hubBounds>>

(* RemoveTunnelManager: its sessions are told to stop. *)
RemoveTunnelsKeeping ==
    /\ shut' = IF mgr = NoConn THEN shut ELSE shut \cup {mgr}
    /\ UNCHANGED <<mgr, handle, session>>

RemoveTunnels ==
    /\ mgr' = NoConn
    /\ shut' = IF mgr = NoConn THEN shut ELSE shut \cup {mgr}
    /\ UNCHANGED <<handle, session>>

Untunnel(from, to) ==
    /\ edge.at = from
    /\ edge' = [edge EXCEPT !.at = to]
    /\ RemoveTunnels
    /\ UNCHANGED <<conns, tcp, done, reader, pinger, late, statusVars, discoveryVars, hubBounds>>

Publish ==
    /\ edge.at = "untunneled"
    /\ conns' = edge.conn
    /\ edge' = [edge EXCEPT !.at = "published"]
    /\ UNCHANGED <<tcp, done, reader, pinger, late, statusVars, tunnelVars, discoveryVars, hubBounds>>

(* The row is online; reading and the discovery begin. *)
Registered ==
    /\ edge.at = "published"
    /\ WriteOnline
    /\ reader' = [reader EXCEPT ![edge.conn] = "reads"]
    /\ tries' = [tries EXCEPT ![edge.conn] = Tries]
    /\ edge' = NoEdge
    /\ UNCHANGED <<conns, tcp, done, pinger, late, tunnelVars, marker, sight, found, marks,
                   stale, edit, look, edits, reboots>>

-----------------------------------------------------------------------------
(* The connection is lost, or closed: by the peer, a failed write, missing pongs    *)
(* or DisconnectProvider.                                                      *)
Lose(a) ==
    /\ tcp[a] = "open"
    /\ tcp' = [tcp EXCEPT ![a] = "closed"]
    /\ UNCHANGED <<conns, done, reader, edge, pinger, late, statusVars, tunnelVars,
                   discoveryVars, hubBounds>>

Receive(a) ==
    /\ reader[a] = "reads" /\ tcp[a] = "open"
    /\ reader' = [reader EXCEPT ![a] = "got"]
    /\ UNCHANGED <<conns, tcp, done, edge, pinger, late, statusVars, tunnelVars,
                   discoveryVars, hubBounds>>

(* recordInbound; an info frame is recorded by a goroutine of its own. *)
Handle(a) ==
    /\ reader[a] = "got" /\ Unlocked
    /\ \/ /\ IsCurrent(a) /\ WriteOnline
          /\ reader' = [reader EXCEPT ![a] = "reads"]
          /\ late' \in {late, late \cup {a}}
       \/ /\ ~IsCurrent(a)
          /\ reader' = [reader EXCEPT ![a] = "leaves"]
          /\ UNCHANGED <<late, statusVars, faults>>
    /\ UNCHANGED <<conns, tcp, done, edge, pinger, tunnelVars, discoveryVars, edit, look, edits, reboots>>

RecordInfo(a) ==
    /\ a \in late /\ Unlocked
    /\ late' = late \ {a}
    /\ IF IsCurrent(a) THEN WriteOnline ELSE UNCHANGED <<statusVars, faults>>
    /\ UNCHANGED <<conns, tcp, done, reader, edge, pinger, tunnelVars, discoveryVars,
                   edit, look, edits, reboots>>

ReadFails(a) ==
    /\ reader[a] = "reads" /\ tcp[a] = "closed"
    /\ reader' = [reader EXCEPT ![a] = "leaves"]
    /\ UNCHANGED <<conns, tcp, done, edge, pinger, late, statusVars, tunnelVars,
                   discoveryVars, hubBounds>>

(* StartPingLoop: a connection of its snapshot failed three times. *)
PingFails(a) ==
    /\ pinger = NoConn /\ IsCurrent(a)
    /\ pinger' = a
    /\ tcp' = [tcp EXCEPT ![a] = "closed"]
    /\ UNCHANGED <<conns, done, reader, edge, late, statusVars, tunnelVars, discoveryVars, hubBounds>>

-----------------------------------------------------------------------------
(* closeAllSessions: whoever waits on the connection is released. *)
Ended(a) == {a}

Left(a) == IF IsCurrent(a) THEN NoConn ELSE conns

(* unregister, by the read loop or by the ping loop.  Whatever is current, the     *)
(* sessions of the connection itself end.                                      *)
Unregister(a) ==
    /\ Unlocked
    /\ \/ /\ reader[a] = "leaves"
          /\ reader' = [reader EXCEPT ![a] = "gone"] /\ UNCHANGED pinger
       \/ pinger = a /\ pinger' = NoConn /\ UNCHANGED reader
    /\ done' = done \cup Ended(a)
    /\ conns' = Left(a)
    /\ IF IsCurrent(a)
       THEN edge' = [conn |-> a, at |-> "removed"] /\ memo' = "none" /\ old' = FALSE
       ELSE UNCHANGED <<edge, memo, old>>
    /\ UNCHANGED <<tcp, late, agentStatus, missed, tunnelVars, discoveryVars, hubBounds>>

Unregistered ==
    /\ edge.at = "silent"
    /\ Write("offline")
    /\ edge' = NoEdge
    /\ UNCHANGED <<conns, tcp, done, reader, pinger, late, tunnelVars, discoveryVars,
                   edit, look, edits, reboots>>

-----------------------------------------------------------------------------
(* Tunnels.  GetOrCreateTunnelManager holds h.mu until the manager is in the map;   *)
(* a manager of another connection is closed and replaced.                       *)
GetManager(u) ==
    /\ handle[u] = NoConn /\ session[u] = NoConn /\ conns # NoConn
    /\ mgr' = conns
    /\ shut' = IF mgr \in {NoConn, conns} THEN shut ELSE shut \cup {mgr}
    /\ handle' = [handle EXCEPT ![u] = conns]
    /\ UNCHANGED <<session, connVars, statusVars, discoveryVars, hubBounds>>

(* handleConn registers its session unless the manager was closed meanwhile. *)
Refused(u) == handle[u] \in shut

OpenSession(u) ==
    /\ handle[u] # NoConn
    /\ session' = [session EXCEPT ![u] = IF Refused(u) THEN NoConn ELSE handle[u]]
    /\ handle' = [handle EXCEPT ![u] = NoConn]
    /\ UNCHANGED <<mgr, shut, connVars, statusVars, discoveryVars, hubBounds>>

(* Its client went away, its manager was closed, or its connection is done. *)
EndSession(u) ==
    /\ session[u] # NoConn
    /\ session' = [session EXCEPT ![u] = NoConn]
    /\ UNCHANGED <<mgr, shut, handle, connVars, statusVars, discoveryVars, hubBounds>>

-----------------------------------------------------------------------------
(* Discovery: a new connection tries a few times, and gives up when it has been    *)
(* superseded; the task and the end of the marker are one transaction.            *)
Mark ==
    /\ marks < MaxMarks /\ ~marker
    /\ marks' = marks + 1 /\ marker' = TRUE
    /\ UNCHANGED <<tries, sight, found, stale, connVars, statusVars, tunnelVars, hubBounds>>

DiscoveryLook(a) ==
    /\ tries[a] > 0 /\ a \notin sight
    /\ IF IsCurrent(a) THEN sight' = sight \cup {a} /\ UNCHANGED tries
       ELSE tries' = [tries EXCEPT ![a] = 0] /\ UNCHANGED sight
    /\ UNCHANGED <<marker, found, marks, stale, connVars, statusVars, tunnelVars, hubBounds>>

StillPendingUnchecked == TRUE
StillPending == marker

Discover(a) ==
    /\ a \in sight
    /\ sight' = sight \ {a}
    /\ \E committed, replied \in BOOLEAN :
         /\ committed \/ ~replied
         /\ (committed /\ replied) \/ faults < MaxFaults
         /\ faults' = IF committed /\ replied THEN faults ELSE faults + 1
         /\ found' = IF committed /\ StillPending THEN found + 1 ELSE found
         /\ marker' = IF committed THEN FALSE ELSE marker
         /\ tries' = [tries EXCEPT ![a] = IF replied THEN 0 ELSE @ - 1]
    /\ UNCHANGED <<marks, stale, connVars, statusVars, tunnelVars, edit, look, edits, reboots>>

-----------------------------------------------------------------------------
(* CheckProviderHealth decides by the hub, and when no connection is current by         *)
(* whether agent_last_seen is recent, which it may be; it writes the row later.         *)
HealthLook ==
    /\ look = "none"
    /\ look' \in IF conns # NoConn THEN {"online"} ELSE {"online", "offline"}
    /\ UNCHANGED <<edit, faults, edits, reboots, connVars, statusVars, tunnelVars, discoveryVars>>

HealthWrite ==
    /\ look # "none" /\ look' = "none"
    /\ agentStatus' = look
    /\ missed' = (look # IF conns # NoConn THEN "online" ELSE "offline")
    /\ UNCHANGED <<memo, old, edit, faults, edits, reboots, connVars, tunnelVars, discoveryVars>>

(* Its write fails, or its two minutes are over. *)
HealthLost ==
    /\ look # "none" /\ look' = "none"
    /\ UNCHANGED <<edit, faults, edits, reboots, connVars, statusVars, tunnelVars, discoveryVars>>

-----------------------------------------------------------------------------
(* UpdateProvider reads the provider, and saves all of it at the end. *)
EditRead ==
    /\ edit = NoEdit /\ edits < MaxEdits
    /\ edit' = [status |-> agentStatus, marker |-> marker]
    /\ edits' = edits + 1
    /\ UNCHANGED <<look, faults, reboots, connVars, statusVars, tunnelVars, discoveryVars>>

EditSave ==
    /\ edit # NoEdit
    /\ agentStatus' = edit.status /\ marker' = edit.marker
    /\ missed' = (missed \/ agentStatus # edit.status)
    /\ stale' = (stale \/ marker # edit.marker)
    /\ edit' = NoEdit
    /\ UNCHANGED <<memo, old, tries, sight, found, marks, look, faults, edits, reboots, connVars, tunnelVars>>

-----------------------------------------------------------------------------
(* The process ends; the next one marks the agents offline before it listens. *)
Reboot ==
    /\ reboots < MaxReboots
    /\ reboots' = reboots + 1
    /\ conns' = NoConn /\ pinger' = NoConn /\ edge' = NoEdge /\ late' = {}
    /\ tcp' = [a \in Conns |-> IF tcp[a] = "none" THEN "none" ELSE "closed"]
    /\ reader' = [a \in Conns |-> IF tcp[a] = "none" THEN "none" ELSE "gone"]
    /\ done' = {a \in Conns : tcp[a] # "none"}
    /\ memo' = "none" /\ old' = FALSE
    /\ \/ agentStatus' = "offline" /\ missed' = FALSE /\ UNCHANGED faults
       \/ faults < MaxFaults /\ faults' = faults + 1 /\ missed' = TRUE /\ UNCHANGED agentStatus
    /\ mgr' = NoConn /\ shut' = {a \in Conns : tcp[a] # "none"}
    /\ handle' = [u \in Tunnels |-> NoConn] /\ session' = [u \in Tunnels |-> NoConn]
    /\ tries' = [a \in Conns |-> 0] /\ sight' = {} /\ edit' = NoEdit /\ look' = "none"
    /\ UNCHANGED <<marker, found, marks, stale, edits>>

-----------------------------------------------------------------------------
EdgeStep ==
    \/ Untunnel("swept", "untunneled") \/ Publish \/ Registered
    \/ Untunnel("removed", "silent") \/ Unregistered

ReaderStep(a) == Receive(a) \/ Handle(a) \/ ReadFails(a)

ConnStep ==
    \/ EdgeStep
    \/ \E a \in Conns : \/ Dial(a) \/ Register(a) \/ Lose(a) \/ ReaderStep(a)
                        \/ RecordInfo(a) \/ PingFails(a) \/ Unregister(a)
    \/ Age \/ Reboot

TunnelStep == \E u \in Tunnels : GetManager(u) \/ OpenSession(u) \/ EndSession(u)
DiscoveryStep == Mark \/ \E a \in Conns : DiscoveryLook(a) \/ Discover(a)
HealthStep == HealthLook \/ HealthWrite \/ HealthLost
EditStep == EditRead \/ EditSave

HubNext == ConnStep \/ TunnelStep \/ DiscoveryStep \/ HealthStep \/ EditStep

HubSpec == HubInit /\ [][HubNext]_hubVars

-----------------------------------------------------------------------------
(* What the row says is true whenever no edge is under way: no late frame or        *)
(* unregister of a superseded connection changes it.  It lies only from a failed    *)
(* write, an edit that saved an older row, or a health check that wrote what was      *)
(* not true of the hub (a recent agent_last_seen, or a connection made or lost        *)
(* since it looked, admin/provider/check.go:90-146), up to the next write.            *)
StatusHonest == Unlocked /\ ~missed => (agentStatus = "online" <=> conns # NoConn)

(* Whoever finds a connection in the hub finds one that accepts requests. *)
CurrentAccepts == conns # NoConn => conns \notin done

(* A tunnel manager in the map is of the current connection and open; one that is   *)
(* not current keeps no manager but while its end is under way.                   *)
TunnelOfCurrent == mgr # NoConn => mgr \notin shut /\ (conns = mgr \/ ~Unlocked)

(* Every request for a discovery becomes one task or is still marked, through lost   *)
(* replies, retries and the goroutines of two connections, as long as no edit saved  *)
(* an older row.                                                             *)
DiscoveredOnce == stale \/ found + (IF marker THEN 1 ELSE 0) = marks
=============================================================================
