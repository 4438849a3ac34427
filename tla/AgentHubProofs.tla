--------------------------- MODULE AgentHubProofs ---------------------------
(***************************************************************************)
(* Theorems about the hub of one agent, for any number of connections, tunnel  *)
(* goroutines, attempts and failures.                                        *)
(*                                                                          *)
(* The argument is about connections that are new: one whose Register has not   *)
(* published it is in no other place of the hub, so nothing that is done to      *)
(* older connections can end it; and every edge forgets what it knows of the     *)
(* row before it changes who is current.                                      *)
(***************************************************************************)
EXTENDS AgentHub, TLAPS

Registering == {"swept", "untunneled", "published"}

\* A connection that is not dialed or waits for Register, and is not published yet.
New(a) == reader[a] \in {"none", "waits"} /\ edge # [conn |-> a, at |-> "published"]

\* New connections are nowhere in the hub.
NewIsNowhere == \A a \in Conns : New(a) => a # conns /\ a # pinger /\ a # mgr /\ a \notin done /\ a \notin shut

Dialed == \A a \in Conns : tcp[a] = "none" <=> reader[a] = "none"

\* Where an edge stands tells who is current, and that nothing is known of the row.
EdgeTells ==
    /\ edge.at \in {"swept", "untunneled", "removed", "silent"} => conns = NoConn
    /\ edge.at = "published" => conns = edge.conn
    /\ edge.at \in Registering => reader[edge.conn] = "waits"
    /\ edge # NoEdge => memo = "none"

\* A discovery goroutine that has seen its connection current has an attempt left.
SightHasTries == \A a \in sight : tries[a] > 0

CurrentIsOpen == conns # NoConn => conns \notin done /\ conns \notin shut
ManagerIsOpen == mgr # NoConn => mgr \notin shut
ManagerOfCurrent == edge.at \notin {"swept", "removed"} => mgr \in {NoConn, conns}

HubIInv ==
    /\ HubTypeOK /\ SightHasTries
    /\ NewIsNowhere /\ Dialed /\ EdgeTells
    /\ CurrentIsOpen /\ ManagerIsOpen /\ ManagerOfCurrent
    /\ StatusHonest

-----------------------------------------------------------------------------
LEMMA BoundsAreNat ==
  /\ MaxFaults \in Nat /\ MaxMarks \in Nat /\ MaxEdits \in Nat /\ MaxReboots \in Nat
  /\ Tries \in Nat /\ Tries > 0 /\ NoConn \notin Conns
  BY AgentHubAssumption

\* The types, flags and the rest apart: no prover deals with both.
Flags == old \in BOOLEAN /\ marker \in BOOLEAN /\ missed \in BOOLEAN /\ stale \in BOOLEAN

Data ==
    /\ conns \in Conns \cup {NoConn} /\ pinger \in Conns \cup {NoConn}
    /\ tcp \in [Conns -> {"none", "open", "closed"}]
    /\ done \subseteq Conns /\ late \subseteq Conns /\ shut \subseteq Conns
    /\ reader \in [Conns -> {"none", "waits", "reads", "got", "leaves", "gone"}]
    /\ edge \in {NoEdge} \cup [conn : Conns, at : Places]
    /\ memo \in {"none", "online", "offline"} /\ agentStatus \in {"online", "offline"}
    /\ mgr \in Conns \cup {NoConn}
    /\ handle \in [Tunnels -> Conns \cup {NoConn}]
    /\ session \in [Tunnels -> Conns \cup {NoConn}]
    /\ tries \in [Conns -> 0..Tries] /\ sight \subseteq Conns
    /\ found \in Nat /\ marks \in 0..MaxMarks
    /\ edit \in {NoEdit} \cup [status : {"online", "offline"}, marker : BOOLEAN] /\ look \in {"none", "online", "offline"}
    /\ faults \in 0..MaxFaults /\ edits \in 0..MaxEdits /\ reboots \in 0..MaxReboots

LEMMA TypesAre == (HubTypeOK <=> Flags /\ Data) /\ (HubTypeOK' <=> Flags' /\ Data')
  BY Zenon DEF HubTypeOK, Flags, Data

LEMMA EdgeIs ==
  ASSUME HubTypeOK
  PROVE  /\ edge.at \in Places \cup {"none"} /\ (edge.at = "none" <=> Unlocked)
         /\ ~Unlocked => edge.conn \in Conns /\ edge = [conn |-> edge.conn, at |-> edge.at]
  BY DEF HubTypeOK, NoEdge, Places, Unlocked

LEMMA InitHolds == HubInit => HubIInv
  <1> SUFFICES ASSUME HubInit PROVE HubIInv
    OBVIOUS
  <1>1. HubTypeOK
    <2>1. Flags
      BY Zenon DEF HubInit, Flags
    <2>2. Data
      BY BoundsAreNat DEF HubInit, Data, NoEdge, NoEdit
    <2> QED
      BY <2>1, <2>2, TypesAre
  <1>2. NewIsNowhere /\ Dialed /\ EdgeTells /\ CurrentIsOpen /\ ManagerIsOpen /\ ManagerOfCurrent
    BY AgentHubAssumption DEF HubInit, NewIsNowhere, New, Dialed, EdgeTells, CurrentIsOpen, ManagerIsOpen,
       ManagerOfCurrent, NoEdge, Registering
  <1>3. StatusHonest
    BY DEF HubInit, StatusHonest
  <1>4. SightHasTries
    BY DEF HubInit, SightHasTries
  <1> QED
    BY <1>1, <1>2, <1>3, <1>4 DEF HubIInv

-----------------------------------------------------------------------------
(* Types.                                                                   *)

LEMMA WriteTyped ==
  ASSUME HubTypeOK, NEW s \in {"online", "offline"}, Write(s)
  PROVE  /\ memo' \in {"none", "online", "offline"} /\ old' \in BOOLEAN
         /\ agentStatus' \in {"online", "offline"} /\ missed' \in BOOLEAN /\ faults' \in 0..MaxFaults
  <1>1. old' \in BOOLEAN /\ missed' \in BOOLEAN
    BY Zenon DEF HubTypeOK, Write
  <1>2. memo' \in {"none", "online", "offline"} /\ agentStatus' \in {"online", "offline"}
    BY DEF HubTypeOK, Write
  <1>3. faults' \in 0..MaxFaults
    BY BoundsAreNat DEF HubTypeOK, Write
  <1> QED
    BY <1>1, <1>2, <1>3

LEMMA WriteOnlineTyped ==
  ASSUME HubTypeOK, WriteOnline \/ UNCHANGED <<statusVars, faults>>
  PROVE  /\ memo' \in {"none", "online", "offline"} /\ old' \in BOOLEAN
         /\ agentStatus' \in {"online", "offline"} /\ missed' \in BOOLEAN /\ faults' \in 0..MaxFaults
  BY WriteTyped DEF HubTypeOK, WriteOnline, statusVars

LEMMA EdgeTyped ==
  ASSUME HubTypeOK, EdgeStep PROVE HubTypeOK'
  <1>1. CASE Untunnel("swept", "untunneled") \/ Untunnel("removed", "silent")
    BY <1>1, EdgeIs DEF Untunnel, RemoveTunnels, HubTypeOK, statusVars, discoveryVars, hubBounds, NoEdge, Places, Unlocked
  <1>2. CASE Publish
    BY <1>2, EdgeIs DEF Publish, HubTypeOK, statusVars, tunnelVars, discoveryVars, hubBounds, NoEdge, Places, Unlocked
  <1>3. CASE Registered
    <2>1. edge.conn \in Conns
      BY <1>3, EdgeIs DEF Registered, Unlocked, NoEdge
    <2> QED
      BY <1>3, <2>1, WriteOnlineTyped, BoundsAreNat DEF Registered, HubTypeOK, tunnelVars
  <1>4. CASE Unregistered
    BY <1>4, WriteTyped DEF Unregistered, HubTypeOK, tunnelVars, discoveryVars
  <1> QED
    BY <1>1, <1>2, <1>3, <1>4 DEF EdgeStep

LEMMA ConnTyped ==
  ASSUME HubTypeOK, NEW a \in Conns,
         \/ Dial(a) \/ Register(a) \/ Lose(a) \/ ReaderStep(a) \/ RecordInfo(a) \/ PingFails(a) \/ Unregister(a)
  PROVE  HubTypeOK'
  <1> USE DEF HubTypeOK
  <1>1. CASE Dial(a) \/ Lose(a) \/ PingFails(a)
    BY <1>1 DEF Dial, Lose, PingFails, IsCurrent, statusVars, tunnelVars, discoveryVars, hubBounds
  <1>2. CASE Register(a)
    BY <1>2 DEF Register, Superseded, tunnelVars, discoveryVars, hubBounds, Places
  <1>3. CASE Receive(a) \/ ReadFails(a)
    BY <1>3 DEF Receive, ReadFails, statusVars, tunnelVars, discoveryVars, hubBounds
  <1>4. CASE Handle(a)
    BY <1>4, WriteOnlineTyped DEF Handle, tunnelVars, discoveryVars
  <1>5. CASE RecordInfo(a)
    BY <1>5, WriteOnlineTyped DEF RecordInfo, tunnelVars, discoveryVars
  <1>6. CASE Unregister(a)
    <2>1. Flags'
      BY <1>6, TypesAre, Zenon DEF Unregister, discoveryVars, Flags
    <2>2. Data'
      BY <1>6, TypesAre DEF Unregister, Ended, Left, tunnelVars, discoveryVars, hubBounds, Places, Data
    <2> QED
      BY <2>1, <2>2, TypesAre
  <1> QED
    BY <1>1, <1>2, <1>3, <1>4, <1>5, <1>6 DEF ReaderStep

LEMMA RebootTyped == ASSUME HubTypeOK, Age \/ Reboot PROVE HubTypeOK'
  <1>1. CASE Age
    BY <1>1 DEF Age, HubTypeOK, connVars, tunnelVars, discoveryVars, hubBounds
  <1>2. CASE Reboot
    <2>1. Flags'
      BY <1>2, TypesAre, Zenon DEF Reboot, Flags
    <2>2. Data'
      BY <1>2, TypesAre, BoundsAreNat DEF Reboot, Data
    <2> QED
      BY <2>1, <2>2, TypesAre
  <1> QED
    BY <1>1, <1>2

LEMMA TunnelTyped == ASSUME HubTypeOK, TunnelStep PROVE HubTypeOK'
  BY DEF TunnelStep, GetManager, OpenSession, EndSession, HubTypeOK, connVars, statusVars, discoveryVars, hubBounds

LEMMA DiscoveryTyped == ASSUME HubTypeOK, SightHasTries, DiscoveryStep PROVE HubTypeOK'
  <1> USE BoundsAreNat DEF HubTypeOK
  <1>1. CASE Mark
    BY <1>1 DEF Mark, connVars, statusVars, tunnelVars, hubBounds
  <1>2. ASSUME NEW a \in Conns, DiscoveryLook(a) PROVE HubTypeOK'
    BY <1>2 DEF DiscoveryLook, connVars, statusVars, tunnelVars, hubBounds
  <1>3. ASSUME NEW a \in Conns, Discover(a) PROVE HubTypeOK'
    <2>1. Flags'
      BY <1>3, TypesAre, Zenon DEF Discover, statusVars, Flags
    <2>2. a \in Conns /\ tries[a] \in 0..Tries /\ tries[a] > 0
      BY <1>3 DEF Discover, SightHasTries
    <2>3. tries' \in [Conns -> 0..Tries]
      BY <1>3, <2>2 DEF Discover
    <2>4. faults' \in 0..MaxFaults /\ found' \in Nat /\ sight' \subseteq Conns
      BY <1>3 DEF Discover
    <2>5. Data'
      BY <1>3, <2>3, <2>4 DEF Discover, connVars, statusVars, tunnelVars, Data
    <2> QED
      BY <2>1, <2>5, TypesAre
  <1> QED
    BY <1>1, <1>2, <1>3 DEF DiscoveryStep

LEMMA EditTyped == ASSUME HubTypeOK, EditStep PROVE HubTypeOK'
  <1>1. CASE EditRead
    BY <1>1, BoundsAreNat DEF EditRead, HubTypeOK, connVars, statusVars, tunnelVars, discoveryVars
  <1>2. CASE EditSave
    <2>1. edit.status \in {"online", "offline"} /\ edit.marker \in BOOLEAN
      BY <1>2 DEF EditSave, HubTypeOK
    <2> QED
      BY <1>2, <2>1 DEF EditSave, HubTypeOK, connVars, tunnelVars
  <1> QED
    BY <1>1, <1>2 DEF EditStep

LEMMA HealthTyped == ASSUME HubTypeOK, HealthStep PROVE HubTypeOK'
  <1>1. CASE HealthLook
    BY <1>1 DEF HealthLook, HubTypeOK, connVars, statusVars, tunnelVars, discoveryVars
  <1>2. CASE HealthWrite
    <2>1. look \in {"online", "offline"} /\ missed' \in BOOLEAN
      BY <1>2 DEF HealthWrite, HubTypeOK
    <2> QED
      BY <1>2, <2>1 DEF HealthWrite, HubTypeOK, connVars, tunnelVars, discoveryVars
  <1>3. CASE HealthLost
    BY <1>3 DEF HealthLost, HubTypeOK, connVars, statusVars, tunnelVars, discoveryVars
  <1> QED
    BY <1>1, <1>2, <1>3 DEF HealthStep

LEMMA TypesNext == ASSUME HubTypeOK, SightHasTries, [HubNext]_hubVars PROVE HubTypeOK'
  <1>1. CASE UNCHANGED hubVars
    BY <1>1 DEF hubVars, connVars, statusVars, tunnelVars, discoveryVars, hubBounds, HubTypeOK
  <1> QED
    BY <1>1, EdgeTyped, ConnTyped, RebootTyped, TunnelTyped, DiscoveryTyped, HealthTyped, EditTyped DEF HubNext, ConnStep

LEMMA SightNext == ASSUME HubTypeOK, SightHasTries, [HubNext]_hubVars PROVE SightHasTries'
  <1> USE BoundsAreNat DEF HubTypeOK, SightHasTries
  <1>1. CASE DiscoveryStep
    <2>1. CASE Mark
      BY <2>1 DEF Mark
    <2>2. ASSUME NEW a \in Conns, DiscoveryLook(a) PROVE SightHasTries'
      BY <2>2 DEF DiscoveryLook
    <2>3. ASSUME NEW a \in Conns, Discover(a) PROVE SightHasTries'
      BY <2>3 DEF Discover
    <2> QED
      BY <1>1, <2>1, <2>2, <2>3 DEF DiscoveryStep
  <1>2. CASE Registered
    <2>1. edge.conn \in Conns
      BY <1>2, EdgeIs DEF Registered, Unlocked, NoEdge
    <2> QED
      BY <1>2, <2>1 DEF Registered
  <1>3. CASE Reboot
    BY <1>3 DEF Reboot
  <1>4. ASSUME UNCHANGED <<tries, sight>> PROVE SightHasTries'
    BY <1>4
  <1>5. CASE \/ Untunnel("swept", "untunneled") \/ Publish \/ Untunnel("removed", "silent") \/ Unregistered
             \/ Age \/ TunnelStep \/ HealthStep \/ EditStep \/ UNCHANGED hubVars
    BY <1>4, <1>5 DEF Untunnel, Publish, Unregistered, Age, TunnelStep, GetManager, OpenSession, EndSession,
       HealthStep, HealthLook, HealthWrite, HealthLost, EditStep, EditRead, EditSave, hubVars, discoveryVars
  <1>6. ASSUME NEW a \in Conns,
               \/ Dial(a) \/ Register(a) \/ Lose(a) \/ ReaderStep(a) \/ RecordInfo(a)
               \/ PingFails(a) \/ Unregister(a)
        PROVE  SightHasTries'
    BY <1>4, <1>6 DEF Dial, Register, Lose, ReaderStep, Receive, Handle, ReadFails, RecordInfo, PingFails,
       Unregister, discoveryVars
  <1> QED
    BY <1>1, <1>2, <1>3, <1>5, <1>6 DEF HubNext, ConnStep, EdgeStep

-----------------------------------------------------------------------------
(* Who is current, and what hangs on it.                                    *)
Ties == NewIsNowhere /\ Dialed /\ EdgeTells /\ CurrentIsOpen /\ ManagerIsOpen /\ ManagerOfCurrent

LEMMA SameTies ==
  ASSUME Ties, UNCHANGED <<conns, tcp, done, reader, edge, pinger, memo, mgr, shut>>
  PROVE  Ties'
  BY DEF Ties, NewIsNowhere, New, Dialed, EdgeTells, CurrentIsOpen, ManagerIsOpen, ManagerOfCurrent

LEMMA EdgeTies == ASSUME HubTypeOK, Ties, EdgeStep PROVE Ties'
  <1> USE DEF Ties, NewIsNowhere, New, Dialed, EdgeTells, CurrentIsOpen, ManagerIsOpen, ManagerOfCurrent,
              Registering
  <1>1. /\ ~Unlocked /\ edge.conn \in Conns /\ edge = [conn |-> edge.conn, at |-> edge.at]
        /\ edge.conn # NoConn
    BY EdgeIs, AgentHubAssumption DEF EdgeStep, Untunnel, Publish, Registered, Unregistered, Unlocked, NoEdge
  <1>2. CASE Untunnel("swept", "untunneled")
    <2>1. edge' = [conn |-> edge.conn, at |-> "untunneled"] /\ mgr' = NoConn /\ edge'.at = "untunneled"
          /\ edge'.conn = edge.conn
      BY <1>1, <1>2 DEF Untunnel, RemoveTunnels
    <2> QED
      BY <1>1, <1>2, <2>1, AgentHubAssumption
      DEF Untunnel, RemoveTunnels, HubTypeOK, statusVars, hubBounds, NoEdge, Unlocked
  <1>3. CASE Untunnel("removed", "silent")
    <2>1. edge' = [conn |-> edge.conn, at |-> "silent"] /\ mgr' = NoConn /\ edge'.at = "silent"
          /\ edge'.conn = edge.conn
      BY <1>1, <1>3 DEF Untunnel, RemoveTunnels
    <2> QED
      BY <1>1, <1>3, <2>1, AgentHubAssumption
      DEF Untunnel, RemoveTunnels, HubTypeOK, statusVars, hubBounds, NoEdge, Unlocked
  <1>4. CASE Publish
    <2>1. edge' = [conn |-> edge.conn, at |-> "published"] /\ conns' = edge.conn
          /\ edge'.at = "published" /\ edge'.conn = edge.conn
      BY <1>1, <1>4 DEF Publish
    <2>2. New(edge.conn) /\ mgr = NoConn
      BY <1>1, <1>4 DEF Publish
    <2>3. \A a \in Conns : New(a)' => New(a) /\ a # edge.conn
      BY <1>1, <1>4, <2>1 DEF Publish
    <2>4. NewIsNowhere'
      BY <1>4, <2>1, <2>3 DEF Publish, tunnelVars
    <2>5. CurrentIsOpen' /\ ManagerIsOpen' /\ ManagerOfCurrent'
      BY <1>1, <1>4, <2>1, <2>2 DEF Publish, tunnelVars
    <2>6. EdgeTells' /\ Dialed'
      BY <1>1, <1>4, <2>1 DEF Publish, statusVars, NoEdge, Unlocked
    <2> QED
      BY <2>4, <2>5, <2>6
  <1>5. CASE Registered
    <2>1. reader[edge.conn] = "waits" /\ conns = edge.conn
      BY <1>5 DEF Registered
    <2>2. \A a \in Conns : New(a)' => New(a)
      BY <1>1, <1>5, <2>1 DEF Registered, NoEdge, HubTypeOK
    <2>3. NewIsNowhere'
      BY <1>5, <2>2 DEF Registered, tunnelVars
    <2>4. Dialed'
      BY <1>1, <1>5, <2>1 DEF Registered, HubTypeOK
    <2> QED
      BY <1>5, <2>3, <2>4 DEF Registered, NoEdge, tunnelVars
  <1>6. CASE Unregistered
    <2>1. \A a \in Conns : New(a)' => New(a)
      BY <1>1, <1>6 DEF Unregistered, NoEdge
    <2>2. NewIsNowhere'
      BY <1>6, <2>1 DEF Unregistered, tunnelVars
    <2> QED
      BY <1>6, <2>2 DEF Unregistered, NoEdge, tunnelVars
  <1> QED
    BY <1>2, <1>3, <1>4, <1>5, <1>6 DEF EdgeStep

LEMMA RegisterTies == ASSUME HubTypeOK, Ties, NEW a \in Conns, Register(a) PROVE Ties'
  <1> USE DEF Ties, NewIsNowhere, New, Dialed, EdgeTells, CurrentIsOpen, ManagerIsOpen, ManagerOfCurrent,
              Registering
  <1>1. edge' = [conn |-> a, at |-> "swept"] /\ edge'.at = "swept" /\ edge'.conn = a /\ edge = NoEdge
    BY DEF Register, Unlocked
  <1>2. \A b \in Conns : New(b)' => New(b)
    BY <1>1 DEF Register, NoEdge
  <1>3. NewIsNowhere'
    BY <1>2, AgentHubAssumption DEF Register, Superseded, tunnelVars
  <1>4. \A b \in Superseded : b \in Conns /\ ~New(b)
    BY DEF Superseded, HubTypeOK
  <1>5. Dialed'
    BY <1>1, <1>4 DEF Register, HubTypeOK, NoEdge
  <1> QED
    BY <1>1, <1>3, <1>5 DEF Register, tunnelVars

LEMMA UnregisterTies == ASSUME HubTypeOK, Ties, NEW a \in Conns, Unregister(a) PROVE Ties'
  <1> USE DEF Ties, NewIsNowhere, New, Dialed, EdgeTells, CurrentIsOpen, ManagerIsOpen, ManagerOfCurrent,
              Registering
  <1>1. edge = NoEdge /\ edge.at = "none"
    BY DEF Unregister, Unlocked, NoEdge
  <1>2. ~New(a)
    BY <1>1 DEF Unregister, NoEdge
  <1>3. edge' = edge \/ (edge' = [conn |-> a, at |-> "removed"] /\ edge'.at = "removed" /\ edge'.conn = a)
    BY DEF Unregister
  <1>4. \A b \in Conns : New(b)' => New(b) /\ b # a
    BY <1>1, <1>2, <1>3 DEF Unregister, NoEdge, HubTypeOK
  <1>5. NewIsNowhere'
    BY <1>4, AgentHubAssumption DEF Unregister, Ended, Left, IsCurrent, tunnelVars
  <1>6. Dialed'
    BY <1>2 DEF Unregister, HubTypeOK
  <1>7. CASE conns = a
    <2>1. conns' = NoConn /\ edge' = [conn |-> a, at |-> "removed"] /\ edge'.at = "removed" /\ memo' = "none"
      BY <1>7 DEF Unregister, Left, IsCurrent
    <2> QED
      BY <1>5, <1>6, <2>1 DEF Unregister, tunnelVars
  <1>8. CASE conns # a
    <2>1. conns' = conns /\ edge' = edge /\ memo' = memo
      BY <1>8 DEF Unregister, Left, IsCurrent
    <2> QED
      BY <1>1, <1>5, <1>6, <1>8, <2>1 DEF Unregister, Ended, tunnelVars
  <1> QED
    BY <1>7, <1>8

LEMMA ReaderTies ==
  ASSUME HubTypeOK, Ties, NEW a \in Conns,
         Dial(a) \/ Lose(a) \/ ReaderStep(a) \/ RecordInfo(a) \/ PingFails(a)
  PROVE  Ties'
  <1> USE DEF Ties, NewIsNowhere, New, Dialed, EdgeTells, CurrentIsOpen, ManagerIsOpen, ManagerOfCurrent,
              Registering, HubTypeOK
  <1>1. CASE Dial(a)
    BY <1>1, EdgeIs DEF Dial, statusVars, tunnelVars, Unlocked, NoEdge
  <1>2. CASE Lose(a)
    BY <1>2 DEF Lose, statusVars, tunnelVars
  <1>3. CASE Receive(a) \/ ReadFails(a)
    <2>1. reader[a] = "reads" /\ reader' \in {[reader EXCEPT ![a] = "got"], [reader EXCEPT ![a] = "leaves"]}
      BY <1>3 DEF Receive, ReadFails
    <2>2. /\ conns' = conns /\ tcp' = tcp /\ done' = done /\ edge' = edge /\ pinger' = pinger
          /\ memo' = memo /\ mgr' = mgr /\ shut' = shut
      BY <1>3 DEF Receive, ReadFails, statusVars, tunnelVars
    <2>3. Dialed'
      BY <2>1, <2>2
    <2>4. \A b \in Conns : New(b)' => New(b)
      BY <2>1, <2>2
    <2>5. NewIsNowhere'
      BY <2>2, <2>4
    <2>6. EdgeTells'
      <3>1. edge.at \in Registering => edge.conn # a /\ reader'[edge.conn] = reader[edge.conn]
        <4>1. edge.at \in Registering => edge.conn \in Conns /\ edge.conn # a
          BY <2>1, EdgeIs
        <4> QED
          BY <2>1, <4>1
      <3> QED
        BY <2>2, <3>1
    <2>7. CurrentIsOpen' /\ ManagerIsOpen' /\ ManagerOfCurrent'
      BY <2>2
    <2> QED
      BY <2>3, <2>5, <2>6, <2>7
  <1>4. CASE Handle(a)
    BY <1>4 DEF Handle, tunnelVars, Unlocked, NoEdge
  <1>5. CASE RecordInfo(a)
    BY <1>5 DEF RecordInfo, tunnelVars, Unlocked, NoEdge
  <1>6. CASE PingFails(a)
    BY <1>6 DEF PingFails, IsCurrent, statusVars, tunnelVars
  <1> QED
    BY <1>1, <1>2, <1>3, <1>4, <1>5, <1>6 DEF ReaderStep

LEMMA TunnelTies == ASSUME HubTypeOK, Ties, TunnelStep PROVE Ties'
  <1> USE DEF Ties, NewIsNowhere, New, Dialed, EdgeTells, CurrentIsOpen, ManagerIsOpen, ManagerOfCurrent,
              Registering, HubTypeOK
  <1>1. ASSUME NEW u \in Tunnels, GetManager(u) PROVE Ties'
    <2>1. UNCHANGED <<conns, tcp, done, reader, edge, pinger, memo>>
      BY <1>1 DEF GetManager, connVars, statusVars
    <2>2. mgr' = conns /\ conns # NoConn /\ shut' \subseteq (shut \cup {mgr}) \ {conns}
      BY <1>1 DEF GetManager
    <2> QED
      BY <2>1, <2>2
  <1>2. ASSUME NEW u \in Tunnels, OpenSession(u) \/ EndSession(u) PROVE Ties'
    BY <1>2, SameTies DEF OpenSession, EndSession, connVars, statusVars
  <1> QED
    BY <1>1, <1>2 DEF TunnelStep

LEMMA RebootTies == ASSUME HubTypeOK, Ties, Reboot PROVE Ties'
  <1> USE DEF Ties, NewIsNowhere, New, Dialed, EdgeTells, CurrentIsOpen, ManagerIsOpen, ManagerOfCurrent,
              Registering
  <1>1. NewIsNowhere' /\ Dialed'
    BY AgentHubAssumption DEF Reboot, HubTypeOK
  <1> QED
    BY <1>1 DEF Reboot, NoEdge

LEMMA TiesNext == ASSUME HubTypeOK, Ties, [HubNext]_hubVars PROVE Ties'
  <1>1. CASE DiscoveryStep \/ HealthStep \/ EditStep \/ UNCHANGED hubVars
    BY <1>1, SameTies DEF DiscoveryStep, Mark, DiscoveryLook, Discover, HealthStep, HealthLook, HealthWrite,
       HealthLost, EditStep, EditRead, EditSave, hubVars, connVars, statusVars, tunnelVars
  <1>2. CASE Age
    BY <1>2 DEF Age, connVars, tunnelVars, Ties, NewIsNowhere, New, Dialed, EdgeTells, CurrentIsOpen,
       ManagerIsOpen, ManagerOfCurrent
  <1> QED
    BY <1>1, <1>2, EdgeTies, RegisterTies, UnregisterTies, ReaderTies, TunnelTies, RebootTies
    DEF HubNext, ConnStep

-----------------------------------------------------------------------------
(* What the row says.                                                       *)
LEMMA HonestNext == ASSUME HubTypeOK, Ties, StatusHonest, [HubNext]_hubVars PROVE StatusHonest'
  <1> USE DEF StatusHonest, Unlocked
  <1>1. CASE Registered
    <2>1. edge # NoEdge /\ conns = edge.conn /\ memo = "none" /\ conns # NoConn
      BY <1>1, EdgeIs, AgentHubAssumption DEF Registered, Ties, EdgeTells, NoEdge
    <2>2. Write("online")
      BY <1>1, <2>1 DEF Registered, WriteOnline, Due
    <2> QED
      BY <1>1, <2>1, <2>2 DEF Registered, Write
  <1>2. CASE Unregistered
    BY <1>2 DEF Unregistered, Write, Ties, EdgeTells
  <1>3. CASE Untunnel("swept", "untunneled") \/ Publish \/ Untunnel("removed", "silent")
    <2>1. edge' # NoEdge
      BY <1>3, EdgeIs DEF Untunnel, Publish, NoEdge
    <2> QED
      BY <2>1
  <1>4. ASSUME NEW a \in Conns, Handle(a) \/ RecordInfo(a) PROVE StatusHonest'
    <2>1. conns' = conns /\ edge' = edge /\ edge = NoEdge
      BY <1>4 DEF Handle, RecordInfo
    <2>2. \/ conns = a /\ WriteOnline
          \/ UNCHANGED <<statusVars, faults>>
      BY <1>4 DEF Handle, RecordInfo, IsCurrent
    <2>3. conns = a => conns # NoConn
      BY AgentHubAssumption
    <2>4. (missed' = missed /\ agentStatus' = agentStatus) \/ (conns # NoConn /\ agentStatus' = "online") \/ missed'
      BY <2>2, <2>3 DEF WriteOnline, Write, statusVars
    <2> QED
      BY <2>1, <2>4
  <1>5. ASSUME NEW a \in Conns, Register(a) PROVE StatusHonest'
    BY <1>5 DEF Register, NoEdge
  <1>6. ASSUME NEW a \in Conns, Unregister(a) PROVE StatusHonest'
    BY <1>6 DEF Unregister, Left, NoEdge
  <1>7. CASE EditSave
    BY <1>7 DEF EditSave, connVars, HubTypeOK
  <1>8. CASE Reboot
    BY <1>8 DEF Reboot
  <1>12. CASE HealthWrite
    BY <1>12 DEF HealthWrite, connVars, HubTypeOK
  <1>9. ASSUME UNCHANGED <<conns, edge, agentStatus, missed>> PROVE StatusHonest'
    BY <1>9
  <1>10. CASE \/ Age \/ TunnelStep \/ DiscoveryStep \/ HealthLook \/ HealthLost \/ EditRead
              \/ UNCHANGED hubVars
    BY <1>9, <1>10 DEF Age, TunnelStep, GetManager, OpenSession, EndSession, DiscoveryStep, Mark, DiscoveryLook,
       Discover, HealthLook, HealthLost, EditRead, hubVars, connVars, statusVars
  <1>11. ASSUME NEW a \in Conns, Dial(a) \/ Lose(a) \/ Receive(a) \/ ReadFails(a) \/ PingFails(a)
         PROVE  StatusHonest'
    BY <1>9, <1>11 DEF Dial, Lose, Receive, ReadFails, PingFails, statusVars
  <1> QED
    BY <1>1, <1>2, <1>3, <1>4, <1>5, <1>6, <1>7, <1>8, <1>10, <1>11, <1>12
    DEF HubNext, ConnStep, EdgeStep, ReaderStep, HealthStep, EditStep

LEMMA HubIInvNext == ASSUME HubIInv, [HubNext]_hubVars PROVE HubIInv'
  <1>1. HubTypeOK /\ SightHasTries /\ Ties /\ StatusHonest
    BY DEF HubIInv, Ties
  <1>2. HubTypeOK' /\ SightHasTries' /\ Ties' /\ StatusHonest'
    BY <1>1, TypesNext, SightNext, TiesNext, HonestNext
  <1> QED
    BY <1>2 DEF HubIInv, Ties

LEMMA HubIInvAlways == HubSpec => []HubIInv
  <1>1. HubIInv /\ [HubNext]_hubVars => HubIInv'
    BY HubIInvNext
  <1> QED
    BY <1>1, InitHolds, PTL DEF HubSpec

\* Every reachable state of the hub is well typed.
THEOREM TypeCorrect == HubSpec => []HubTypeOK
  <1>1. HubIInv => HubTypeOK
    BY DEF HubIInv
  <1> QED
    BY <1>1, HubIInvAlways, PTL

\* agent_status says whether a connection is current, whenever no edge is under way, unless since
\* the last true write one was lost or an edit or a health check made one that was not true: late
\* frames and the end of superseded connections never change it.
THEOREM StatusHonestAlways == HubSpec => []StatusHonest
  <1>1. HubIInv => StatusHonest
    BY DEF HubIInv
  <1> QED
    BY <1>1, HubIInvAlways, PTL

\* The connection that GetConn answers with accepts requests: nothing of an older one's end closes it.
THEOREM CurrentAcceptsAlways == HubSpec => []CurrentAccepts
  <1>1. HubIInv => CurrentAccepts
    BY DEF HubIInv, CurrentIsOpen, CurrentAccepts
  <1> QED
    BY <1>1, HubIInvAlways, PTL

\* A tunnel manager in the map is open and of the current connection, or an edge that removes it
\* is under way.
THEOREM TunnelOfCurrentAlways == HubSpec => []TunnelOfCurrent
  <1>1. HubIInv => TunnelOfCurrent
    <2> SUFFICES ASSUME HubIInv PROVE TunnelOfCurrent
      OBVIOUS
    <2>1. Unlocked => edge.at \notin {"swept", "removed"}
      BY DEF Unlocked, NoEdge
    <2> QED
      BY <2>1 DEF HubIInv, ManagerIsOpen, ManagerOfCurrent, TunnelOfCurrent
  <1> QED
    BY <1>1, HubIInvAlways, PTL

-----------------------------------------------------------------------------
(* Discovery.                                                               *)

\* Every request for a discovery is one task or still marked, through lost replies, retries and
\* two connections, unless an edit saved an older row.
THEOREM DiscoveredOnceAlways == HubSpec => []DiscoveredOnce
  <1>1. HubInit => DiscoveredOnce
    BY DEF HubInit, DiscoveredOnce
  <1>2. HubIInv /\ DiscoveredOnce /\ [HubNext]_hubVars => DiscoveredOnce'
    <2> SUFFICES ASSUME HubIInv, DiscoveredOnce, [HubNext]_hubVars PROVE DiscoveredOnce'
      OBVIOUS
    <2> USE DEF DiscoveredOnce
    <2>1. marker \in BOOLEAN /\ found \in Nat /\ marks \in Nat
      BY AgentHubAssumption DEF HubIInv, HubTypeOK
    <2>2. CASE Mark
      BY <2>1, <2>2 DEF Mark
    <2>3. ASSUME NEW a \in Conns, Discover(a) PROVE DiscoveredOnce'
      BY <2>1, <2>3 DEF Discover, StillPending
    <2>4. CASE EditSave
      BY <2>1, <2>4 DEF EditSave
    <2>5. ASSUME UNCHANGED <<marker, found, marks, stale>> PROVE DiscoveredOnce'
      BY <2>5
    <2>6. CASE \/ EdgeStep \/ Age \/ Reboot \/ TunnelStep \/ HealthStep \/ EditRead
               \/ UNCHANGED hubVars
      BY <2>5, <2>6 DEF EdgeStep, Untunnel, Publish, Registered, Unregistered, Age, Reboot, TunnelStep,
         GetManager, OpenSession, EndSession, HealthStep, HealthLook, HealthWrite, HealthLost, EditRead,
         hubVars, discoveryVars
    <2>7. ASSUME NEW a \in Conns,
                 \/ Dial(a) \/ Register(a) \/ Lose(a) \/ ReaderStep(a) \/ RecordInfo(a)
                 \/ PingFails(a) \/ Unregister(a) \/ DiscoveryLook(a)
          PROVE  DiscoveredOnce'
      BY <2>5, <2>7 DEF Dial, Register, Lose, ReaderStep, Receive, Handle, ReadFails, RecordInfo, PingFails,
         Unregister, DiscoveryLook, discoveryVars
    <2> QED
      BY <2>2, <2>3, <2>4, <2>6, <2>7 DEF HubNext, ConnStep, DiscoveryStep, EditStep
  <1> QED
    BY <1>1, <1>2, HubIInvAlways, PTL DEF HubSpec
=============================================================================
