---------------------------- MODULE AgentSession ----------------------------
(***************************************************************************)
(* One connection of an agent (server/service/agent/conn.go): the commands that   *)
(* callers execute over it, a shell that a browser opens, uses and closes, the     *)
(* read loop that delivers what the agent sends (hub.go), and closeAllSessions.     *)
(*                                                                          *)
(* a.mu makes the steps on the maps atomic.  A shell has a lock of its own, ioMu,   *)
(* that its writers hold from their check to the end of their frame.              *)
(***************************************************************************)
EXTENDS Naturals, Sequences, FiniteSets

CONSTANTS
    Calls,      \* ExecuteContext, one goroutine each
    ShellUsers,      \* goroutines that use the shell once: input or resize, or close
    Opener,     \* the goroutine that opens it
    NoUser

ASSUME SessionAssumption == Opener \notin ShellUsers /\ NoUser \notin ShellUsers \cup {Opener}

VARIABLES
    up,         \* the transport
    doneCh,     \* it is closed
    call,       \* place of a call
    respCh,     \* calls with an answer in their channel
    pending,    \* a.pending
    node,       \* the command on the node
    listed,     \* the shell is in a.shellSessions
    closed,     \* its safeClose was done
    ready,      \* ReadyCh has a token
    user,       \* place of a user
    ioMu,       \* who holds the shell's lock
    wire,       \* frames of the shell that were sent
    pty         \* the shell on the node

callVars == <<call, respCh, pending, node>>
shellVars == <<listed, closed, ready, user, ioMu, wire, pty>>
sessionVars == <<up, doneCh, callVars, shellVars>>

Threads == ShellUsers \cup {Opener}
Returned == {"answered", "stopped", "unconfirmed", "lost", "unsent"}

SessionTypeOK ==
    /\ {up, doneCh, listed, closed, ready} \subseteq BOOLEAN
    /\ call \in [Calls -> {"idle", "listed", "waits", "expired", "cancels"} \cup Returned]
    /\ respCh \subseteq Calls /\ pending \subseteq Calls
    /\ node \in [Calls -> {"none", "runs", "told", "ended"}]
    /\ user \in [Threads -> {"idle", "input", "close", "inputs", "closes", "wrote",
                             "opens", "opened", "gone"}]
    /\ ioMu \in Threads \cup {NoUser}
    /\ wire \in Seq({"open", "data", "close"})
    /\ pty \in {"none", "runs", "gone"}

SessionInit ==
    /\ up = TRUE /\ doneCh = FALSE
    /\ call = [c \in Calls |-> "idle"] /\ respCh = {} /\ pending = {}
    /\ node = [c \in Calls |-> "none"]
    /\ listed = FALSE /\ closed = FALSE /\ ready = FALSE
    /\ user = [t \in Threads |-> "idle"] /\ ioMu = NoUser
    /\ wire = <<>> /\ pty = "none"

-----------------------------------------------------------------------------
(* writeMessage: the frame is sent, or it waited too long for the gate or found the *)
(* connection done, or the transport fails and is closed.                        *)
Sends == up /\ ~doneCh /\ up' = up
NotSent == up' \in {up, FALSE}

-----------------------------------------------------------------------------
(* ExecuteContext. *)
List(c) ==
    /\ call[c] = "idle"
    /\ call' = [call EXCEPT ![c] = "listed"] /\ pending' = pending \cup {c}
    /\ UNCHANGED <<up, doneCh, respCh, node, shellVars>>

Return(c, how) ==
    /\ call' = [call EXCEPT ![c] = how]
    /\ pending' = pending \ {c}

Request(c) ==
    /\ call[c] = "listed"
    /\ \/ /\ Sends /\ call' = [call EXCEPT ![c] = "waits"]
          /\ node' = [node EXCEPT ![c] = "runs"] /\ UNCHANGED pending
       \/ NotSent /\ Return(c, "unsent") /\ UNCHANGED node
    /\ UNCHANGED <<doneCh, respCh, shellVars>>

Answered(c) ==
    /\ call[c] = "waits" /\ c \in respCh
    /\ Return(c, "answered")
    /\ UNCHANGED <<up, doneCh, respCh, node, shellVars>>

Lost(c) ==
    /\ call[c] = "waits" /\ doneCh
    /\ Return(c, "lost")
    /\ UNCHANGED <<up, doneCh, respCh, node, shellVars>>

(* The deadline, or a cancelled task: the agent is told, if it can be. *)
Expire(c) ==
    /\ call[c] = "waits"
    /\ \/ Sends /\ node' = [node EXCEPT ![c] = IF @ = "runs" THEN "told" ELSE @]
       \/ NotSent /\ UNCHANGED node
    /\ call' = [call EXCEPT ![c] = "cancels"]
    /\ UNCHANGED <<doneCh, respCh, pending, shellVars>>

Stopped(c) == c \in respCh

(* It waits for the answer, up to 15 s. *)
Acknowledged(c) ==
    /\ call[c] = "cancels"
    /\ \/ Stopped(c) /\ Return(c, "stopped")
       \/ Return(c, "unconfirmed")
    /\ UNCHANGED <<up, doneCh, respCh, node, shellVars>>

(* The agent ends the command and answers; the read loop drops an answer that       *)
(* nobody waits for.                                                         *)
NodeEnds(c) ==
    /\ node[c] \in {"runs", "told"}
    /\ node' = [node EXCEPT ![c] = "ended"]
    /\ respCh' = IF up /\ ~doneCh /\ c \in pending THEN respCh \cup {c} ELSE respCh
    /\ UNCHANGED <<up, doneCh, call, pending, shellVars>>

-----------------------------------------------------------------------------
(* startShell takes the shell's lock before the shell is in the map. *)
Place(t, at) == user' = [user EXCEPT ![t] = at]

TooLate == doneCh

ListShell ==
    /\ user[Opener] = "idle"
    /\ IF TooLate THEN Place(Opener, "gone") /\ UNCHANGED <<listed, ioMu>>
       ELSE Place(Opener, "opens") /\ listed' = TRUE /\ ioMu' = Opener
    /\ UNCHANGED <<up, doneCh, callVars, closed, ready, wire, pty>>

Retired == listed' = FALSE /\ closed' = TRUE

Open ==
    /\ user[Opener] = "opens"
    /\ ioMu' = NoUser
    /\ \/ /\ Sends /\ Place(Opener, "opened")
          /\ wire' = Append(wire, "open") /\ pty' = "runs" /\ UNCHANGED <<listed, closed>>
       \/ NotSent /\ Place(Opener, "gone") /\ Retired /\ UNCHANGED <<wire, pty>>
    /\ UNCHANGED <<doneCh, callVars, ready>>

(* StartExecShell: the shell is ready, or is closed again. *)
Await ==
    /\ user[Opener] = "opened"
    /\ \/ ready /\ Place(Opener, "gone")
       \/ Place(Opener, IF listed THEN "close" ELSE "gone")
    /\ UNCHANGED <<up, doneCh, callVars, listed, closed, ready, ioMu, wire, pty>>

(* A user finds the shell in the map, waits for its lock, and checks again. *)
Find(t) ==
    /\ t \in ShellUsers /\ user[t] = "idle"
    /\ listed
    /\ \E op \in {"input", "close"} : Place(t, op)
    /\ UNCHANGED <<up, doneCh, callVars, listed, closed, ready, ioMu, wire, pty>>

ActiveUnchecked(t) == TRUE
Active(t) == IF user[t] = "close" THEN listed ELSE ~closed /\ ~doneCh

Lock(t) ==
    /\ user[t] \in {"input", "close"} /\ ioMu = NoUser
    /\ IF Active(t)
       THEN ioMu' = t /\ Place(t, IF user[t] = "input" THEN "inputs" ELSE "closes")
       ELSE Place(t, "gone") /\ UNCHANGED ioMu
    /\ UNCHANGED <<up, doneCh, callVars, listed, closed, ready, wire, pty>>

Input(t) ==
    /\ user[t] = "inputs"
    /\ (Sends /\ wire' = Append(wire, "data")) \/ (NotSent /\ UNCHANGED wire)
    /\ Place(t, "gone") /\ ioMu' = NoUser
    /\ UNCHANGED <<doneCh, callVars, listed, closed, ready, pty>>

Close(t) ==
    /\ user[t] = "closes"
    /\ \/ Sends /\ wire' = Append(wire, "close") /\ pty' = "gone"
       \/ NotSent /\ UNCHANGED <<wire, pty>>
    /\ Place(t, "wrote")
    /\ UNCHANGED <<doneCh, callVars, listed, closed, ready, ioMu>>

Unlist(t) ==
    /\ user[t] = "wrote"
    /\ Retired
    /\ Place(t, "gone") /\ ioMu' = NoUser
    /\ UNCHANGED <<up, doneCh, callVars, ready, wire, pty>>

(* The agent's frames: it is ready, or its child ended; the read loop never waits     *)
(* for the shell's lock.                                                      *)
Ready ==
    /\ up /\ ~doneCh /\ pty = "runs" /\ ~ready
    /\ ready' = listed
    /\ UNCHANGED <<up, doneCh, callVars, listed, closed, user, ioMu, wire, pty>>

ChildEnds ==
    /\ up /\ ~doneCh /\ pty = "runs"
    /\ pty' = "gone" /\ IF listed THEN Retired ELSE UNCHANGED <<listed, closed>>
    /\ UNCHANGED <<up, doneCh, callVars, ready, user, ioMu, wire>>

-----------------------------------------------------------------------------
(* The transport is lost, and the hub ends the sessions of the connection; it may      *)
(* do so first, when another connection superseded it.                            *)
Drop == up /\ up' = FALSE /\ UNCHANGED <<doneCh, callVars, shellVars>>

CloseAllSessions ==
    /\ ~doneCh /\ doneCh' = TRUE /\ up' = FALSE
    /\ IF listed THEN Retired ELSE UNCHANGED <<listed, closed>>
    /\ pending' = {}
    /\ UNCHANGED <<call, respCh, node, ready, user, ioMu, wire, pty>>

CallStep(c) == List(c) \/ Request(c) \/ Answered(c) \/ Lost(c) \/ Expire(c) \/ Acknowledged(c)
ThreadStep(t) == Lock(t) \/ Input(t) \/ Close(t) \/ Unlist(t)

SessionNext ==
    \/ \E c \in Calls : CallStep(c) \/ NodeEnds(c)
    \/ \E t \in Threads : Find(t) \/ ThreadStep(t)
    \/ ListShell \/ Open \/ Await \/ Ready \/ ChildEnds
    \/ Drop \/ CloseAllSessions

SessionSpec == SessionInit /\ [][SessionNext]_sessionVars

-----------------------------------------------------------------------------
(* A caller that is told how the command ended, or that it was stopped, need not      *)
(* fear that it still runs; only an unconfirmed or lost one may.                     *)
ToldMeansEnded == \A c \in Calls : call[c] \in {"answered", "stopped"} => node[c] = "ended"

(* The agent sees the shell opened before it is used, and nothing of it after it was   *)
(* closed, whatever input, close and retirement cross each other.                   *)
WireOrder ==
    \A i \in 1..Len(wire) :
        /\ (wire[i] = "open") <=> (i = 1)
        /\ wire[i] = "close" => i = Len(wire)

(* Output is sent only to listed shells: none of them is closed, and none outlives      *)
(* the connection.                                                           *)
ListedIsOpen == listed => ~closed /\ ~doneCh

(* All of it: what callers are told, what the agent sees, and what output finds. *)
SessionSafe == ToldMeansEnded /\ WireOrder /\ ListedIsOpen
=============================================================================
