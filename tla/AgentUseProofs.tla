--------------------------- MODULE AgentUseProofs ---------------------------
(***************************************************************************)
(* Theorems about what uses an agent's connection: the commands and the shell  *)
(* on it, the controller's forwards over it, and the outage and recovery of     *)
(* the provider behind it.  They share no state; their proofs share a module.    *)
(***************************************************************************)
EXTENDS AgentSession, PortForward, ProviderOutage, TLAPS

-----------------------------------------------------------------------------
(* One connection, for any number of commands and users of its shell.  The      *)
(* shell's lock is held from a user's check to the end of its frame, so that a    *)
(* frame of one user follows the check of the same user: none is sent before      *)
(* the opener's and none after a close.                                       *)

\* The types, flags and the rest apart: no prover deals with both.
Flags == up \in BOOLEAN /\ doneCh \in BOOLEAN /\ listed \in BOOLEAN /\ closed \in BOOLEAN /\ ready \in BOOLEAN

CallPlaces == {"idle", "listed", "waits", "expired", "cancels"} \cup Returned
UserPlaces == {"idle", "input", "close", "inputs", "closes", "wrote", "opens", "opened", "gone"}
Frames == {"open", "data", "close"}

Data ==
    /\ call \in [Calls -> CallPlaces]
    /\ respCh \subseteq Calls /\ pending \subseteq Calls
    /\ node \in [Calls -> {"none", "runs", "told", "ended"}]
    /\ user \in [Threads -> UserPlaces]
    /\ ioMu \in Threads \cup {NoUser}
    /\ wire \in Seq(Frames)
    /\ pty \in {"none", "runs", "gone"}

\* An answer in a channel is of a command that ended; one not yet sent never ran.
AnswerMeansEnded ==
    /\ \A c \in respCh : node[c] = "ended"
    /\ \A c \in Calls : call[c] \in {"idle", "listed"} => node[c] = "none"

\* Before the shell is opened nothing of it exists, and the opener holds its lock.
Unopened ==
    /\ user[Opener] = "idle" =>
          /\ wire = <<>> /\ ~listed /\ ~closed /\ ioMu = NoUser
          /\ \A t \in ShellUsers : user[t] = "idle"
    /\ user[Opener] = "opens" => wire = <<>> /\ ioMu = Opener
    /\ user[Opener] \notin {"idle", "opens"} /\ wire = <<>> =>
          ~listed /\ \A t \in Threads : user[t] \in {"input", "close"} => closed

NoClose == \A i \in 1..Len(wire) : wire[i] # "close"

\* Who writes holds the lock, and has found the shell opened and not yet closed.
Writers ==
    /\ \A t \in Threads : user[t] \in {"inputs", "closes"} => ioMu = t /\ wire # <<>> /\ NoClose
    /\ \A t \in Threads : user[t] = "wrote" => ioMu = t /\ wire # <<>>

\* A close that was sent is followed by the shell's retirement.
ClosedIsRetired == NoClose \/ (closed /\ ~listed) \/ \E t \in Threads : user[t] = "wrote"

SessionIInv ==
    /\ Flags /\ Data /\ AnswerMeansEnded /\ ToldMeansEnded
    /\ Unopened /\ Writers /\ ClosedIsRetired /\ WireOrder /\ ListedIsOpen

-----------------------------------------------------------------------------
LEMMA TypesAre == SessionIInv => SessionTypeOK
  <1> SUFFICES ASSUME SessionIInv PROVE SessionTypeOK
    OBVIOUS
  <1>1. {up, doneCh, listed, closed, ready} \subseteq BOOLEAN
    BY Zenon DEF SessionIInv, Flags
  <1> QED
    BY <1>1 DEF SessionIInv, Data, CallPlaces, UserPlaces, Frames, SessionTypeOK

LEMMA OpenerIsNoUser == Opener \in Threads /\ Opener \notin ShellUsers /\ ShellUsers \subseteq Threads /\ NoUser \notin Threads
  BY SessionAssumption DEF Threads

LEMMA InitHolds == SessionInit => SessionIInv
  <1> SUFFICES ASSUME SessionInit PROVE SessionIInv
    OBVIOUS
  <1>1. Flags
    BY Zenon DEF SessionInit, Flags
  <1>2. Data
    BY DEF SessionInit, Data, CallPlaces, UserPlaces, Frames
  <1>3. wire = <<>> /\ NoClose /\ WireOrder
    BY DEF SessionInit, NoClose, WireOrder
  <1>4. Unopened /\ Writers /\ ClosedIsRetired /\ ListedIsOpen
    BY <1>3, OpenerIsNoUser DEF SessionInit, Unopened, Writers, ClosedIsRetired, ListedIsOpen
  <1>5. AnswerMeansEnded /\ ToldMeansEnded
    BY DEF SessionInit, AnswerMeansEnded, ToldMeansEnded
  <1> QED
    BY <1>1, <1>2, <1>3, <1>4, <1>5 DEF SessionIInv

-----------------------------------------------------------------------------
(* Calls.                                                                   *)
CallsSafe == AnswerMeansEnded /\ ToldMeansEnded

LEMMA CallsNext ==
  ASSUME SessionIInv, [SessionNext]_sessionVars
  PROVE  CallsSafe' /\ call' \in [Calls -> CallPlaces] /\ respCh' \subseteq Calls /\ pending' \subseteq Calls
         /\ node' \in [Calls -> {"none", "runs", "told", "ended"}]
  <1> USE DEF CallsSafe, AnswerMeansEnded, ToldMeansEnded, SessionIInv, Data, CallPlaces, Returned
  <1>1. ASSUME NEW c \in Calls, List(c) \/ Request(c) \/ Lost(c) \/ Expire(c)
        PROVE  CallsSafe' /\ call' \in [Calls -> CallPlaces] /\ respCh' \subseteq Calls /\ pending' \subseteq Calls
               /\ node' \in [Calls -> {"none", "runs", "told", "ended"}]
    <2>1. CASE List(c)
      BY <2>1 DEF List
    <2>2. CASE Request(c)
      <3>1. CASE Sends /\ call' = [call EXCEPT ![c] = "waits"] /\ node' = [node EXCEPT ![c] = "runs"] /\ pending' = pending
        BY <2>2, <3>1 DEF Request
      <3>2. CASE Return(c, "unsent") /\ node' = node
        BY <2>2, <3>2 DEF Request, Return
      <3> QED
        BY <2>2, <3>1, <3>2 DEF Request
    <2>3. CASE Lost(c)
      BY <2>3 DEF Lost, Return
    <2>4. CASE Expire(c)
      <3>1. PICK n \in {"none", "runs", "told", "ended"} :
              /\ node' = [node EXCEPT ![c] = n]
              /\ node[c] = "ended" => n = "ended"
              /\ node[c] \in {"told", "ended"} => n \in {"told", "ended"}
        <4>1. node = [node EXCEPT ![c] = node[c]] /\ node[c] \in {"none", "runs", "told", "ended"}
          OBVIOUS
        <4>2. CASE node' = node
          BY <4>1, <4>2
        <4>3. CASE node' = [node EXCEPT ![c] = IF node[c] = "runs" THEN "told" ELSE node[c]]
          BY <4>1, <4>3
        <4> QED
          BY <2>4, <4>2, <4>3 DEF Expire
      <3>2. call' = [call EXCEPT ![c] = "cancels"] /\ respCh' = respCh /\ pending' = pending
        BY <2>4 DEF Expire
      <3> QED
        BY <3>1, <3>2
    <2> QED
      BY <1>1, <2>1, <2>2, <2>3, <2>4
  <1>2. ASSUME NEW c \in Calls, Answered(c) \/ Acknowledged(c)
        PROVE  CallsSafe' /\ call' \in [Calls -> CallPlaces] /\ respCh' \subseteq Calls /\ pending' \subseteq Calls
               /\ node' \in [Calls -> {"none", "runs", "told", "ended"}]
    BY <1>2 DEF Answered, Acknowledged, Stopped, Return
  <1>3. ASSUME NEW c \in Calls, NodeEnds(c)
        PROVE  CallsSafe' /\ call' \in [Calls -> CallPlaces] /\ respCh' \subseteq Calls /\ pending' \subseteq Calls
               /\ node' \in [Calls -> {"none", "runs", "told", "ended"}]
    BY <1>3 DEF NodeEnds
  <1>4. ASSUME call' = call, respCh' = respCh, node' = node, pending' \in {pending, {}}
        PROVE  CallsSafe' /\ call' \in [Calls -> CallPlaces] /\ respCh' \subseteq Calls /\ pending' \subseteq Calls
               /\ node' \in [Calls -> {"none", "runs", "told", "ended"}]
    BY <1>4
  <1>5. ASSUME NEW t \in Threads, Find(t) \/ ThreadStep(t)
        PROVE  call' = call /\ respCh' = respCh /\ node' = node /\ pending' = pending
    BY <1>5 DEF Find, ThreadStep, Lock, Input, Close, Unlist, callVars
  <1>6. CASE ListShell \/ Open \/ Await \/ Ready \/ ChildEnds \/ Drop \/ CloseAllSessions \/ UNCHANGED sessionVars
    <2>1. call' = call /\ respCh' = respCh /\ node' = node /\ pending' \in {pending, {}}
      BY <1>6 DEF ListShell, Open, Await, Ready, ChildEnds, Drop, CloseAllSessions, sessionVars, callVars
    <2> QED
      BY <1>4, <2>1
  <1> QED
    BY <1>1, <1>2, <1>3, <1>4, <1>5, <1>6 DEF SessionNext, CallStep

-----------------------------------------------------------------------------
(* Flags.                                                                   *)
LEMMA FlagsNext == ASSUME Flags, [SessionNext]_sessionVars PROVE Flags'
  <1> USE DEF Flags
  <1>1. ASSUME NEW c \in Calls, CallStep(c) \/ NodeEnds(c) PROVE Flags'
    BY <1>1, Zenon DEF CallStep, List, Request, Answered, Lost, Expire, Acknowledged, NodeEnds, Sends, NotSent,
       shellVars
  <1>2. ASSUME NEW t \in Threads, Find(t) \/ ThreadStep(t) PROVE Flags'
    BY <1>2, Zenon DEF Find, ThreadStep, Lock, Input, Close, Unlist, Retired, Sends, NotSent, callVars
  <1>3. CASE ListShell \/ Open \/ Await
    BY <1>3, Zenon DEF ListShell, Open, Await, Retired, Sends, NotSent, callVars
  <1>4. CASE Ready \/ ChildEnds \/ Drop \/ CloseAllSessions
    BY <1>4, Zenon DEF Ready, ChildEnds, Drop, CloseAllSessions, Retired, callVars, shellVars
  <1>5. CASE UNCHANGED sessionVars
    BY <1>5, Zenon DEF sessionVars, shellVars
  <1> QED
    BY <1>1, <1>2, <1>3, <1>4, <1>5 DEF SessionNext

-----------------------------------------------------------------------------
(* The shell.                                                               *)
ShellTyped ==
    /\ user \in [Threads -> UserPlaces] /\ ioMu \in Threads \cup {NoUser}
    /\ wire \in Seq(Frames) /\ pty \in {"none", "runs", "gone"}

ShellSafe == ShellTyped /\ Unopened /\ Writers /\ ClosedIsRetired /\ WireOrder /\ ListedIsOpen

LEMMA FirstFrame == ASSUME wire = <<>>, wire' = Append(wire, "open")
                    PROVE  wire' \in Seq(Frames) /\ wire' # <<>> /\ NoClose' /\ WireOrder'
  <1>1. wire' = <<"open">>
    OBVIOUS
  <1> QED
    BY <1>1 DEF Frames, NoClose, WireOrder

LEMMA NextFrame ==
  ASSUME wire \in Seq(Frames), wire # <<>>, WireOrder, NoClose, NEW f \in {"data", "close"},
         wire' = Append(wire, f)
  PROVE  /\ wire' \in Seq(Frames) /\ wire' # <<>> /\ WireOrder'
         /\ f = "data" => NoClose'
  <1>1. /\ Len(wire') = Len(wire) + 1 /\ Len(wire) \in Nat /\ Len(wire) > 0 /\ wire' \in Seq(Frames)
        /\ wire'[Len(wire) + 1] = f /\ \A i \in 1..Len(wire) : wire'[i] = wire[i]
    BY DEF Frames
  <1>2. WireOrder'
    BY <1>1 DEF WireOrder, NoClose
  <1>3. f = "data" => NoClose'
    BY <1>1 DEF NoClose
  <1> QED
    BY <1>1, <1>2, <1>3

LEMMA SameShell == ASSUME ShellSafe, UNCHANGED <<shellVars, doneCh>> PROVE ShellSafe'
  BY DEF ShellSafe, ShellTyped, Unopened, Writers, ClosedIsRetired, NoClose, WireOrder, ListedIsOpen, shellVars

LEMMA ListShellSafe == ASSUME ShellSafe, ListShell PROVE ShellSafe'
  <1> USE OpenerIsNoUser DEF ShellSafe, ShellTyped, UserPlaces
  <1>1. wire = <<>> /\ wire' = wire /\ NoClose' /\ WireOrder' /\ ~closed /\ ~listed /\ closed' = closed
        /\ doneCh' = doneCh /\ pty' = pty /\ ioMu = NoUser
    BY DEF ListShell, Unopened, NoClose, WireOrder
  <1>2. \A t \in ShellUsers : user[t] = "idle" /\ user'[t] = "idle"
    BY DEF ListShell, Unopened, Place
  <1>3. \/ user'[Opener] = "gone" /\ ~listed' /\ ioMu' = ioMu
        \/ user'[Opener] = "opens" /\ listed' /\ ~doneCh /\ ioMu' = Opener
    BY <1>1 DEF ListShell, Place, TooLate
  <1>4. ShellTyped'
    BY <1>1, <1>3 DEF ListShell, Place
  <1>5. Unopened' /\ Writers'
    BY <1>1, <1>2, <1>3 DEF Unopened, Writers, Threads
  <1>6. ClosedIsRetired' /\ ListedIsOpen'
    BY <1>1, <1>3 DEF ClosedIsRetired, ListedIsOpen
  <1> QED
    BY <1>1, <1>4, <1>5, <1>6

LEMMA OpenSafe == ASSUME ShellSafe, Open PROVE ShellSafe'
  <1> USE OpenerIsNoUser DEF ShellSafe, ShellTyped, UserPlaces
  <1>1. wire = <<>> /\ ioMu = Opener /\ ioMu' = NoUser /\ doneCh' = doneCh
    BY DEF Open, Unopened
  <1>2. \A t \in Threads : user[t] \notin {"inputs", "closes", "wrote"}
    BY <1>1 DEF Writers
  <1>3. \A t \in Threads \ {Opener} : user'[t] = user[t]
    BY DEF Open, Place
  <1>4. CASE Sends /\ Place(Opener, "opened") /\ wire' = Append(wire, "open") /\ pty' = "runs"
             /\ UNCHANGED <<listed, closed>>
    <2>1. wire' \in Seq(Frames) /\ wire' # <<>> /\ NoClose' /\ WireOrder'
      BY <1>1, <1>4, FirstFrame
    <2>2. user'[Opener] = "opened" /\ user' \in [Threads -> UserPlaces]
      BY <1>4 DEF Place
    <2>3. Unopened' /\ Writers' /\ ClosedIsRetired'
      BY <1>2, <1>3, <2>1, <2>2 DEF Unopened, Writers, ClosedIsRetired
    <2>4. ListedIsOpen'
      BY <1>1, <1>4 DEF ListedIsOpen
    <2> QED
      BY <1>1, <1>4, <2>1, <2>2, <2>3, <2>4
  <1>5. CASE NotSent /\ Place(Opener, "gone") /\ Retired /\ UNCHANGED <<wire, pty>>
    <2>1. user'[Opener] = "gone" /\ user' \in [Threads -> UserPlaces] /\ ~listed' /\ closed' /\ wire' = <<>>
      BY <1>1, <1>5 DEF Place, Retired
    <2>2. NoClose' /\ WireOrder'
      BY <2>1 DEF NoClose, WireOrder
    <2>3. Unopened' /\ Writers' /\ ClosedIsRetired' /\ ListedIsOpen'
      BY <1>2, <1>3, <2>1, <2>2 DEF Unopened, Writers, ClosedIsRetired, ListedIsOpen
    <2> QED
      BY <1>1, <1>5, <2>1, <2>2, <2>3
  <1> QED
    BY <1>4, <1>5 DEF Open

\* Steps that move a user, or take its lock, and leave the shell alone.
LEMMA AwaitSafe == ASSUME ShellSafe, Await PROVE ShellSafe'
  <1> USE OpenerIsNoUser DEF ShellSafe, ShellTyped, UserPlaces
  <1>1. UNCHANGED <<listed, closed, ioMu, wire, pty, doneCh>> /\ user[Opener] = "opened"
    BY DEF Await
  <1>2. user'[Opener] \in {"gone", "close"} /\ user' \in [Threads -> UserPlaces]
        /\ \A t \in Threads \ {Opener} : user'[t] = user[t]
    BY DEF Await, Place
  <1>3. user'[Opener] = "close" => listed
    BY DEF Await, Place
  <1>4. Unopened' /\ Writers' /\ ClosedIsRetired'
    BY <1>1, <1>2, <1>3 DEF Unopened, Writers, ClosedIsRetired, NoClose
  <1> QED
    BY <1>1, <1>2, <1>4 DEF WireOrder, ListedIsOpen

LEMMA FindSafe == ASSUME ShellSafe, NEW t \in Threads, Find(t) PROVE ShellSafe'
  <1> USE OpenerIsNoUser DEF ShellSafe, ShellTyped, UserPlaces
  <1>1. UNCHANGED <<listed, closed, ioMu, wire, pty, doneCh>> /\ user[t] = "idle" /\ t \in ShellUsers /\ listed
    BY DEF Find
  <1>2. user'[t] \in {"input", "close"} /\ user' \in [Threads -> UserPlaces]
        /\ \A u \in Threads \ {t} : user'[u] = user[u]
    BY DEF Find, Place
  <1>3. Unopened' /\ Writers' /\ ClosedIsRetired'
    BY <1>1, <1>2 DEF Unopened, Writers, ClosedIsRetired, NoClose
  <1> QED
    BY <1>1, <1>2, <1>3 DEF WireOrder, ListedIsOpen

LEMMA LockSafe == ASSUME ShellSafe, NEW t \in Threads, Lock(t) PROVE ShellSafe'
  <1> USE OpenerIsNoUser DEF ShellSafe, ShellTyped, UserPlaces
  <1>1. UNCHANGED <<listed, closed, wire, pty, doneCh>> /\ user[t] \in {"input", "close"} /\ ioMu = NoUser
    BY DEF Lock
  <1>2. \A u \in Threads : user[u] \notin {"inputs", "closes", "wrote"}
    BY <1>1 DEF Writers
  <1>3. user[Opener] # "opens" /\ (user[Opener] = "idle" => t = Opener)
    BY <1>1 DEF Unopened, Threads
  <1>4. CASE ~Active(t)
    <2>1. user'[t] = "gone" /\ user' \in [Threads -> UserPlaces] /\ ioMu' = ioMu
          /\ \A u \in Threads \ {t} : user'[u] = user[u]
      BY <1>4 DEF Lock, Place
    <2>2. Unopened' /\ Writers' /\ ClosedIsRetired'
      BY <1>1, <1>2, <1>3, <2>1 DEF Unopened, Writers, ClosedIsRetired, NoClose
    <2> QED
      BY <1>1, <2>1, <2>2 DEF WireOrder, ListedIsOpen
  <1>5. CASE Active(t)
    <2>1. user'[t] \in {"inputs", "closes"} /\ user' \in [Threads -> UserPlaces] /\ ioMu' = t
          /\ \A u \in Threads \ {t} : user'[u] = user[u]
      BY <1>1, <1>5 DEF Lock, Place
    <2>2. listed \/ ~closed
      BY <1>5 DEF Active
    <2>3. NoClose
      BY <1>2, <2>2 DEF ClosedIsRetired
    <2>4. wire # <<>>
      BY <1>1, <1>3, <2>2 DEF Unopened
    <2>5. Unopened' /\ Writers' /\ ClosedIsRetired'
      BY <1>1, <1>2, <1>3, <2>1, <2>3, <2>4 DEF Unopened, Writers, ClosedIsRetired, NoClose
    <2> QED
      BY <1>1, <2>1, <2>5 DEF WireOrder, ListedIsOpen
  <1> QED
    BY <1>4, <1>5

LEMMA InputSafe == ASSUME ShellSafe, NEW t \in Threads, Input(t) PROVE ShellSafe'
  <1> USE OpenerIsNoUser DEF ShellSafe, ShellTyped, UserPlaces
  <1>1. /\ UNCHANGED <<listed, closed, pty, doneCh>> /\ user[t] = "inputs" /\ ioMu = t /\ wire # <<>> /\ NoClose
        /\ ioMu' = NoUser
    BY DEF Input, Writers
  <1>2. \A u \in Threads \ {t} : user[u] \notin {"inputs", "closes", "wrote"}
    BY <1>1 DEF Writers
  <1>3. user'[t] = "gone" /\ user' \in [Threads -> UserPlaces] /\ \A u \in Threads \ {t} : user'[u] = user[u]
    BY DEF Input, Place
  <1>4. wire' = wire \/ wire' = Append(wire, "data")
    BY DEF Input
  <1>5. wire' \in Seq(Frames) /\ wire' # <<>> /\ WireOrder' /\ NoClose'
    BY <1>1, <1>4, NextFrame DEF WireOrder, NoClose
  <1>6. Unopened' /\ Writers' /\ ClosedIsRetired'
    BY <1>1, <1>2, <1>3, <1>5 DEF Unopened, Writers, ClosedIsRetired
  <1> QED
    BY <1>1, <1>3, <1>5, <1>6 DEF ListedIsOpen

LEMMA CloseSafe == ASSUME ShellSafe, NEW t \in Threads, Close(t) PROVE ShellSafe'
  <1> USE OpenerIsNoUser DEF ShellSafe, ShellTyped, UserPlaces
  <1>1. UNCHANGED <<listed, closed, ioMu, doneCh>> /\ user[t] = "closes" /\ ioMu = t /\ wire # <<>> /\ NoClose
    BY DEF Close, Writers
  <1>2. \A u \in Threads \ {t} : user[u] \notin {"inputs", "closes", "wrote"}
    BY <1>1 DEF Writers
  <1>3. user'[t] = "wrote" /\ user' \in [Threads -> UserPlaces] /\ \A u \in Threads \ {t} : user'[u] = user[u]
    BY DEF Close, Place
  <1>4. wire' = wire \/ wire' = Append(wire, "close")
    BY DEF Close
  <1>5. wire' \in Seq(Frames) /\ wire' # <<>> /\ WireOrder'
    BY <1>1, <1>4, NextFrame DEF WireOrder
  <1>6. Unopened' /\ Writers' /\ ClosedIsRetired'
    BY <1>1, <1>2, <1>3, <1>5 DEF Unopened, Writers, ClosedIsRetired
  <1>7. pty' \in {"none", "runs", "gone"}
    BY DEF Close
  <1> QED
    BY <1>1, <1>3, <1>5, <1>6, <1>7 DEF ListedIsOpen

LEMMA UnlistSafe == ASSUME ShellSafe, NEW t \in Threads, Unlist(t) PROVE ShellSafe'
  <1> USE OpenerIsNoUser DEF ShellSafe, ShellTyped, UserPlaces
  <1>1. /\ UNCHANGED <<wire, pty, doneCh>> /\ user[t] = "wrote" /\ ioMu = t /\ wire # <<>> /\ ioMu' = NoUser
        /\ ~listed' /\ closed'
    BY DEF Unlist, Writers, Retired
  <1>2. \A u \in Threads \ {t} : user[u] \notin {"inputs", "closes", "wrote"}
    BY <1>1 DEF Writers
  <1>3. user'[t] = "gone" /\ user' \in [Threads -> UserPlaces] /\ \A u \in Threads \ {t} : user'[u] = user[u]
    BY DEF Unlist, Place
  <1>4. Unopened' /\ Writers' /\ ClosedIsRetired' /\ ListedIsOpen'
    BY <1>1, <1>2, <1>3 DEF Unopened, Writers, ClosedIsRetired, ListedIsOpen
  <1> QED
    BY <1>1, <1>3, <1>4 DEF WireOrder

\* The agent's child ends, or the connection does: a listed shell is retired.
LEMMA RetireSafe ==
  ASSUME ShellSafe, UNCHANGED <<user, ioMu, wire>>, pty' \in {"none", "runs", "gone"},
         IF listed THEN Retired ELSE UNCHANGED <<listed, closed>>
  PROVE  ShellSafe'
  <1> USE DEF ShellSafe, ShellTyped
  <1>1. ~listed' /\ (closed => closed')
    BY DEF Retired
  <1>2. user[Opener] = "idle" => ~closed'
    BY DEF Unopened
  <1>3. Unopened' /\ Writers' /\ ClosedIsRetired'
    BY <1>1, <1>2 DEF Unopened, Writers, ClosedIsRetired, NoClose, Retired
  <1> QED
    BY <1>1, <1>3 DEF WireOrder, ListedIsOpen

LEMMA ShellNext == ASSUME ShellSafe, [SessionNext]_sessionVars PROVE ShellSafe'
  <1>1. ASSUME NEW c \in Calls, CallStep(c) \/ NodeEnds(c) PROVE ShellSafe'
    <2>1. UNCHANGED <<shellVars, doneCh>>
      BY <1>1 DEF CallStep, List, Request, Answered, Lost, Expire, Acknowledged, NodeEnds
    <2> QED
      BY <2>1, SameShell
  <1>2. CASE Drop \/ UNCHANGED sessionVars
    BY <1>2, SameShell DEF Drop, sessionVars
  <1>3. CASE Ready
    BY <1>3 DEF Ready, ShellSafe, ShellTyped, Unopened, Writers, ClosedIsRetired, NoClose, WireOrder, ListedIsOpen
  <1>4. CASE ChildEnds
    BY <1>4, RetireSafe DEF ChildEnds
  <1>5. CASE CloseAllSessions
    BY <1>5, RetireSafe DEF CloseAllSessions, ShellSafe, ShellTyped
  <1> QED
    BY <1>1, <1>2, <1>3, <1>4, <1>5, ListShellSafe, OpenSafe, AwaitSafe, FindSafe, LockSafe, InputSafe,
       CloseSafe, UnlistSafe
    DEF SessionNext, ThreadStep

LEMMA SessionIInvAlways == SessionSpec => []SessionIInv
  <1>1. SessionIInv /\ [SessionNext]_sessionVars => SessionIInv'
    <2> SUFFICES ASSUME SessionIInv, [SessionNext]_sessionVars PROVE SessionIInv'
      OBVIOUS
    <2>1. ShellSafe'
      BY ShellNext DEF SessionIInv, ShellSafe, ShellTyped, Data
    <2>2. Flags'
      BY FlagsNext DEF SessionIInv
    <2> QED
      BY <2>1, <2>2, CallsNext DEF SessionIInv, ShellSafe, ShellTyped, Data, CallsSafe
  <1> QED
    BY <1>1, InitHolds, PTL DEF SessionSpec

\* Every reachable state of a connection is well typed.
THEOREM SessionTypeCorrect == SessionSpec => []SessionTypeOK
  BY SessionIInvAlways, TypesAre, PTL

\* A caller told that its command ended, or was stopped, is told the truth; the agent sees the shell
\* opened first and nothing of it after a close; a listed shell is open and its connection lives.
THEOREM SessionSafeAlways == SessionSpec => []SessionSafe
  <1>1. SessionIInv => SessionSafe
    BY DEF SessionIInv, SessionSafe
  <1> QED
    BY <1>1, SessionIInvAlways, PTL

-----------------------------------------------------------------------------
(* The controller's forwards, for any number of rows, listeners, connections,   *)
(* failures and restarts.  Who starts or stops one has the lock of its row, and   *)
(* holds a listener from the bind to its entry in the map: the invariant says       *)
(* that no two hold the same one, that the map leads to a bound listener of the    *)
(* row, and that whoever is past the entry holds the one that is entered.         *)

Places == {"next", "reload", "look", "listen", "attach", "enter", "serve", "started", "failed",
           "in use", "stop", "wait", "stopped"}
Work == {"none", "create", "delete", "ensure", "orphans", "retire", "repair", "disconnect"}

SeenTypes == [Ports -> Recovered \cup {"none"}]
WorkTypes == [op : Work, todo : SUBSET Ports, seen : SeenTypes,
              port : Ports \cup {None}, at : Places, sock : Socks \cup {None}, tries : 0..Retries]
SockTypes == [port : Ports \cup {None}, conn : 0..MaxConns, st : {"free", "bound", "up", "shut"}, stop : BOOLEAN]

RunTyped == run \in [Actors -> WorkTypes]

NetTyped ==
    /\ known \in [Ports -> Socks \cup {None}]
    /\ sock \in [Socks -> SockTypes]

RowsTyped == portStatus \in [Ports -> {"none", "pending", "active", "deleting", "error", "gone"}]

LinkTyped ==
    /\ hubLink \in [conn : 0..MaxConns, last : 0..MaxConns,
                    edge : {"none", "withdrawn", "stopping", "stopped"}]
    /\ breaks \in 0..MaxBreaks /\ restarts \in 0..MaxRestarts

\* Who has work has a row in hand, and a restarted listener is tried anew for each row.
AtWork == \A a \in Actors :
    /\ run[a].op = "none" => run[a] = AtRest
    /\ run[a].at # "next" => run[a].port \in Ports
    /\ run[a].at \in {"next", "stop", "wait", "stopped"} => run[a].tries = 0

\* A row is restarted while its count is below the limit; only the holder counts.
FailsFit ==
    /\ fails \in [Ports -> 0..MaxRepair]
    /\ run["holder"].op = "repair" /\ run["holder"].at # "next" => fails[run["holder"].port] < MaxRepair

ForwardTyped == RunTyped /\ NetTyped /\ RowsTyped /\ LinkTyped /\ AtWork /\ FailsFit

LEMMA AtRestTyped == AtRest \in WorkTypes
  BY PortForwardAssumption DEF AtRest, Work, Places, SeenTypes, WorkTypes

LEMMA NoSockTyped == NoSock \in SockTypes
  BY PortForwardAssumption DEF NoSock, SockTypes

\* A listener that has just been bound.
LEMMA NewSock ==
  ASSUME NEW p \in Ports
  PROVE  LET s == [NoSock EXCEPT !.port = p, !.st = "bound"] IN
         s \in SockTypes /\ s.port = p /\ s.st = "bound" /\ ~s.stop
  <1>1. ASSUME NEW r \in SockTypes
        PROVE  LET s == [r EXCEPT !.port = p, !.st = "bound"] IN
               s \in SockTypes /\ s.port = p /\ s.st = "bound" /\ s.stop = r.stop
    BY DEF SockTypes
  <1>2. ~NoSock.stop
    BY DEF NoSock
  <1> QED
    BY <1>1, <1>2, NoSockTyped

LEMMA ForwardTypedInit == PortForwardInit => ForwardTyped
  <1> SUFFICES ASSUME PortForwardInit PROVE ForwardTyped
    OBVIOUS
  <1> USE PortForwardAssumption DEF PortForwardInit
  <1>1. RunTyped
    BY AtRestTyped DEF RunTyped
  <1>2. NetTyped
    BY NoSockTyped DEF NetTyped
  <1>3. RowsTyped /\ LinkTyped
    BY DEF RowsTyped, LinkTyped
  <1>4. AtWork /\ FailsFit
    BY DEF AtWork, FailsFit, AtRest, Actors
  <1> QED
    BY <1>1, <1>2, <1>3, <1>4 DEF ForwardTyped

\* A step that only takes the work of one of them to its next place.
OnlyMoves(a, at, s) ==
    /\ run'[a].at = at /\ run'[a].sock = s /\ run'[a].op = run[a].op /\ run'[a].port = run[a].port
    /\ run'[a].tries = run[a].tries /\ run'[a].todo = run[a].todo
    /\ \A b \in Actors \ {a} : run'[b] = run[b]

LEMMA GoesMoves ==
  ASSUME RunTyped, NEW a \in Actors, NEW at \in Places, Goes(a, at)
  PROVE  RunTyped' /\ OnlyMoves(a, at, run[a].sock)
  BY DEF RunTyped, WorkTypes, Goes, OnlyMoves

LEMMA GoesWithMoves ==
  ASSUME RunTyped, NEW a \in Actors, NEW at \in Places, NEW s \in Socks \cup {None},
         run' = [run EXCEPT ![a].at = at, ![a].sock = s]
  PROVE  RunTyped' /\ OnlyMoves(a, at, s)
  BY DEF RunTyped, WorkTypes, OnlyMoves

LEMMA ReloadMoves ==
  ASSUME RunTyped, NEW a \in Actors, NEW p \in Ports, portStatus[p] \in Recovered,
         run' = [run EXCEPT ![a].at = "look", ![a].seen[p] = portStatus[p]]
  PROVE  RunTyped' /\ OnlyMoves(a, "look", run[a].sock)
  <1> DEFINE Seen == [run[a].seen EXCEPT ![p] = portStatus[p]]
  <1>1. Seen \in SeenTypes
    BY DEF RunTyped, WorkTypes, SeenTypes
  <1>2. run' = [run EXCEPT ![a].at = "look", ![a].seen = Seen]
    BY DEF RunTyped, WorkTypes
  <1>3. ASSUME NEW f \in SeenTypes, NEW at \in Places, run' = [run EXCEPT ![a].at = at, ![a].seen = f]
        PROVE  RunTyped' /\ OnlyMoves(a, at, run[a].sock)
    <2>1. RunTyped'
      <3>1. ASSUME NEW r \in WorkTypes PROVE [r EXCEPT !.at = at, !.seen = f] \in WorkTypes
        BY DEF WorkTypes
      <3>2. [run[a] EXCEPT !.at = at, !.seen = f] \in WorkTypes /\ \A b \in Actors : run[b] \in WorkTypes
        BY <3>1 DEF RunTyped
      <3>3. run' = [run EXCEPT ![a] = [run[a] EXCEPT !.at = at, !.seen = f]]
        BY <1>3 DEF RunTyped, WorkTypes
      <3> QED
        BY <3>2, <3>3 DEF RunTyped
    <2>2. OnlyMoves(a, at, run[a].sock)
      BY <1>3 DEF RunTyped, WorkTypes, OnlyMoves
    <2> QED
      BY <2>1, <2>2
  <1>4. "look" \in Places
    BY DEF Places
  <1> HIDE DEF Seen
  <1> QED
    BY <1>1, <1>2, <1>3, <1>4

\* The places a step of a start begins and ends at.
LEMMA StartingMoves ==
  ASSUME RunTyped, NetTyped, AtWork, NEW a \in Actors, Starting(a)
  PROVE  /\ RunTyped'
         /\ run[a].at \in {"reload", "look", "listen", "attach", "enter", "serve"} /\ run[a].port \in Ports
         /\ \E at \in Places \ {"next", "stop", "wait", "stopped"}, s \in Socks \cup {None} : OnlyMoves(a, at, s)
  <1>0. /\ run[a].at \in {"reload", "look", "listen", "attach", "enter", "serve"} /\ run[a].port \in Ports
        /\ run[a].sock \in Socks \cup {None} /\ run[a].at \in Places
    BY DEF RunTyped, WorkTypes, AtWork, Starting, Reload, LookUp, Listen, Attach, Enter, Serves
  <1> DEFINE Moves == RunTyped' /\ \E at \in Places \ {"next", "stop", "wait", "stopped"}, s \in Socks \cup {None} : OnlyMoves(a, at, s)
  <1>1. ASSUME NEW at \in {"look", "listen", "started", "failed", "in use", "enter", "serve"}, Goes(a, at) PROVE Moves
    BY <1>0, <1>1, GoesMoves DEF Places
  <1>2. ASSUME NEW at \in {"attach", "failed", "started"}, NEW s \in Socks \cup {None},
               run' = [run EXCEPT ![a].at = at, ![a].sock = s] PROVE Moves
    BY <1>2, GoesWithMoves DEF Places
  <1>3. ASSUME NEW p \in Ports, portStatus[p] \in Recovered,
               run' = [run EXCEPT ![a].at = "look", ![a].seen[p] = portStatus[p]] PROVE Moves
    BY <1>0, <1>3, ReloadMoves DEF Places
  <1> HIDE DEF Moves
  <1>4. ASSUME Reload(a) PROVE Moves
    BY <1>0, <1>1, <1>3, <1>4 DEF Reload
  <1>5. ASSUME LookUp(a) PROVE Moves
    BY <1>1, <1>5 DEF LookUp
  <1>6. ASSUME Listen(a) PROVE Moves
    BY <1>1, <1>2, <1>6 DEF Listen, Unused
  <1>7. ASSUME Attach(a) PROVE Moves
    BY <1>1, <1>2, <1>7 DEF Attach
  <1>8. ASSUME Enter(a) PROVE Moves
    BY <1>1, <1>2, <1>8 DEF Enter
  <1>9. ASSUME Serves(a) PROVE Moves
    BY <1>2, <1>9 DEF Serves
  <1> QED
    BY <1>0, <1>4, <1>5, <1>6, <1>7, <1>8, <1>9 DEF Starting, Moves

\* A step of one of them changes the place of its own work only.
LEMMA StartingTyped ==
  ASSUME ForwardTyped, NEW a \in Actors, Starting(a) PROVE ForwardTyped'
  <1> USE PortForwardAssumption
  <1>0. /\ RunTyped' /\ run[a].at # "next" /\ run[a].op # "none" /\ run[a].port \in Ports /\ run[a].sock \in Socks \cup {None}
        /\ RunTyped /\ NetTyped /\ AtWork /\ LinkTyped /\ RowsTyped /\ FailsFit
    BY StartingMoves DEF ForwardTyped, RunTyped, WorkTypes, AtWork, AtRest
  <1>1. LinkTyped' /\ fails' = fails
    BY <1>0 DEF Starting, Reload, LookUp, Listen, Attach, Enter, Serves, LinkTyped, linkVars
  <1>2. RowsTyped'
    <2>1. portStatus' = portStatus \/ portStatus' = Recorded(run[a].port, "active")
      BY DEF Starting, Reload, LookUp, Listen, Attach, Enter, Serves
    <2> QED
      BY <1>0, <2>1 DEF RowsTyped, Recorded
  <1>3. NetTyped'
    <2>0. (known' = known \/ \E s \in Socks \cup {None} : known' = [known EXCEPT ![run[a].port] = s]) => known' \in [Ports -> Socks \cup {None}]
      BY <1>0 DEF NetTyped
    <2>1. CASE Listen(a)
      <3>1. [NoSock EXCEPT !.port = run[a].port, !.st = "bound"] \in SockTypes
        BY <1>0, NewSock
      <3>2. ASSUME NEW t \in Socks, sock' = [sock EXCEPT ![t] = [NoSock EXCEPT !.port = run[a].port, !.st = "bound"]],
                   known' = known
            PROVE  NetTyped'
        BY <1>0, <3>1, <3>2 DEF NetTyped
      <3>3. CASE sock' = sock
        BY <1>0, <2>1, <3>3 DEF Listen, NetTyped
      <3> QED
        BY <2>1, <3>2, <3>3 DEF Listen, Unused
    <2>2. CASE Attach(a)
      <3>1. hubLink.conn \in 0..MaxConns
        BY <1>0 DEF LinkTyped
      <3> HIDE DEF NoSock
      <3>2. NoSock \in SockTypes
        BY NoSockTyped
      <3> QED
        BY <1>0, <2>2, <3>1, <3>2 DEF Attach, NetTyped, SockTypes
    <2>3. CASE Enter(a)
      <3>2. NoSock \in SockTypes
        BY NoSockTyped
      <3> QED
        BY <1>0, <2>0, <2>3, <3>2 DEF Enter, NetTyped
    <2>4. CASE Serves(a)
      BY <1>0, <2>4 DEF Serves, NetTyped, SockTypes
    <2>5. CASE Reload(a) \/ LookUp(a)
      BY <1>0, <2>5 DEF Reload, LookUp, NetTyped, netVars
    <2> QED
      BY <2>1, <2>2, <2>3, <2>4, <2>5 DEF Starting
  <1>4. PICK at \in Places \ {"next", "stop", "wait", "stopped"}, s \in Socks \cup {None} : OnlyMoves(a, at, s)
    BY <1>0, StartingMoves
  <1>5. AtWork'
    BY <1>0, <1>4 DEF AtWork, OnlyMoves
  <1>7. FailsFit'
    BY <1>0, <1>1, <1>4 DEF FailsFit, OnlyMoves, Actors
  <1> QED
    BY <1>0, <1>1, <1>2, <1>3, <1>5, <1>7 DEF ForwardTyped

LEMMA StoppingTyped ==
  ASSUME ForwardTyped, NEW a \in Actors, StopOne(a) \/ Waited(a) PROVE ForwardTyped'
  <1> USE PortForwardAssumption
  <1>0. /\ run[a].at \in {"stop", "wait"} /\ run[a].op # "none" /\ run[a].port \in Ports /\ run[a].sock \in Socks \cup {None}
        /\ RunTyped /\ NetTyped /\ AtWork /\ LinkTyped /\ RowsTyped /\ FailsFit /\ run[a].tries = 0
    BY DEF StopOne, Waited, ForwardTyped, RunTyped, WorkTypes, AtWork, AtRest
  <1>1. RunTyped' /\ \E at \in {"stopped", "wait"}, s \in Socks \cup {None} : OnlyMoves(a, at, s)
    <2>0. ASSUME NEW at \in {"stopped", "wait"}, NEW s \in Socks \cup {None},
                 Goes(a, at) \/ run' = [run EXCEPT ![a].at = at, ![a].sock = s]
          PROVE  RunTyped' /\ \E t \in Socks \cup {None} : OnlyMoves(a, at, t)
      BY <1>0, <2>0, GoesMoves, GoesWithMoves DEF Places
    <2>1. ASSUME StopOne(a) PROVE \E at \in {"stopped", "wait"}, s \in Socks \cup {None} :
                    Goes(a, at) \/ run' = [run EXCEPT ![a].at = at, ![a].sock = s]
      BY <1>0, <2>1 DEF StopOne, NetTyped
    <2>2. ASSUME Waited(a) PROVE \E at \in {"stopped", "wait"}, s \in Socks \cup {None} :
                    Goes(a, at) \/ run' = [run EXCEPT ![a].at = at, ![a].sock = s]
      BY <2>2 DEF Waited
    <2> QED
      BY <2>0, <2>1, <2>2
  <1>2. PICK at \in {"stopped", "wait"}, s \in Socks \cup {None} : OnlyMoves(a, at, s)
    BY <1>1
  <1>3. NetTyped'
    <2>1. CASE StopOne(a)
      <3>1. known[run[a].port] \in Socks \cup {None}
        BY <1>0 DEF NetTyped
      <3>2. CASE known[run[a].port] = None
        BY <1>0, <2>1, <3>2 DEF StopOne, NetTyped, netVars
      <3>3. CASE known[run[a].port] \in Socks
        <4>1. /\ sock' = [sock EXCEPT ![known[run[a].port]].stop = TRUE]
              /\ known' = [known EXCEPT ![run[a].port] = None]
          BY <1>0, <2>1, <3>3 DEF StopOne
        <4> QED
          BY <1>0, <3>3, <4>1 DEF NetTyped, SockTypes
      <3> QED
        BY <3>1, <3>2, <3>3
    <2>2. CASE Waited(a)
      BY <1>0, <2>2 DEF Waited, NetTyped, netVars
    <2> QED
      BY <2>1, <2>2
  <1>4. RowsTyped' /\ LinkTyped' /\ fails' = fails
    BY <1>0 DEF StopOne, Waited, RowsTyped, LinkTyped, linkVars
  <1>5. AtWork'
    BY <1>0, <1>2 DEF AtWork, OnlyMoves
  <1>6. FailsFit'
    BY <1>0, <1>2, <1>4 DEF FailsFit, OnlyMoves, Actors
  <1> QED
    BY <1>1, <1>3, <1>4, <1>5, <1>6 DEF ForwardTyped

LEMMA GoroutineTyped ==
  ASSUME ForwardTyped, NEW s \in Socks, CloseSock(s) \/ Exit(s) PROVE ForwardTyped'
  <1> USE PortForwardAssumption
  <1>1. /\ RunTyped /\ NetTyped /\ AtWork /\ LinkTyped /\ RowsTyped /\ FailsFit
    BY DEF ForwardTyped
  <1>2. NetTyped'
    <2>1. CASE CloseSock(s)
      BY <1>1, <2>1 DEF CloseSock, NetTyped, SockTypes
    <2>2. CASE Exit(s)
      BY <1>1, <2>2, NoSockTyped DEF Exit, NetTyped
    <2> QED
      BY <2>1, <2>2
  <1>3. /\ LinkTyped'
    BY <1>1 DEF CloseSock, Exit, LinkTyped, linkVars
  <1>4. UNCHANGED <<run, fails, portStatus>>
    BY DEF CloseSock, Exit, runVars
  <1>5. RunTyped' /\ RowsTyped' /\ AtWork' /\ FailsFit'
    BY <1>1, <1>4 DEF RunTyped, RowsTyped, AtWork, FailsFit
  <1> QED
    BY <1>2, <1>3, <1>5 DEF ForwardTyped

\* The rest of the work of one of them: it begins, ends, or takes up another row.
Assigns(a, r) == run' = [run EXCEPT ![a] = r]

LEMMA AssignsTyped ==
  ASSUME RunTyped, AtWork, NEW a \in Actors, NEW r \in WorkTypes, Assigns(a, r),
         r.op = "none" => r = AtRest, r.at # "next" => r.port \in Ports,
         r.at \in {"next", "stop", "wait", "stopped"} => r.tries = 0
  PROVE  RunTyped' /\ AtWork' /\ run'[a] = r /\ \A b \in Actors \ {a} : run'[b] = run[b]
  BY DEF RunTyped, AtWork, Assigns

LEMMA AtRestIs == AtRest.op = "none" /\ AtRest.at = "next" /\ AtRest.tries = 0 /\ AtRest.port = None
  BY DEF AtRest

Taking(r, op, p, at) == [r EXCEPT !.op = op, !.port = p, !.at = at]
Reading(r, op, todo, seen) == [r EXCEPT !.op = op, !.todo = todo, !.seen = seen]

LEMMA Takes ==
  ASSUME NEW r \in WorkTypes, NEW op \in Work, NEW p \in Ports, NEW at \in Places
  PROVE  /\ Taking(r, op, p, at) \in WorkTypes /\ Taking(r, op, p, at).op = op
         /\ Taking(r, op, p, at).port = p /\ Taking(r, op, p, at).at = at
         /\ Taking(r, op, p, at).tries = r.tries
  BY DEF WorkTypes, Taking

LEMMA Reads ==
  ASSUME NEW r \in WorkTypes, NEW op \in Work, NEW todo \in SUBSET Ports, NEW seen \in SeenTypes
  PROVE  /\ Reading(r, op, todo, seen) \in WorkTypes /\ Reading(r, op, todo, seen).op = op
         /\ Reading(r, op, todo, seen).at = r.at /\ Reading(r, op, todo, seen).tries = r.tries
  BY DEF WorkTypes, Reading

Turning(r, op, todo) == [r EXCEPT !.op = op, !.todo = todo]
Picking(r, todo, p, at) == [r EXCEPT !.todo = todo, !.port = p, !.at = at]
Skipping(r, todo) == [r EXCEPT !.todo = todo]
Retrying(r, at, tries) == [r EXCEPT !.at = at, !.tries = tries]

LEMMA Turns ==
  ASSUME NEW r \in WorkTypes, NEW op \in Work, NEW todo \in SUBSET Ports
  PROVE  /\ Turning(r, op, todo) \in WorkTypes /\ Turning(r, op, todo).op = op
         /\ Turning(r, op, todo).at = r.at /\ Turning(r, op, todo).tries = r.tries
  BY DEF WorkTypes, Turning

LEMMA Picks ==
  ASSUME NEW r \in WorkTypes, NEW todo \in SUBSET Ports, NEW p \in Ports, NEW at \in Places
  PROVE  /\ Picking(r, todo, p, at) \in WorkTypes /\ Picking(r, todo, p, at).op = r.op
         /\ Picking(r, todo, p, at).at = at /\ Picking(r, todo, p, at).tries = r.tries
         /\ Picking(r, todo, p, at).port = p
  BY DEF WorkTypes, Picking

LEMMA Skips ==
  ASSUME NEW r \in WorkTypes, NEW todo \in SUBSET Ports
  PROVE  /\ Skipping(r, todo) \in WorkTypes /\ Skipping(r, todo).op = r.op
         /\ Skipping(r, todo).at = r.at /\ Skipping(r, todo).tries = r.tries
  BY DEF WorkTypes, Skipping

LEMMA TriesAgain ==
  ASSUME NEW r \in WorkTypes, NEW at \in Places, NEW tries \in 0..Retries
  PROVE  /\ Retrying(r, at, tries) \in WorkTypes /\ Retrying(r, at, tries).op = r.op
         /\ Retrying(r, at, tries).at = at /\ Retrying(r, at, tries).tries = tries
         /\ Retrying(r, at, tries).port = r.port
  BY DEF WorkTypes, Retrying

\* What a step other than a start, a stop or a restart does to the work of one of them:
\* it was at a place where it has no listener in hand, and is at such a place after.
Loose == {"next", "reload", "look", "stop", "started", "failed", "in use", "stopped"}

LEMMA RequestTyped ==
  ASSUME ForwardTyped, NEW p, (p \in Ports /\ (Create(p) \/ BeginDelete(p))) \/ CreateEnds \/ DeleteEnds
  PROVE  /\ ForwardTyped'
         /\ \E a \in Actors : /\ run[a].at \in Loose /\ run'[a].at \in Loose
                              /\ \A b \in Actors \ {a} : run'[b] = run[b]
  <1> USE PortForwardAssumption
  <1>1. /\ RunTyped /\ NetTyped /\ AtWork /\ LinkTyped /\ RowsTyped /\ FailsFit
        /\ "request" \in Actors /\ "task" \in Actors /\ "holder" \in Actors
    BY DEF ForwardTyped, Actors
  <1>2. NetTyped' /\ LinkTyped' /\ fails' = fails
    BY <1>1 DEF Create, CreateEnds, BeginDelete, DeleteEnds, NetTyped, LinkTyped, netVars, linkVars
  <1>3. RowsTyped'
    BY <1>1 DEF Create, CreateEnds, BeginDelete, DeleteEnds, RowsTyped, Recorded
  <1>4. \E a \in {"request", "task"}, r \in WorkTypes :
           /\ Assigns(a, r) /\ run[a].at \in Loose
           /\ r = AtRest \/ (r.op # "none" /\ r.port \in Ports /\ r.at \in {"reload", "stop"} /\ r.tries = 0)
    <2>1. CASE p \in Ports /\ Create(p)
      <3> DEFINE r == Taking(AtRest, "create", p, "reload")
      <3>0. "create" \in Work /\ "reload" \in Places
        BY DEF Work, Places
      <3>1. r \in WorkTypes /\ r.op = "create" /\ r.port = p /\ r.at = "reload" /\ r.tries = AtRest.tries
        BY <2>1, <3>0, AtRestTyped, Takes
      <3>2. run["request"].at \in Loose /\ AtRest.tries = 0
        BY <1>1, <2>1, AtRestIs DEF Create, AtWork, Loose
      <3> QED
        BY <2>1, <3>1, <3>2 DEF Create, Assigns, Taking
    <2>2. CASE p \in Ports /\ BeginDelete(p)
      <3> DEFINE r == Taking(AtRest, "delete", p, "stop")
      <3>0. "delete" \in Work /\ "stop" \in Places
        BY DEF Work, Places
      <3>1. r \in WorkTypes /\ r.op = "delete" /\ r.port = p /\ r.at = "stop" /\ r.tries = AtRest.tries
        BY <2>2, <3>0, AtRestTyped, Takes
      <3>2. run["task"].at \in Loose /\ AtRest.tries = 0
        BY <1>1, <2>2, AtRestIs DEF BeginDelete, AtWork, Loose
      <3> QED
        BY <2>2, <3>1, <3>2 DEF BeginDelete, Assigns, Taking
    <2>3. CASE CreateEnds \/ DeleteEnds
      BY <2>3, AtRestTyped DEF CreateEnds, DeleteEnds, Assigns, Loose
    <2> QED
      BY <2>1, <2>2, <2>3
  <1>5. PICK a \in {"request", "task"}, r \in WorkTypes :
           /\ Assigns(a, r) /\ run[a].at \in Loose
           /\ r = AtRest \/ (r.op # "none" /\ r.port \in Ports /\ r.at \in {"reload", "stop"} /\ r.tries = 0)
    BY <1>4
  <1>6. AtRest.at = "next" /\ AtRest.tries = 0 /\ a \in Actors
    BY AtRestIs DEF Actors
  <1>7. RunTyped' /\ AtWork' /\ run'[a] = r /\ \A b \in Actors \ {a} : run'[b] = run[b]
    BY <1>1, <1>5, <1>6, AssignsTyped
  <1>8. FailsFit'
    BY <1>1, <1>2, <1>5, <1>7 DEF FailsFit
  <1>9. run'[a].at \in Loose
    BY <1>5, <1>6, <1>7 DEF Loose
  <1> QED
    BY <1>2, <1>3, <1>5, <1>6, <1>7, <1>8, <1>9 DEF ForwardTyped

LEMMA HolderTyped ==
  ASSUME ForwardTyped, NEW p,
         \/ p \in Ports /\ (NextOne(p) \/ RepairNext(p))
         \/ BeginEnsure \/ BeginCheck \/ StopForwards \/ FindOrphans \/ OrphansRetired \/ OneDone \/ PassEnds
  PROVE  /\ ForwardTyped' /\ UNCHANGED netVars
         /\ run["holder"].at \in Loose /\ run'["holder"].at \in Loose
         /\ \A b \in Actors \ {"holder"} : run'[b] = run[b]
  <1> USE PortForwardAssumption
  <1>1. /\ RunTyped /\ NetTyped /\ AtWork /\ LinkTyped /\ RowsTyped /\ FailsFit /\ "holder" \in Actors
        /\ run["holder"] \in WorkTypes
    BY DEF ForwardTyped, RunTyped, Actors
  <1>2. NetTyped' /\ LinkTyped' /\ UNCHANGED netVars
    <2>1. UNCHANGED <<netVars, breaks, restarts>>
      BY DEF BeginEnsure, BeginCheck, StopForwards, FindOrphans, OrphansRetired, NextOne, RepairNext, OneDone, PassEnds, linkVars
    <2>2. hubLink' = hubLink \/ hubLink' = [hubLink EXCEPT !.edge = "stopping"] \/ hubLink' = [hubLink EXCEPT !.edge = "stopped"]
      BY DEF BeginEnsure, BeginCheck, StopForwards, FindOrphans, OrphansRetired, NextOne, RepairNext, OneDone, PassEnds, linkVars
    <2> QED
      BY <1>1, <2>1, <2>2 DEF NetTyped, LinkTyped, netVars
  <1>3. RowsTyped'
    <2>1. portStatus' = portStatus \/ \E s \in {"active", "error"} : portStatus' = Recorded(p, s)
      BY DEF BeginEnsure, BeginCheck, StopForwards, FindOrphans, OrphansRetired, NextOne, RepairNext, OneDone, PassEnds, GivenUp
    <2> QED
      BY <1>1, <2>1 DEF RowsTyped, Recorded
  <1> DEFINE h == run["holder"]
             Good == \E r \in WorkTypes :
                       /\ Assigns("holder", r) /\ h.at \in Loose /\ r.at \in Loose
                       /\ r.op = "none" => r = AtRest
                       /\ r.at # "next" => r.port \in Ports
                       /\ r.at \in {"next", "stop", "wait", "stopped"} => r.tries = 0
                       /\ r.op = "repair" /\ r.at # "next" => fails'[r.port] < MaxRepair
                       /\ fails' \in [Ports -> 0..MaxRepair]
  <1>4. ASSUME Pass("ensure") \/ Pass("orphans") \/ Pass("disconnect"), fails' \in [Ports -> 0..MaxRepair] PROVE Good
    <2> DEFINE todo == {q \in Ports : portStatus[q] \in Recovered}
               seen == [q \in Ports |-> IF portStatus[q] \in Recovered THEN portStatus[q] ELSE "none"]
               r(op) == Reading(AtRest, op, todo, seen)
    <2>1. \A op \in {"ensure", "orphans", "disconnect"} :
             r(op) \in WorkTypes /\ r(op).op = op /\ r(op).at = AtRest.at /\ r(op).tries = AtRest.tries
      <3>1. seen \in SeenTypes /\ todo \in SUBSET Ports
        BY DEF SeenTypes
      <3> HIDE DEF seen, todo
      <3>2. ASSUME NEW op \in {"ensure", "orphans", "disconnect"} PROVE op \in Work
        BY DEF Work
      <3>3. ASSUME NEW op \in {"ensure", "orphans", "disconnect"}
            PROVE  r(op) \in WorkTypes /\ r(op).op = op /\ r(op).at = AtRest.at /\ r(op).tries = AtRest.tries
        BY <3>1, <3>2, AtRestTyped, Reads
      <3> QED
        BY <3>3
    <2>2. AtRest.at = "next" /\ AtRest.tries = 0
      BY AtRestIs
    <2>3. h.at = "next"
      BY <1>1, <1>4, <2>2 DEF Pass, AtWork
    <2>4. \E op \in {"ensure", "orphans", "disconnect"} : Assigns("holder", r(op))
      BY <1>4 DEF Pass, Assigns, Reading
    <2> HIDE DEF r
    <2> QED
      BY <1>4, <2>1, <2>2, <2>3, <2>4 DEF Loose
  <1>5. ASSUME BeginEnsure \/ BeginCheck \/ StopForwards PROVE Good
    <2>1. fails' \in [Ports -> 0..MaxRepair]
      BY <1>1, <1>5 DEF BeginEnsure, BeginCheck, StopForwards, FailsFit
    <2> HIDE DEF Good
    <2> QED
      BY <1>4, <1>5, <2>1 DEF BeginEnsure, BeginCheck, StopForwards
  <1>6. h.op # "none" /\ h.at = "next" => h.tries = 0
    BY <1>1 DEF AtWork
  <1>7. ASSUME FindOrphans \/ OrphansRetired PROVE Good
    <2>1. fails' = fails /\ h.at = "next"
      BY <1>7 DEF FindOrphans, OrphansRetired
    <2>2. PICK op \in {"retire", "repair"}, todo \in SUBSET Ports : run' = [run EXCEPT !["holder"].op = op, !["holder"].todo = todo]
      BY <1>7 DEF FindOrphans, OrphansRetired, Orphans, Wanted
    <2>3. Assigns("holder", Turning(h, op, todo))
      BY <1>1, <2>2 DEF Assigns, Turning, RunTyped, WorkTypes
    <2>4. op \in Work /\ op # "none" /\ "next" \in Loose
      BY DEF Work, Loose
    <2>5. h.tries = 0 /\ fails \in [Ports -> 0..MaxRepair]
      BY <1>1, <2>1 DEF AtWork, FailsFit
    <2> QED
      BY <1>1, <2>1, <2>3, <2>4, <2>5, Turns
  <1>8. ASSUME p \in Ports, NextOne(p) PROVE Good
    <2>1. fails' = fails /\ h.at = "next" /\ h.op \in {"ensure", "retire", "disconnect"}
      BY <1>8 DEF NextOne
    <2>2. PICK at \in {"look", "stop"} : run' = [run EXCEPT !["holder"].todo = @ \ {p}, !["holder"].port = p, !["holder"].at = at]
      BY <1>8 DEF NextOne
    <2>3. Assigns("holder", Picking(h, h.todo \ {p}, p, at))
      BY <1>1, <2>2 DEF Assigns, Picking, RunTyped, WorkTypes
    <2>4. at \in Places /\ at \in Loose /\ "next" \in Loose /\ h.todo \ {p} \in SUBSET Ports
      BY <1>1 DEF Places, Loose, WorkTypes
    <2>5. h.tries = 0 /\ fails \in [Ports -> 0..MaxRepair]
      BY <1>1, <2>1 DEF AtWork, FailsFit
    <2> QED
      BY <1>1, <1>8, <2>1, <2>3, <2>4, <2>5, Picks
  <1>9. ASSUME p \in Ports, RepairNext(p) PROVE Good
    <2>1. h.at = "next" /\ h.op = "repair" /\ h.tries = 0
      BY <1>1, <1>9 DEF RepairNext, AtWork
    <2>2. "stop" \in Places /\ "stop" \in Loose /\ "next" \in Loose /\ h.todo \ {p} \in SUBSET Ports
      BY <1>1 DEF Places, Loose, WorkTypes
    <2>3. fails' \in [Ports -> 0..MaxRepair]
      BY <1>1, <1>9 DEF RepairNext, FailsFit
    <2>4. CASE run' = [run EXCEPT !["holder"].todo = @ \ {p}]
      <3>1. Assigns("holder", Skipping(h, h.todo \ {p}))
        BY <1>1, <2>4 DEF Assigns, Skipping, RunTyped, WorkTypes
      <3> QED
        BY <1>1, <2>1, <2>2, <2>3, <3>1, Skips
    <2>5. CASE /\ fails[p] < MaxRepair /\ fails' = fails
               /\ run' = [run EXCEPT !["holder"].todo = @ \ {p}, !["holder"].port = p, !["holder"].at = "stop"]
      <3>1. Assigns("holder", Picking(h, h.todo \ {p}, p, "stop"))
        BY <1>1, <2>5 DEF Assigns, Picking, RunTyped, WorkTypes
      <3> QED
        BY <1>1, <1>9, <2>1, <2>2, <2>3, <2>5, <3>1, Picks
    <2> QED
      BY <1>9, <2>4, <2>5 DEF RepairNext
  <1>10. ASSUME OneDone PROVE Good
    <2>1. /\ h.at \in {"started", "failed", "in use", "stopped"} /\ h.port \in Ports /\ h.tries \in 0..Retries
          /\ h.op # "none" /\ fails \in [Ports -> 0..MaxRepair] /\ "next" \in Places /\ "reload" \in Places
          /\ h.at \in Loose /\ "next" \in Loose /\ "reload" \in Loose
          /\ h.op = "repair" => fails[h.port] < MaxRepair
      BY <1>1, <1>10, AtRestIs DEF OneDone, AtWork, FailsFit, WorkTypes, Places, Loose
    <2>a. run["holder"] \in WorkTypes /\ "next" \in Places /\ "reload" \in Places
      BY <1>1, <2>1
    <2>b. h.port \in Ports /\ fails \in [Ports -> 0..MaxRepair]
      BY <2>1
    <2>c. h.op = "repair" => fails[h.port] < MaxRepair
      BY <2>1
    <2>2. CASE /\ h.op = "repair" /\ (h.at = "stopped" \/ h.tries < Retries) /\ fails' = fails
               /\ run' = [run EXCEPT !["holder"].at = "reload", !["holder"].tries = @ + 1]
      <3>1. Assigns("holder", Retrying(h, "reload", h.tries + 1))
        BY <1>1, <2>2 DEF Assigns, Retrying, RunTyped, WorkTypes
      <3>2. ASSUME NEW n \in 0..Retries, n = 0 \/ n < Retries PROVE n + 1 \in 0..Retries
        BY <3>2
      <3>3. h.tries + 1 \in 0..Retries
        BY <1>1, <2>1, <2>2, <3>2 DEF AtWork
      <3>4. PICK n \in 0..Retries : n = h.tries + 1
        BY <3>3
      <3>5. /\ Retrying(h, "reload", n) \in WorkTypes /\ Retrying(h, "reload", n).op = h.op
            /\ Retrying(h, "reload", n).at = "reload" /\ Retrying(h, "reload", n).port = h.port
        BY <2>a, TriesAgain
      <3>6. Assigns("holder", Retrying(h, "reload", n))
        BY <3>1, <3>4
      <3> QED
        BY <1>1, <2>1, <2>2, <3>5, <3>6
    <2>3. CASE /\ run' = [run EXCEPT !["holder"].at = "next", !["holder"].tries = 0]
               /\ fails' = IF h.op # "repair" THEN fails ELSE [fails EXCEPT ![h.port] = IF h.at = "started" THEN 0 ELSE @ + 1]
      <3>1. Assigns("holder", Retrying(h, "next", 0))
        BY <1>1, <2>3 DEF Assigns, Retrying, RunTyped, WorkTypes
      <3>2. \A n \in 0..MaxRepair : n < MaxRepair => n + 1 \in 0..MaxRepair
        OBVIOUS
      <3>3. fails' \in [Ports -> 0..MaxRepair]
        <4>1. CASE h.op # "repair"
          BY <2>1, <2>3, <4>1
        <4>2. CASE h.op = "repair"
          <5>0. fails[h.port] \in 0..MaxRepair /\ fails[h.port] < MaxRepair /\ 0 \in 0..MaxRepair
            BY <2>b, <2>c, <4>2
          <5>1. (IF h.at = "started" THEN 0 ELSE fails[h.port] + 1) \in 0..MaxRepair
            BY <3>2, <5>0
          <5> QED
            BY <2>1, <2>3, <4>2, <5>1
        <4> QED
          BY <4>1, <4>2
      <3>4. /\ Retrying(h, "next", 0) \in WorkTypes /\ Retrying(h, "next", 0).op = h.op
            /\ Retrying(h, "next", 0).at = "next" /\ Retrying(h, "next", 0).tries = 0
        <4>1. 0 \in 0..Retries
          OBVIOUS
        <4> QED
          BY <2>a, <4>1, TriesAgain
      <3> QED
        BY <1>1, <2>1, <3>1, <3>3, <3>4
    <2> QED
      BY <1>10, <2>2, <2>3 DEF OneDone, TriesLeft
  <1>11. ASSUME PassEnds PROVE Good
    BY <1>1, <1>11, AtRestTyped, AtRestIs DEF PassEnds, Assigns, Loose, FailsFit
  <1> HIDE DEF Good
  <1>12. Good
    BY <1>5, <1>7, <1>8, <1>9, <1>10, <1>11
  <1>13. PICK r \in WorkTypes :
              /\ Assigns("holder", r) /\ h.at \in Loose /\ r.at \in Loose
              /\ r.op = "none" => r = AtRest
              /\ r.at # "next" => r.port \in Ports
              /\ r.at \in {"next", "stop", "wait", "stopped"} => r.tries = 0
              /\ r.op = "repair" /\ r.at # "next" => fails'[r.port] < MaxRepair
              /\ fails' \in [Ports -> 0..MaxRepair]
    BY <1>12 DEF Good
  <1>14. RunTyped' /\ AtWork' /\ run'["holder"] = r /\ \A b \in Actors \ {"holder"} : run'[b] = run[b]
    BY <1>1, <1>13, AssignsTyped
  <1>15. FailsFit'
    BY <1>13, <1>14 DEF FailsFit
  <1> QED
    BY <1>2, <1>3, <1>13, <1>14, <1>15 DEF ForwardTyped

LEMMA LinkDown ==
  ASSUME LinkTyped, NEW e \in {"none", "withdrawn"}
  PROVE  [hubLink EXCEPT !.conn = 0, !.edge = e] \in [conn : 0..MaxConns, last : 0..MaxConns,
                                                     edge : {"none", "withdrawn", "stopping", "stopped"}]
  <1>1. 0 \in 0..MaxConns
    BY PortForwardAssumption
  <1>2. ASSUME NEW C, 0 \in C, NEW l \in [conn : C, last : C, edge : {"none", "withdrawn", "stopping", "stopped"}]
        PROVE  [l EXCEPT !.conn = 0, !.edge = e] \in [conn : C, last : C, edge : {"none", "withdrawn", "stopping", "stopped"}]
    BY <1>2
  <1> QED
    BY <1>1, <1>2 DEF LinkTyped

LEMMA LinkStepTyped ==
  ASSUME ForwardTyped, NEW p, AskDelete(p) \/ Connect \/ Withdraw \/ UNCHANGED forwardVars
  PROVE  ForwardTyped' /\ UNCHANGED <<netVars, run>>
  <1> USE PortForwardAssumption
  <1>1. /\ RunTyped /\ NetTyped /\ AtWork /\ LinkTyped /\ RowsTyped /\ FailsFit
    BY DEF ForwardTyped
  <1>2. UNCHANGED <<netVars, run, fails, breaks, restarts>>
    BY DEF AskDelete, Connect, Withdraw, forwardVars, netVars, runVars, linkVars
  <1>3. LinkTyped'
    <2>1. CASE Connect
      BY <1>1, <2>1 DEF Connect, LinkTyped
    <2>2. CASE Withdraw
      <3>1. hubLink' \in [conn : 0..MaxConns, last : 0..MaxConns, edge : {"none", "withdrawn", "stopping", "stopped"}]
        BY <1>1, <2>2, LinkDown DEF Withdraw
      <3> QED
        BY <1>1, <2>2, <3>1 DEF Withdraw, LinkTyped
    <2>3. CASE AskDelete(p) \/ UNCHANGED forwardVars
      BY <1>1, <2>3 DEF AskDelete, forwardVars, linkVars, LinkTyped
    <2> QED
      BY <2>1, <2>2, <2>3
  <1>4. RowsTyped'
    BY <1>1 DEF AskDelete, Connect, Withdraw, forwardVars, RowsTyped
  <1>5. RunTyped' /\ NetTyped' /\ AtWork' /\ FailsFit'
    BY <1>1, <1>2 DEF RunTyped, NetTyped, AtWork, FailsFit, netVars
  <1> QED
    BY <1>2, <1>3, <1>4, <1>5 DEF ForwardTyped

LEMMA RestartTyped ==
  ASSUME ForwardTyped, Restart PROVE ForwardTyped' /\ \A a \in Actors : run'[a].at = "next"
  <1> USE PortForwardAssumption
  <1>1. RunTyped' /\ AtWork' /\ \A a \in Actors : run'[a].at = "next"
    BY AtRestTyped, AtRestIs DEF Restart, RunTyped, AtWork
  <1>2. NetTyped'
    BY NoSockTyped DEF Restart, NetTyped
  <1>3. LinkTyped'
    <2>1. hubLink' \in [conn : 0..MaxConns, last : 0..MaxConns, edge : {"none", "withdrawn", "stopping", "stopped"}]
      BY LinkDown DEF Restart, ForwardTyped
    <2>2. breaks' \in 0..MaxBreaks /\ restarts' \in 0..MaxRestarts
      BY DEF Restart, ForwardTyped, LinkTyped
    <2> QED
      BY <2>1, <2>2 DEF LinkTyped
  <1>4. RowsTyped'
    BY DEF Restart, ForwardTyped, RowsTyped
  <1>5. FailsFit'
    BY <1>1 DEF Restart, FailsFit, Actors
  <1> QED
    BY <1>1, <1>2, <1>3, <1>4, <1>5 DEF ForwardTyped

-----------------------------------------------------------------------------
(* Who has a listener in hand has it alone; the map knows only listeners of its rows; *)
(* and one that is about to serve is known, or was told to stop.                  *)

Holding(a) == run[a].at \in {"attach", "enter", "serve"}

HeldIsBound == \A a \in Actors : Holding(a) =>
    /\ run[a].sock \in Socks
    /\ sock[run[a].sock].st = "bound" /\ sock[run[a].sock].port = run[a].port

HeldByOne == \A a, b \in Actors :
    Holding(a) /\ Holding(b) /\ run[a].sock = run[b].sock => a = b

KnownIsOfRow == \A p \in Ports : known[p] # None =>
    /\ sock[known[p]].port = p /\ sock[known[p]].st # "free"
    /\ sock[known[p]].st = "bound" => \E a \in Actors : run[a].at = "serve" /\ run[a].sock = known[p]

EnteredIsKnown == \A a \in Actors : run[a].at = "serve" =>
    known[run[a].port] = run[a].sock \/ sock[run[a].sock].stop

ListenerInv == HeldIsBound /\ HeldByOne /\ KnownIsOfRow /\ EnteredIsKnown /\ ServingIsKnown

LEMMA ListenerInit == PortForwardInit => ListenerInv
  <1> SUFFICES ASSUME PortForwardInit PROVE ListenerInv
    OBVIOUS
  <1>1. \A a \in Actors : run[a].at = "next"
    BY AtRestIs DEF PortForwardInit
  <1>2. (\A p \in Ports : known[p] = None) /\ \A s \in Socks : sock[s].st = "free"
    BY DEF PortForwardInit, NoSock
  <1> QED
    BY <1>1, <1>2 DEF ListenerInv, HeldIsBound, HeldByOne, KnownIsOfRow, EnteredIsKnown, ServingIsKnown, Holding

\* The listeners, the map and what is in hand stay.
LEMMA SameHands ==
  ASSUME ListenerInv, UNCHANGED netVars,
         \A a \in Actors : Holding(a) \/ Holding(a)' =>
           run'[a].at = run[a].at /\ run'[a].sock = run[a].sock /\ run'[a].port = run[a].port
  PROVE  ListenerInv'
  <1>1. known' = known /\ sock' = sock
    BY DEF netVars
  <1>2. \A a \in Actors : /\ Holding(a)' <=> Holding(a)
                          /\ run'[a].at = "serve" <=> run[a].at = "serve"
    BY DEF Holding
  <1>3. HeldIsBound' /\ HeldByOne'
    BY <1>1, <1>2 DEF ListenerInv, HeldIsBound, HeldByOne
  <1>4. KnownIsOfRow' /\ EnteredIsKnown' /\ ServingIsKnown'
    BY <1>1, <1>2 DEF ListenerInv, KnownIsOfRow, EnteredIsKnown, ServingIsKnown, Holding
  <1> QED
    BY <1>3, <1>4 DEF ListenerInv

LEMMA ListenHolds == ASSUME ForwardTyped, ListenerInv, NEW a \in Actors, Listen(a) PROVE ListenerInv'
  <1>1. CASE Goes(a, "in use") /\ sock' = sock
    <2>1. OnlyMoves(a, "in use", run[a].sock)
      BY <1>1, GoesMoves DEF Places, ForwardTyped
    <2> QED
      BY <1>1, <2>1, SameHands DEF Listen, Holding, OnlyMoves, netVars
  <1>2. ASSUME NEW s \in Unused, sock' = [sock EXCEPT ![s] = [NoSock EXCEPT !.port = run[a].port, !.st = "bound"]],
               run' = [run EXCEPT ![a].at = "attach", ![a].sock = s]
        PROVE  ListenerInv'
    <2>1. /\ OnlyMoves(a, "attach", s) /\ s \in Socks /\ sock[s].st = "free" /\ known' = known /\ run[a].at = "listen"
          /\ run[a].port \in Ports
      BY <1>2, GoesWithMoves DEF Places, ForwardTyped, Unused, Listen, AtWork
    <2>2. sock'[s].port = run[a].port /\ sock'[s].st = "bound" /\ ~sock'[s].stop
          /\ \A t \in Socks \ {s} : sock'[t] = sock[t]
      BY <1>2, <2>1, NewSock DEF ForwardTyped, NetTyped
    <2>3. \A b \in Actors : /\ Holding(b)' <=> Holding(b) \/ b = a
                            /\ run'[b].at = "serve" <=> run[b].at = "serve"
                            /\ b # a => run'[b] = run[b]
      BY <2>1 DEF OnlyMoves, Holding
    <2>4. run'[a].sock = s /\ run'[a].port = run[a].port /\ run'[a].at = "attach"
      BY <2>1 DEF OnlyMoves
    <2>5. \A b \in Actors : Holding(b) => run[b].sock # s
      BY <2>1 DEF ListenerInv, HeldIsBound
    <2>6. HeldIsBound' /\ HeldByOne'
      BY <2>1, <2>2, <2>3, <2>4, <2>5 DEF ListenerInv, HeldIsBound, HeldByOne
    <2>7. \A p \in Ports : known[p] # None => known[p] \in Socks /\ known[p] # s
      BY <2>1 DEF ListenerInv, KnownIsOfRow, ForwardTyped, NetTyped
    <2>8. KnownIsOfRow'
      BY <2>1, <2>2, <2>3, <2>7 DEF ListenerInv, KnownIsOfRow
    <2>9. EnteredIsKnown'
      BY <2>1, <2>2, <2>3, <2>4, <2>5 DEF ListenerInv, EnteredIsKnown, HeldIsBound, Holding
    <2>10. ServingIsKnown'
      BY <2>1, <2>2 DEF ListenerInv, ServingIsKnown
    <2> QED
      BY <2>6, <2>8, <2>9, <2>10 DEF ListenerInv
  <1> QED
    BY <1>1, <1>2 DEF Listen

\* A listener that is in the hands of one who enters it is not in the map.
LEMMA HeldIsUnknown ==
  ASSUME ListenerInv, NEW a \in Actors, run[a].at \in {"attach", "enter"}, NEW p \in Ports, known[p] # None
  PROVE  known[p] # run[a].sock
  BY DEF ListenerInv, HeldIsBound, HeldByOne, KnownIsOfRow, Holding

\* What a listener in hand is set free, and the hand lets go.
LEMMA LetGo ==
  ASSUME ForwardTyped, ListenerInv, NEW a \in Actors, run[a].at \in {"attach", "enter"},
         sock' = [sock EXCEPT ![run[a].sock] = NoSock], known' = known,
         NEW at \in {"failed", "started"}, OnlyMoves(a, at, None)
  PROVE  ListenerInv'
  <1>1. run[a].sock \in Socks /\ sock[run[a].sock].st = "bound"
    BY DEF ListenerInv, HeldIsBound, Holding
  <1>2. sock'[run[a].sock].st = "free" /\ \A t \in Socks \ {run[a].sock} : sock'[t] = sock[t]
    BY <1>1 DEF ForwardTyped, NetTyped, NoSock
  <1>3. \A b \in Actors : Holding(b)' => b # a /\ Holding(b) /\ run'[b] = run[b] /\ run[b].sock # run[a].sock
    BY DEF OnlyMoves, Holding, ListenerInv, HeldByOne
  <1>a. \A b \in Actors : Holding(b)' => run[b].sock \in Socks /\ sock'[run[b].sock] = sock[run[b].sock]
    BY <1>2, <1>3 DEF ListenerInv, HeldIsBound
  <1>4. HeldIsBound' /\ HeldByOne'
    <2>1. HeldIsBound'
      BY <1>3, <1>a DEF ListenerInv, HeldIsBound
    <2>2. HeldByOne'
      BY <1>3 DEF ListenerInv, HeldByOne
    <2> QED
      BY <2>1, <2>2
  <1>5. \A p \in Ports : known[p] # None => known[p] \in Socks /\ sock'[known[p]] = sock[known[p]]
    <2>1. \A p \in Ports : known[p] # None => known[p] # run[a].sock
      BY HeldIsUnknown
    <2> QED
      BY <1>2, <2>1 DEF ForwardTyped, NetTyped
  <1>6. \A b \in Actors : run[b].at = "serve" => run'[b] = run[b]
    BY DEF OnlyMoves
  <1>7. KnownIsOfRow'
    BY <1>5, <1>6 DEF ListenerInv, KnownIsOfRow
  <1>8. EnteredIsKnown'
    BY <1>3, <1>a DEF ListenerInv, EnteredIsKnown, HeldIsBound, Holding
  <1>9. ServingIsKnown'
    BY <1>1, <1>2 DEF ListenerInv, ServingIsKnown
  <1> QED
    BY <1>4, <1>7, <1>8, <1>9 DEF ListenerInv

LEMMA AttachHolds == ASSUME ForwardTyped, ListenerInv, NEW a \in Actors, Attach(a) PROVE ListenerInv'
  <1> DEFINE s == run[a].sock
  <1>0. run[a].at = "attach" /\ s \in Socks /\ known' = known /\ RunTyped /\ NetTyped
    BY DEF Attach, ListenerInv, HeldIsBound, Holding, ForwardTyped
  <1>1. CASE sock' = [sock EXCEPT ![s] = NoSock] /\ run' = [run EXCEPT ![a].at = "failed", ![a].sock = None]
    <2>1. OnlyMoves(a, "failed", None)
      BY <1>0, <1>1, GoesWithMoves DEF Places
    <2> QED
      BY <1>0, <1>1, <2>1, LetGo
  <1>2. CASE sock' = [sock EXCEPT ![s].conn = hubLink.conn] /\ Goes(a, "enter")
    <2>1. OnlyMoves(a, "enter", s)
      BY <1>0, <1>2, GoesMoves DEF Places
    <2>2. \A t \in Socks : sock'[t].st = sock[t].st /\ sock'[t].port = sock[t].port /\ sock'[t].stop = sock[t].stop
      BY <1>0, <1>2 DEF NetTyped, SockTypes
    <2>3. \A b \in Actors : /\ Holding(b)' <=> Holding(b)
                            /\ run'[b].at = "serve" <=> run[b].at = "serve"
                            /\ run'[b].sock = run[b].sock /\ run'[b].port = run[b].port
      BY <1>0, <2>1 DEF OnlyMoves, Holding
    <2>4. HeldIsBound' /\ HeldByOne'
      BY <2>2, <2>3 DEF ListenerInv, HeldIsBound, HeldByOne
    <2>5. \A p \in Ports : known[p] # None => known[p] \in Socks
      BY <1>0 DEF NetTyped
    <2>6. KnownIsOfRow'
      BY <1>0, <2>2, <2>3, <2>5 DEF ListenerInv, KnownIsOfRow
    <2>7. EnteredIsKnown' /\ ServingIsKnown'
      BY <1>0, <2>2, <2>3 DEF ListenerInv, EnteredIsKnown, ServingIsKnown, HeldIsBound, Holding
    <2> QED
      BY <2>4, <2>6, <2>7 DEF ListenerInv
  <1> QED
    BY <1>1, <1>2 DEF Attach

LEMMA EnterHolds == ASSUME ForwardTyped, ListenerInv, NEW a \in Actors, Enter(a) PROVE ListenerInv'
  <1> DEFINE s == run[a].sock
             p == run[a].port
  <1>0. /\ run[a].at = "enter" /\ s \in Socks /\ s # None /\ p \in Ports /\ RunTyped /\ NetTyped
        /\ sock[s].st = "bound" /\ sock[s].port = p
    BY PortForwardAssumption DEF Enter, ListenerInv, HeldIsBound, Holding, ForwardTyped, AtWork
  <1>1. CASE sock' = [sock EXCEPT ![s] = NoSock] /\ run' = [run EXCEPT ![a].at = "started", ![a].sock = None] /\ known' = known
    <2>1. OnlyMoves(a, "started", None)
      BY <1>0, <1>1, GoesWithMoves DEF Places
    <2> QED
      BY <1>0, <1>1, <2>1, LetGo
  <1>2. CASE known[p] = None /\ known' = [known EXCEPT ![p] = s] /\ Goes(a, "serve") /\ sock' = sock
    <2>1. OnlyMoves(a, "serve", s)
      BY <1>0, <1>2, GoesMoves DEF Places
    <2>2. known'[p] = s /\ \A q \in Ports \ {p} : known'[q] = known[q]
      BY <1>0, <1>2 DEF NetTyped
    <2>3. \A b \in Actors : /\ Holding(b)' <=> Holding(b)
                            /\ run'[b].at = "serve" <=> run[b].at = "serve" \/ b = a
                            /\ run'[b].sock = run[b].sock /\ run'[b].port = run[b].port
      BY <1>0, <2>1 DEF OnlyMoves, Holding
    <2>4. HeldIsBound' /\ HeldByOne'
      BY <1>2, <2>3 DEF ListenerInv, HeldIsBound, HeldByOne
    <2>6. KnownIsOfRow'
      BY <1>0, <1>2, <2>2, <2>3 DEF ListenerInv, KnownIsOfRow
    <2>7. EnteredIsKnown'
      <3>1. SUFFICES ASSUME NEW b \in Actors, run'[b].at = "serve"
                     PROVE  known'[run'[b].port] = run'[b].sock \/ sock'[run'[b].sock].stop
        BY DEF EnteredIsKnown
      <3>2. CASE b = a
        BY <2>2, <2>3, <3>2
      <3>3. CASE b # a
        <4>1. run[b].at = "serve" /\ run[b].port \in Ports /\ run[b].sock # None
          BY <2>3, <3>1, <3>3, PortForwardAssumption DEF ForwardTyped, AtWork, ListenerInv, HeldIsBound, Holding
        <4> QED
          BY <1>2, <2>2, <2>3, <4>1 DEF ListenerInv, EnteredIsKnown
      <3> QED
        BY <3>2, <3>3
    <2>8. ServingIsKnown'
      <3>1. SUFFICES ASSUME NEW t \in Socks, sock[t].st = "up", ~sock[t].stop PROVE known'[sock[t].port] = t
        BY <1>2 DEF ServingIsKnown
      <3>2. known[sock[t].port] = t /\ t # None
        BY <3>1, PortForwardAssumption DEF ListenerInv, ServingIsKnown
      <3> QED
        BY <1>2, <3>2 DEF NetTyped
    <2> QED
      BY <2>4, <2>6, <2>7, <2>8 DEF ListenerInv
  <1> QED
    BY <1>1, <1>2 DEF Enter, Taken

LEMMA ServesHolds == ASSUME ForwardTyped, ListenerInv, NEW a \in Actors, Serves(a) PROVE ListenerInv'
  <1> DEFINE s == run[a].sock
             p == run[a].port
  <1>0. /\ run[a].at = "serve" /\ s \in Socks /\ RunTyped /\ NetTyped /\ known' = known
        /\ sock[s].st = "bound" /\ sock[s].port = p /\ (known[p] = s \/ sock[s].stop)
    BY DEF Serves, ListenerInv, HeldIsBound, EnteredIsKnown, Holding, ForwardTyped
  <1>1. OnlyMoves(a, "started", None)
    BY <1>0, GoesWithMoves DEF Serves, Places
  <1>2. /\ sock'[s].st = "up" /\ \A t \in Socks : sock'[t].port = sock[t].port /\ sock'[t].stop = sock[t].stop
        /\ \A t \in Socks \ {s} : sock'[t].st = sock[t].st
    BY <1>0 DEF Serves, NetTyped, SockTypes
  <1>3. \A b \in Actors : Holding(b)' => b # a /\ Holding(b) /\ run'[b] = run[b] /\ run[b].sock # s /\ run[b].sock \in Socks
    BY <1>0, <1>1 DEF OnlyMoves, Holding, ListenerInv, HeldByOne, HeldIsBound
  <1>4. HeldIsBound' /\ HeldByOne'
    BY <1>2, <1>3 DEF ListenerInv, HeldIsBound, HeldByOne
  <1>5. \A q \in Ports : known[q] # None => known[q] \in Socks
    BY <1>0 DEF NetTyped
  <1>6. \A b \in Actors : run[b].at = "serve" => (b = a \/ run'[b] = run[b])
    BY <1>1 DEF OnlyMoves
  <1>7. KnownIsOfRow'
    BY <1>0, <1>2, <1>5, <1>6 DEF ListenerInv, KnownIsOfRow
  <1>8. EnteredIsKnown'
    BY <1>0, <1>2, <1>3 DEF ListenerInv, EnteredIsKnown, Holding
  <1>9. ServingIsKnown'
    BY <1>0, <1>2 DEF ListenerInv, ServingIsKnown
  <1> QED
    BY <1>4, <1>7, <1>8, <1>9 DEF ListenerInv

LEMMA StopHolds == ASSUME ForwardTyped, ListenerInv, NEW a \in Actors, StopOne(a) PROVE ListenerInv'
  <1> DEFINE p == run[a].port
             s == known[p]
  <1>0. run[a].at = "stop" /\ p \in Ports /\ s \in Socks \cup {None} /\ RunTyped /\ NetTyped
    BY DEF StopOne, ForwardTyped, AtWork, NetTyped
  <1>1. CASE s = None
    <2>1. Goes(a, "stopped") /\ UNCHANGED netVars
      BY <1>1 DEF StopOne
    <2>2. OnlyMoves(a, "stopped", run[a].sock)
      BY <1>0, <2>1, GoesMoves DEF Places
    <2> QED
      BY <1>0, <2>1, <2>2, SameHands DEF OnlyMoves, Holding
  <1>2. CASE s # None
    <2>1. /\ sock' = [sock EXCEPT ![s].stop = TRUE] /\ known' = [known EXCEPT ![p] = None] /\ s \in Socks
      BY <1>0, <1>2 DEF StopOne
    <2>2. OnlyMoves(a, "wait", s)
      BY <1>0, <1>2, <2>1, GoesWithMoves DEF StopOne, Places
    <2>3. /\ \A t \in Socks : sock'[t].port = sock[t].port /\ sock'[t].st = sock[t].st
          /\ sock'[s].stop /\ \A t \in Socks \ {s} : sock'[t].stop = sock[t].stop
      BY <1>0, <2>1 DEF NetTyped, SockTypes
    <2>4. known'[p] = None /\ \A q \in Ports \ {p} : known'[q] = known[q]
      BY <1>0, <2>1 DEF NetTyped
    <2>5. \A b \in Actors : /\ Holding(b)' <=> Holding(b)
                            /\ run'[b].at = "serve" <=> run[b].at = "serve"
                            /\ Holding(b) => run'[b] = run[b] /\ run[b].sock \in Socks
      BY <1>0, <2>2 DEF OnlyMoves, Holding, ListenerInv, HeldIsBound
    <2>6. HeldIsBound' /\ HeldByOne'
      BY <2>3, <2>5 DEF ListenerInv, HeldIsBound, HeldByOne
    <2>7. \A q \in Ports : known[q] # None => known[q] \in Socks
      BY <1>0 DEF NetTyped
    <2>8. KnownIsOfRow'
      BY <2>3, <2>4, <2>5, <2>7 DEF ListenerInv, KnownIsOfRow, Holding
    <2>9. EnteredIsKnown'
      <3>1. SUFFICES ASSUME NEW b \in Actors, run[b].at = "serve"
                     PROVE  known'[run[b].port] = run[b].sock \/ sock'[run[b].sock].stop
        BY <2>5 DEF EnteredIsKnown, Holding
      <3>2. run[b].port \in Ports /\ run[b].sock \in Socks /\ (known[run[b].port] = run[b].sock \/ sock[run[b].sock].stop)
        BY <2>5, <3>1 DEF ForwardTyped, AtWork, ListenerInv, EnteredIsKnown, Holding
      <3> QED
        BY <2>3, <2>4, <3>2
    <2>10. ServingIsKnown'
      <3>1. SUFFICES ASSUME NEW t \in Socks, sock[t].st = "up", ~sock'[t].stop PROVE known'[sock[t].port] = t
        BY <2>3 DEF ServingIsKnown
      <3>2. t # s /\ known[sock[t].port] = t /\ sock[t].port \in Ports \cup {None}
        BY <1>0, <2>3, <3>1 DEF ListenerInv, ServingIsKnown, NetTyped, SockTypes
      <3> QED
        BY <1>0, <2>1, <3>2 DEF NetTyped
    <2> QED
      BY <2>6, <2>8, <2>9, <2>10 DEF ListenerInv
  <1> QED
    BY <1>1, <1>2

\* A listener's own steps: it closes, and leaves the map if the map still means it.
LEMMA GoroutineHolds ==
  ASSUME ForwardTyped, ListenerInv, NEW s \in Socks, CloseSock(s) \/ Exit(s) PROVE ListenerInv'
  <1>0. RunTyped /\ NetTyped /\ run' = run /\ sock[s].st \in {"up", "shut"}
    BY DEF ForwardTyped, CloseSock, Exit, runVars
  <1>1. \A a \in Actors : Holding(a) => run[a].sock \in Socks /\ run[a].sock # s
    BY <1>0 DEF ListenerInv, HeldIsBound
  <1>2. \A p \in Ports : known[p] # None => known[p] \in Socks
    BY <1>0 DEF NetTyped
  <1>3. CASE CloseSock(s)
    <2>1. /\ sock'[s].st = "shut" /\ sock'[s].port = sock[s].port /\ known' = known
          /\ \A t \in Socks \ {s} : sock'[t] = sock[t]
      BY <1>0, <1>3 DEF CloseSock, NetTyped, SockTypes
    <2>2. HeldIsBound' /\ HeldByOne'
      BY <1>0, <1>1, <2>1 DEF ListenerInv, HeldIsBound, HeldByOne, Holding
    <2>3. KnownIsOfRow'
      BY <1>0, <1>2, <2>1 DEF ListenerInv, KnownIsOfRow
    <2>4. EnteredIsKnown' /\ ServingIsKnown'
      BY <1>0, <1>1, <2>1 DEF ListenerInv, EnteredIsKnown, ServingIsKnown, Holding
    <2> QED
      BY <2>2, <2>3, <2>4 DEF ListenerInv
  <1>4. CASE Exit(s)
    <2>1. /\ sock'[s].st = "free" /\ \A t \in Socks \ {s} : sock'[t] = sock[t]
      BY <1>0, <1>4 DEF Exit, NetTyped, NoSock
    <2>2. /\ \A p \in Ports : known'[p] = IF known[p] = s THEN None ELSE known[p]
      <3>1. \A p \in Ports : known[p] = s => p = sock[s].port
        BY PortForwardAssumption DEF ListenerInv, KnownIsOfRow
      <3>2. known' = known \/ known' = [known EXCEPT ![sock[s].port] = None]
        BY <1>4 DEF Exit
      <3>3. CASE known[sock[s].port] = s
        BY <1>0, <1>4, <3>1, <3>3 DEF Exit, LeavesMap, NetTyped
      <3>4. CASE known[sock[s].port] # s
        BY <1>0, <1>4, <3>1, <3>4 DEF Exit, LeavesMap, NetTyped
      <3> QED
        BY <3>3, <3>4
    <2>3. HeldIsBound' /\ HeldByOne'
      BY <1>0, <1>1, <2>1 DEF ListenerInv, HeldIsBound, HeldByOne, Holding
    <2>4. KnownIsOfRow'
      BY <1>0, <1>2, <2>1, <2>2 DEF ListenerInv, KnownIsOfRow
    <2>5. EnteredIsKnown'
      <3>1. SUFFICES ASSUME NEW a \in Actors, run[a].at = "serve"
                     PROVE  known'[run[a].port] = run[a].sock \/ sock'[run[a].sock].stop
        BY <1>0 DEF EnteredIsKnown
      <3>2. run[a].port \in Ports /\ run[a].sock \in Socks /\ run[a].sock # s
            /\ (known[run[a].port] = run[a].sock \/ sock[run[a].sock].stop)
        BY <1>1, <3>1 DEF ForwardTyped, AtWork, ListenerInv, EnteredIsKnown, Holding
      <3> QED
        BY <2>1, <2>2, <3>2
    <2>6. ServingIsKnown'
      <3>1. SUFFICES ASSUME NEW t \in Socks, sock'[t].st = "up", ~sock'[t].stop PROVE known'[sock'[t].port] = t
        BY DEF ServingIsKnown
      <3>2. t # s /\ sock'[t] = sock[t]
        BY <2>1, <3>1
      <3>3. known[sock[t].port] = t /\ sock[t].port \in Ports \cup {None}
        BY <1>0, <3>1, <3>2 DEF ListenerInv, ServingIsKnown, NetTyped, SockTypes
      <3>4. known' = known \/ (known[sock[s].port] = s /\ known' = [known EXCEPT ![sock[s].port] = None])
        BY <1>4 DEF Exit, LeavesMap
      <3> QED
        <4>1. CASE known' = known
          BY <3>2, <3>3, <4>1
        <4>2. CASE known[sock[s].port] = s /\ known' = [known EXCEPT ![sock[s].port] = None]
          <5>1. sock[t].port # sock[s].port
            BY <3>2, <3>3, <4>2
          <5> QED
            BY <1>0, <3>2, <3>3, <4>2, <5>1 DEF NetTyped
        <4> QED
          BY <3>4, <4>1, <4>2
    <2> QED
      BY <2>3, <2>4, <2>5, <2>6 DEF ListenerInv
  <1> QED
    BY <1>3, <1>4

ForwardIInv == ForwardTyped /\ ListenerInv

LEMMA ForwardNext == ASSUME ForwardIInv, [PortForwardNext]_forwardVars PROVE ForwardIInv'
  <1>0. ForwardTyped /\ ListenerInv /\ "request" \in Actors /\ "task" \in Actors /\ "holder" \in Actors
    BY DEF ForwardIInv, Actors
  <1>1. ASSUME NEW a \in Actors, Starting(a) PROVE ForwardIInv'
    <2>1. CASE Reload(a) \/ LookUp(a)
      <3>1. UNCHANGED netVars /\ run[a].at \in {"reload", "look"}
        BY <2>1 DEF Reload, LookUp
      <3>2. \A b \in Actors \ {a} : run'[b] = run[b]
        BY <1>0, <1>1, StartingMoves DEF ForwardTyped, OnlyMoves
      <3>3. ~Holding(a)'
        <4>1. CASE Reload(a)
          <5>1. OnlyMoves(a, "look", run[a].sock) \/ OnlyMoves(a, "failed", run[a].sock)
            BY <1>0, <4>1, GoesMoves, ReloadMoves DEF Reload, ForwardTyped, AtWork, Places
          <5> QED
            BY <5>1 DEF OnlyMoves, Holding
        <4>2. CASE LookUp(a)
          <5>1. OnlyMoves(a, "started", run[a].sock) \/ OnlyMoves(a, "listen", run[a].sock)
            BY <1>0, <4>2, GoesMoves DEF LookUp, ForwardTyped, Places
          <5> QED
            BY <5>1 DEF OnlyMoves, Holding
        <4> QED
          BY <2>1, <4>1, <4>2
      <3> QED
        BY <1>0, <1>1, <3>1, <3>2, <3>3, SameHands, StartingTyped DEF Holding, ForwardIInv
    <2> QED
      BY <1>0, <1>1, <2>1, StartingTyped, ListenHolds, AttachHolds, EnterHolds, ServesHolds DEF Starting, ForwardIInv
  <1>2. ASSUME NEW a \in Actors, StopOne(a) \/ Waited(a) PROVE ForwardIInv'
    <2>1. CASE Waited(a)
      <3>1. run[a].at = "wait" /\ UNCHANGED netVars /\ OnlyMoves(a, "stopped", None)
        BY <1>0, <2>1, GoesWithMoves DEF Waited, ForwardTyped, Places
      <3> QED
        BY <1>0, <1>2, <3>1, SameHands, StoppingTyped DEF Holding, OnlyMoves, ForwardIInv
    <2> QED
      BY <1>0, <1>2, <2>1, StoppingTyped, StopHolds DEF ForwardIInv
  <1>3. ASSUME NEW s \in Socks, CloseSock(s) \/ Exit(s) PROVE ForwardIInv'
    BY <1>0, <1>3, GoroutineTyped, GoroutineHolds DEF ForwardIInv
  <1>4. ASSUME NEW p, (p \in Ports /\ (Create(p) \/ BeginDelete(p))) \/ CreateEnds \/ DeleteEnds PROVE ForwardIInv'
    <2>1. UNCHANGED netVars
      BY <1>4 DEF Create, CreateEnds, BeginDelete, DeleteEnds
    <2>2. PICK a \in Actors : /\ run[a].at \in Loose /\ run'[a].at \in Loose
                              /\ \A b \in Actors \ {a} : run'[b] = run[b]
      BY <1>0, <1>4, RequestTyped
    <2>3. ListenerInv'
      BY <1>0, <2>1, <2>2, SameHands DEF Holding, Loose
    <2> QED
      BY <1>0, <1>4, <2>3, RequestTyped DEF ForwardIInv
  <1>5. ASSUME NEW p,
               \/ p \in Ports /\ (NextOne(p) \/ RepairNext(p))
               \/ BeginEnsure \/ BeginCheck \/ StopForwards \/ FindOrphans \/ OrphansRetired \/ OneDone \/ PassEnds
        PROVE  ForwardIInv'
    <2>1. /\ ForwardTyped' /\ UNCHANGED netVars
          /\ run["holder"].at \in Loose /\ run'["holder"].at \in Loose
          /\ \A b \in Actors \ {"holder"} : run'[b] = run[b]
      BY <1>0, <1>5, HolderTyped
    <2>2. ListenerInv'
      BY <1>0, <2>1, SameHands DEF Holding, Loose
    <2> QED
      BY <2>1, <2>2 DEF ForwardIInv
  <1>6. ASSUME NEW p, AskDelete(p) \/ Connect \/ Withdraw \/ UNCHANGED forwardVars PROVE ForwardIInv'
    BY <1>0, <1>6, LinkStepTyped, SameHands DEF ForwardIInv
  <1>7. ASSUME Restart PROVE ForwardIInv'
    <2>1. ForwardTyped' /\ \A a \in Actors : run'[a].at = "next"
      BY <1>0, <1>7, RestartTyped
    <2>2. (\A p \in Ports : known'[p] = None) /\ \A s \in Socks : sock'[s].st = "free"
      BY <1>7 DEF Restart, NoSock
    <2> QED
      BY <2>1, <2>2 DEF ForwardIInv, ListenerInv, HeldIsBound, HeldByOne, KnownIsOfRow, EnteredIsKnown, ServingIsKnown, Holding
  <1> QED
    BY <1>0, <1>1, <1>2, <1>3, <1>4, <1>5, <1>6, <1>7 DEF PortForwardNext, HolderStep

\* A listener that serves and was not told to stop is the one the map knows for its
\* row, so the controller can always stop it: for any number of rows, listeners,
\* connections, failures and restarts.
THEOREM ServingIsKnownAlways == PortForwardSpec => []ServingIsKnown
  <1>1. PortForwardInit => ForwardIInv
    BY ForwardTypedInit, ListenerInit DEF ForwardIInv
  <1>2. ForwardIInv /\ [PortForwardNext]_forwardVars => ForwardIInv'
    BY ForwardNext
  <1>3. ForwardIInv => ServingIsKnown
    BY DEF ForwardIInv, ListenerInv
  <1> QED
    BY <1>1, <1>2, <1>3, PTL DEF PortForwardSpec

\* PortForwardTypeOK: the shapes, and who has no work is at rest.
THEOREM PortForwardTypeCorrect == PortForwardSpec => []PortForwardTypeOK
  <1>1. PortForwardInit => ForwardIInv
    BY ForwardTypedInit, ListenerInit DEF ForwardIInv
  <1>2. ForwardIInv /\ [PortForwardNext]_forwardVars => ForwardIInv'
    BY ForwardNext
  <1>3. ForwardIInv => PortForwardTypeOK
    <2> SUFFICES ASSUME ForwardIInv PROVE PortForwardTypeOK
      OBVIOUS
    <2>1. \A a \in Actors : /\ run[a].todo \subseteq Ports /\ run[a].port \in Ports \cup {None}
                            /\ run[a].sock \in Socks \cup {None} /\ run[a].tries \in 0..Retries
                            /\ (run[a].op = "none" => run[a] = AtRest)
      BY DEF ForwardIInv, ForwardTyped, RunTyped, WorkTypes, AtWork
    <2> QED
      BY <2>1 DEF ForwardIInv, ForwardTyped, RowsTyped, NetTyped, SockTypes, LinkTyped, FailsFit, PortForwardTypeOK
  <1> QED
    BY <1>1, <1>2, <1>3, PTL DEF PortForwardSpec

-----------------------------------------------------------------------------
(* The outage of a provider, for any threshold of the health pass and number of  *)
(* restarts.                                                                 *)

LinkShapes == [at : {"none", "linked", "online", "cleared", "read", "closing", "offline"},
               frozen : BOOLEAN, inactive : BOOLEAN]
PassShapes == [at : {"idle", "picked", "looked", "written", "read", "tracked"},
               old : Generals, agent : {"online", "offline"}, now : Generals, frozen : BOOLEAN]
RecShapes == [at : {"idle", "claimed", "probed", "queued"}, marked : {"no", "yes", "gone"}]

HubShaped == linked \in BOOLEAN /\ grace \in BOOLEAN /\ link \in LinkShapes /\ reboots \in 0..MaxReboots
RowShaped ==
    /\ frozen \in BOOLEAN /\ allow \in BOOLEAN /\ recent \in BOOLEAN /\ leased \in BOOLEAN
    /\ agent \in {"online", "offline"} /\ general \in Generals
    /\ since \in {"none", "short", "long"} /\ token \in Recoveries \cup {"none"}
PassShaped == pass \in PassShapes /\ failures \in 0..Threshold
RecShaped == rec \in [Recoveries -> RecShapes]

\* A recovery that holds the marker of an outage holds one that is still there.
MarkerIsThere == \A w \in Recoveries : rec[w].marked = "yes" => since # "none"

OutageIInv == HubShaped /\ RowShaped /\ PassShaped /\ RecShaped /\ MarkerIsThere

LEMMA ShapesAre == HubShaped /\ RowShaped /\ PassShaped /\ RecShaped => OutageTypeOK
  BY DEF OutageTypeOK, HubShaped, RowShaped, PassShaped, RecShaped, LinkShapes, PassShapes, RecShapes

LEMMA RestShaped == Unlinked \in LinkShapes /\ NoPass \in PassShapes /\ NoRec \in RecShapes /\ NoRec.marked = "no"
  BY DEF Unlinked, NoPass, NoRec, LinkShapes, PassShapes, RecShapes, Generals

LEMMA OutageInitShaped == OutageInit => OutageIInv
  <1> SUFFICES ASSUME OutageInit PROVE OutageIInv
    OBVIOUS
  <1>1. 0 \in 0..MaxReboots /\ 0 \in 0..Threshold
    BY OutageAssumption
  <1>2. HubShaped /\ PassShaped
    BY <1>1, RestShaped DEF OutageInit, HubShaped, PassShaped
  <1>3. RowShaped
    BY DEF OutageInit, RowShaped, Generals
  <1>4. rec = [w \in Recoveries |-> NoRec]
    BY DEF OutageInit
  <1>5. \A w \in Recoveries : rec[w] = NoRec
    BY <1>4, Zenon
  <1>6. RecShaped
    BY <1>4, RestShaped, Zenon DEF RecShaped
  <1>7. MarkerIsThere
    BY <1>5, RestShaped DEF MarkerIsThere
  <1> QED
    BY <1>2, <1>3, <1>6, <1>7 DEF OutageIInv

LEMMA HubShapedNext == ASSUME OutageIInv, [OutageNext]_outageVars PROVE HubShaped'
  <1> USE OutageAssumption
  <1>0. HubShaped /\ (UNCHANGED hubSide => HubShaped')
    BY DEF OutageIInv, HubShaped, hubSide
  <1>1. ASSUME NEW at \in {"online", "cleared", "offline"}, link' = [link EXCEPT !.at = at] PROVE link' \in LinkShapes
    BY <1>0, <1>1 DEF HubShaped, LinkShapes
  <1>2. ASSUME NEW at \in {"linked", "closing"}, link' = [Unlinked EXCEPT !.at = at] PROVE link' \in LinkShapes
    <2>1. ASSUME NEW l \in LinkShapes PROVE [l EXCEPT !.at = at] \in LinkShapes
      BY DEF LinkShapes
    <2> QED
      BY <1>2, <2>1, RestShaped
  <1>3. CASE LinkOnline \/ LinkClear \/ UnlinkOffline
    BY <1>0, <1>1, <1>3 DEF LinkOnline, LinkClear, UnlinkOffline, HubShaped
  <1>4. CASE Link \/ Unlink
    BY <1>0, <1>2, <1>4 DEF Link, Unlink, HubShaped
  <1>5. CASE LinkRead
    <2>1. link' \in LinkShapes
      BY <1>5 DEF LinkRead, OutageIInv, RowShaped, LinkShapes
    <2> QED
      BY <1>0, <1>5, <2>1 DEF LinkRead, HubShaped
  <1>6. CASE LinkWrite \/ UnlinkRecord \/ GraceEnds
    BY <1>0, <1>6, RestShaped DEF LinkWrite, UnlinkRecord, GraceEnds, HubShaped
  <1>7. CASE Reboot
    <2>1. reboots \in 0..MaxReboots /\ reboots < MaxReboots /\ reboots' = reboots + 1
      BY <1>0, <1>7 DEF Reboot, HubShaped
    <2>2. reboots' \in 0..MaxReboots
      BY <2>1
    <2>3. linked' \in BOOLEAN /\ grace' \in BOOLEAN /\ link' \in LinkShapes
      BY <1>7, RestShaped DEF Reboot
    <2> QED
      BY <2>2, <2>3 DEF HubShaped
  <1>8. CASE \/ Beat \/ Ages \/ LeaseExpires \/ Forget \/ Skip \/ PassGoesOn \/ Abort \/ UNCHANGED outageVars
             \/ \E w \in Recoveries : Claim(w) \/ Probe(w) \/ Enqueue(w) \/ Complete(w) \/ GiveUp(w)
    <2>1. UNCHANGED hubSide
      BY <1>8 DEF Beat, Ages, LeaseExpires, Forget, Skip, PassGoesOn, Pick, Look, WriteHealth, Reread, Track, Decide, Abort,
                  outageVars, Claim, Probe, Enqueue, Complete, GiveUp
    <2> QED
      BY <1>0, <2>1
  <1> QED
    BY <1>3, <1>4, <1>5, <1>6, <1>7, <1>8 DEF OutageNext, EdgeGoesOn, TimePasses

LEMMA PassShapedNext == ASSUME OutageIInv, [OutageNext]_outageVars PROVE PassShaped'
  <1> USE OutageAssumption
  <1>0. PassShaped /\ (UNCHANGED passVars => PassShaped')
    BY DEF OutageIInv, PassShaped, passVars
  <1>1. CASE Pick
    <2>1. ASSUME NEW r \in PassShapes, NEW g \in Generals PROVE [r EXCEPT !.at = "picked", !.old = g] \in PassShapes
      BY DEF PassShapes
    <2>2. general \in Generals
      BY DEF OutageIInv, RowShaped
    <2> QED
      BY <1>0, <1>1, <2>1, <2>2, RestShaped DEF Pick, PassShaped
  <1>2. CASE Look
    <2>1. ASSUME NEW r \in PassShapes, NEW g \in Generals, NEW a \in {"online", "offline"}
          PROVE  [r EXCEPT !.at = "looked", !.agent = a, !.now = g] \in PassShapes
      BY DEF PassShapes
    <2>2. Downgraded[general] \in Generals /\ general \in Generals /\ "active" \in Generals /\ "partial" \in Generals
      BY DEF OutageIInv, RowShaped, Downgraded, Generals
    <2>3. (CASE linked -> "active"
             [] ~linked /\ recent -> "partial"
             [] ~linked /\ ~recent /\ grace -> general
             [] OTHER -> Downgraded[general]) \in Generals
      BY <2>2
    <2> QED
      BY <1>0, <1>2, <2>1, <2>3 DEF Look, PassShaped
  <1>3. CASE WriteHealth
    <2>1. ASSUME NEW r \in PassShapes, NEW g \in Generals PROVE [r EXCEPT !.at = "written", !.old = g] \in PassShapes
      BY DEF PassShapes
    <2>2. pass.old \in Generals
      BY <1>0 DEF PassShaped, PassShapes
    <2> QED
      BY <1>0, <1>3, <2>1, <2>2, RestShaped DEF WriteHealth, PassShaped
  <1>4. CASE Reread
    <2>1. ASSUME NEW r \in PassShapes, NEW g \in Generals, NEW a \in {"online", "offline"}, NEW f \in BOOLEAN
          PROVE  [r EXCEPT !.at = "read", !.agent = a, !.now = g, !.frozen = f] \in PassShapes
      BY DEF PassShapes
    <2>2. general \in Generals /\ agent \in {"online", "offline"} /\ frozen \in BOOLEAN
      BY DEF OutageIInv, RowShaped
    <2> QED
      BY <1>0, <1>4, <2>1, <2>2 DEF Reread, PassShaped
  <1>5. CASE Track
    BY <1>0, <1>5 DEF Track, PassShaped, PassShapes
  <1>6. CASE Decide \/ Abort \/ Reboot \/ Skip
    <2>1. pass' \in PassShapes
      BY <1>0, <1>6, RestShaped DEF Decide, Abort, Reboot, Skip, PassShaped
    <2>2. failures \in 0..Threshold /\ Threshold \in Nat
      BY <1>0 DEF PassShaped
    <2>3. \/ failures' = 0
          \/ failures' = failures
          \/ \E n \in {failures + 1, 0} : failures' = IF n > Threshold THEN Threshold ELSE n
      BY <1>6 DEF Decide, Abort, Reboot, Skip, Counted
    <2>4. failures' \in 0..Threshold
      BY <2>2, <2>3
    <2> QED
      BY <2>1, <2>4 DEF PassShaped
  <1>7. CASE \/ Link \/ Unlink \/ EdgeGoesOn \/ Beat \/ TimePasses \/ UNCHANGED outageVars
             \/ \E w \in Recoveries : Claim(w) \/ Probe(w) \/ Enqueue(w) \/ Complete(w) \/ GiveUp(w)
    <2>1. UNCHANGED passVars
      BY <1>7 DEF Link, Unlink, EdgeGoesOn, LinkOnline, LinkClear, LinkRead, LinkWrite, UnlinkOffline, UnlinkRecord, Beat,
                  TimePasses, Ages, LeaseExpires, Forget, GraceEnds, outageVars, Claim, Probe, Enqueue, Complete, GiveUp
    <2> QED
      BY <1>0, <2>1
  <1> QED
    BY <1>1, <1>2, <1>3, <1>4, <1>5, <1>6, <1>7 DEF OutageNext, PassGoesOn

LEMMA RowShapedNext == ASSUME OutageIInv, [OutageNext]_outageVars PROVE RowShaped'
  <1>0. RowShaped /\ (UNCHANGED <<rowVars, leaseVars>> => RowShaped')
    BY DEF OutageIInv, RowShaped, rowVars, leaseVars
  <1>1. link.frozen \in BOOLEAN /\ link.inactive \in BOOLEAN /\ pass.now \in Generals /\ pass.agent \in {"online", "offline"}
    BY DEF OutageIInv, HubShaped, PassShaped, LinkShapes, PassShapes
  <1>2. CASE Beat \/ LinkOnline \/ LinkClear \/ UnlinkOffline \/ UnlinkRecord
    BY <1>0, <1>2 DEF Beat, LinkOnline, LinkClear, UnlinkOffline, UnlinkRecord, ClearWindow, ClearShort, RecordOffline, RowShaped, leaseVars
  <1>3. CASE LinkWrite
    BY <1>0, <1>1, <1>3 DEF LinkWrite, RowShaped, leaseVars, Generals
  <1>4. CASE TimePasses
    BY <1>0, <1>4 DEF TimePasses, Ages, LeaseExpires, Forget, GraceEnds, RowShaped, rowVars, leaseVars
  <1>5. CASE WriteHealth \/ Track
    BY <1>0, <1>1, <1>5 DEF WriteHealth, Track, ClearWindow, ClearShort, RecordOffline, RowShaped, leaseVars
  <1>6. CASE Decide
    <2>1. frozen' \in BOOLEAN
      BY <1>0, <1>6 DEF Decide, RowShaped
    <2>2. allow' \in BOOLEAN
      BY <1>0, <1>6, Zenon DEF Decide, RowShaped
    <2> QED
      BY <1>0, <1>6, <2>1, <2>2 DEF Decide, RowShaped, leaseVars
  <1>7. CASE Reboot
    BY <1>0, <1>7 DEF Reboot, RowShaped, leaseVars
  <1>8. ASSUME NEW w \in Recoveries, Claim(w) PROVE RowShaped'
    BY <1>0, <1>8 DEF Claim, RowShaped, rowVars
  <1>9. ASSUME NEW w \in Recoveries, Enqueue(w) PROVE RowShaped'
    BY <1>0, <1>9 DEF Enqueue, RowShaped, leaseVars, Generals
  <1>10. ASSUME NEW w \in Recoveries, Complete(w) \/ GiveUp(w) PROVE RowShaped'
    BY <1>0, <1>10 DEF Complete, GiveUp, RowShaped, rowVars, leaseVars
  <1>11. CASE \/ Link \/ Unlink \/ LinkRead \/ Skip \/ Pick \/ Look \/ Reread \/ Abort \/ UNCHANGED outageVars
              \/ \E w \in Recoveries : Probe(w)
    BY <1>0, <1>11 DEF Link, Unlink, LinkRead, Skip, Pick, Look, Reread, Abort, outageVars, Probe
  <1> QED
    BY <1>2, <1>3, <1>4, <1>5, <1>6, <1>7, <1>8, <1>9, <1>10, <1>11 DEF OutageNext, EdgeGoesOn, PassGoesOn

\* Clearing a window leaves no recovery with its marker.
LEMMA MarkersGone == ASSUME RecShaped
                     PROVE  MarkerGone \in [Recoveries -> RecShapes] /\ \A w \in Recoveries : MarkerGone[w].marked # "yes"
  <1>1. ASSUME NEW r \in RecShapes
        PROVE  /\ [r EXCEPT !.marked = IF @ = "yes" THEN "gone" ELSE @] \in RecShapes
               /\ [r EXCEPT !.marked = IF @ = "yes" THEN "gone" ELSE @].marked # "yes"
    BY DEF RecShapes
  <1>2. \A w \in Recoveries : rec[w] \in RecShapes
    BY DEF RecShaped
  <1> QED
    BY <1>1, <1>2, Zenon DEF MarkerGone

\* What a step does to the recoveries and to the window.
LEMMA RecNext == ASSUME OutageIInv, [OutageNext]_outageVars PROVE RecShaped' /\ MarkerIsThere'
  <1>0. RecShaped /\ MarkerIsThere /\ RowShaped
    BY DEF OutageIInv
  <1>1. ASSUME UNCHANGED rec, since # "none" => since' # "none" PROVE RecShaped' /\ MarkerIsThere'
    BY <1>0, <1>1 DEF RecShaped, MarkerIsThere
  <1>2. ASSUME rec' = MarkerGone PROVE RecShaped' /\ MarkerIsThere'
    BY <1>0, <1>2, MarkersGone DEF RecShaped, MarkerIsThere
  <1>3. ASSUME NEW w \in Recoveries, NEW r \in RecShapes, rec' = [rec EXCEPT ![w] = r],
               r.marked = "yes" => since # "none", since' = since
        PROVE  RecShaped' /\ MarkerIsThere'
    <2>1. rec' \in [Recoveries -> RecShapes]
      BY <1>0, <1>3 DEF RecShaped
    <2>2. \A v \in Recoveries : rec'[v] = IF v = w THEN r ELSE rec[v]
      BY <1>0, <1>3 DEF RecShaped
    <2> QED
      BY <1>0, <1>3, <2>1, <2>2, Zenon DEF RecShaped, MarkerIsThere
  <1>4. CASE LinkClear
    BY <1>1, <1>2, <1>4 DEF LinkClear, ClearWindow
  <1>5. CASE UnlinkRecord
    BY <1>1, <1>5 DEF UnlinkRecord, RecordOffline
  <1>6. CASE Track
    BY <1>1, <1>2, <1>6 DEF Track, ClearWindow, RecordOffline
  <1>7. CASE Reboot
    <2>1. rec' = [w \in Recoveries |-> NoRec]
      BY <1>7 DEF Reboot
    <2>2. \A w \in Recoveries : rec'[w] = NoRec
      BY <2>1, Zenon
    <2>3. rec' \in [Recoveries -> RecShapes]
      BY <2>1, RestShaped, Zenon
    <2> QED
      BY <2>2, <2>3, RestShaped DEF RecShaped, MarkerIsThere
  <1>8. ASSUME NEW w \in Recoveries, Claim(w) PROVE RecShaped' /\ MarkerIsThere'
    <2> DEFINE r == [at |-> "claimed", marked |-> IF since = "none" THEN "no" ELSE "yes"]
    <2>1. r \in RecShapes /\ (r.marked = "yes" => since # "none")
      BY DEF RecShapes
    <2>2. rec' = [rec EXCEPT ![w] = r] /\ since' = since
      BY <1>8 DEF Claim, rowVars
    <2> HIDE DEF r
    <2> QED
      BY <1>3, <2>1, <2>2
  <1>9. ASSUME NEW w \in Recoveries, NEW at \in {"probed", "queued"}, rec' = [rec EXCEPT ![w].at = at], since' = since
        PROVE  RecShaped' /\ MarkerIsThere'
    <2> DEFINE r == [rec[w] EXCEPT !.at = at]
    <2>1. rec[w] \in RecShapes /\ (rec[w].marked = "yes" => since # "none")
      BY <1>0 DEF RecShaped, MarkerIsThere
    <2>2. ASSUME NEW q \in RecShapes PROVE [q EXCEPT !.at = at] \in RecShapes /\ [q EXCEPT !.at = at].marked = q.marked
      BY DEF RecShapes
    <2>3. rec' = [rec EXCEPT ![w] = r]
      BY <1>9, Zenon
    <2>4. r \in RecShapes /\ (r.marked = "yes" => since # "none")
      BY <2>1, <2>2, Zenon
    <2> HIDE DEF r
    <2> QED
      BY <1>3, <1>9, <2>3, <2>4
  <1>10. ASSUME NEW w \in Recoveries, Probe(w) \/ Enqueue(w) PROVE RecShaped' /\ MarkerIsThere'
    <2>1. CASE Probe(w)
      BY <1>9, <2>1 DEF Probe, rowVars
    <2>2. CASE Enqueue(w)
      BY <1>9, <2>2 DEF Enqueue
    <2> QED
      BY <1>10, <2>1, <2>2
  <1>11. ASSUME NEW w \in Recoveries, rec' = [rec EXCEPT ![w] = NoRec], since' = since PROVE RecShaped' /\ MarkerIsThere'
    BY <1>3, <1>11, RestShaped
  <1>12. ASSUME NEW w \in Recoveries, GiveUp(w) PROVE RecShaped' /\ MarkerIsThere'
    BY <1>11, <1>12 DEF GiveUp, rowVars
  <1>13. ASSUME NEW w \in Recoveries, Complete(w) PROVE RecShaped' /\ MarkerIsThere'
    <2>1. CASE rec[w].marked = "yes"
      <3>1. rec' = [MarkerGone EXCEPT ![w] = NoRec]
        BY <1>13, <2>1 DEF Complete
      <3>2. MarkerGone \in [Recoveries -> RecShapes] /\ \A v \in Recoveries : MarkerGone[v].marked # "yes"
        BY <1>0, MarkersGone
      <3>3. rec' \in [Recoveries -> RecShapes]
        BY <3>1, <3>2, RestShaped
      <3>4. \A v \in Recoveries : rec'[v] = IF v = w THEN NoRec ELSE MarkerGone[v]
        BY <3>1, <3>2
      <3>5. \A v \in Recoveries : rec'[v].marked # "yes"
        BY <3>2, <3>4, RestShaped
      <3> QED
        BY <3>3, <3>5 DEF RecShaped, MarkerIsThere
    <2>2. CASE rec[w].marked # "yes"
      BY <1>11, <1>13, <2>2 DEF Complete
    <2> QED
      BY <2>1, <2>2
  <1>14. CASE TimePasses
    BY <1>1, <1>14 DEF TimePasses, Ages, LeaseExpires, Forget, GraceEnds, rowVars
  <1>15. CASE \/ Link \/ Unlink \/ LinkOnline \/ LinkRead \/ LinkWrite \/ UnlinkOffline \/ Beat \/ Skip \/ Pick \/ Look
              \/ WriteHealth \/ Reread \/ Decide \/ Abort \/ UNCHANGED outageVars
    BY <1>1, <1>15 DEF Link, Unlink, LinkOnline, LinkRead, LinkWrite, UnlinkOffline, Beat, Skip, Pick, Look,
                       WriteHealth, Reread, Decide, Abort, outageVars, rowVars
  <1> QED
    BY <1>4, <1>5, <1>6, <1>7, <1>8, <1>10, <1>12, <1>13, <1>14, <1>15 DEF OutageNext, EdgeGoesOn, PassGoesOn

\* What takes a marker beyond the window away, step by step.
LEMMA OnlyARecoveryClears ==
    ASSUME [OutageNext]_outageVars, since = "long", since' = "none"
    PROVE  \E w \in Recoveries : rec[w].at = "queued" /\ token = w
  <1>1. CASE \E w \in Recoveries : Complete(w)
    BY <1>1 DEF Complete, Owns
  <1>2. since' = since \/ since' = "long" \/ since' = "short" \/ since = "short" \/ \E w \in Recoveries : Complete(w)
    <2>1. CASE Link \/ Unlink \/ EdgeGoesOn \/ Beat
      BY <2>1 DEF Link, Unlink, EdgeGoesOn, LinkOnline, LinkClear, LinkRead, LinkWrite, UnlinkOffline, UnlinkRecord, Beat,
                  ClearWindow, ClearShort, RecordOffline, rowVars
    <2>2. CASE TimePasses \/ Skip \/ Abort \/ Reboot \/ UNCHANGED outageVars
      BY <2>2 DEF TimePasses, Ages, LeaseExpires, Forget, GraceEnds, Skip, Abort, Reboot, rowVars, outageVars
    <2>3. CASE PassGoesOn
      BY <2>3 DEF PassGoesOn, Pick, Look, WriteHealth, Reread, Track, Decide, ClearWindow, ClearShort, RecordOffline, rowVars
    <2>4. ASSUME NEW w \in Recoveries, Claim(w) \/ Probe(w) \/ Enqueue(w) \/ GiveUp(w) PROVE since' = since
      BY <2>4 DEF Claim, Probe, Enqueue, GiveUp, rowVars
    <2> QED
      BY <2>1, <2>2, <2>3, <2>4 DEF OutageNext
  <1> QED
    BY <1>1, <1>2

LEMMA OutageIInvNext == OutageIInv /\ [OutageNext]_outageVars => OutageIInv'
  BY HubShapedNext, RowShapedNext, PassShapedNext, RecNext DEF OutageIInv

(***************************************************************************)
(* Every part of the outage keeps its shape, and what a recovery holds as the     *)
(* marker of an outage is there until it is completed or marked gone               *)
(* (instance_recovery_window.go, health.go, hub.go).                             *)
(***************************************************************************)
THEOREM OutageTypeCorrect == OutageSpec => []OutageTypeOK
  <1>1. OutageIInv => OutageTypeOK
    BY ShapesAre DEF OutageIInv
  <1> QED
    BY <1>1, OutageInitShaped, OutageIInvNext, PTL DEF OutageSpec

(***************************************************************************)
(* No edge, no pass, no claim and no restart takes the marker of an outage        *)
(* beyond the window away: only a recovery that has queued its starts and still    *)
(* owns the lease does (instance_recovery_window.go, instance_recovery.go).       *)
(***************************************************************************)
THEOREM LongOutageKeptAlways == OutageSpec => LongOutageKept
  <1>1. [OutageNext]_outageVars
        => [since = "long" /\ since' = "none" => \E w \in Recoveries : rec[w].at = "queued" /\ token = w]_outageVars
    BY OnlyARecoveryClears
  <1> QED
    BY <1>1, PTL DEF OutageSpec, LongOutageKept
=============================================================================
