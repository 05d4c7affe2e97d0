----------------------------- MODULE SshSessions -----------------------------
(***************************************************************************)
(* The life of a terminal session, from the ConnectSSH call that creates   *)
(* it to the session-disconnected event that announces its end, together   *)
(* with the tunnels opened on it (ssh-gui/app_terminal.go, app_tunnels.go, *)
(* backend/sessions/manager.go, backend/storage/tunnels.go).               *)
(*                                                                         *)
(* Each Wails binding call and each goroutine is an actor; a step ends     *)
(* where the code lets go of a lock or waits for the network.              *)
(***************************************************************************)
EXTENDS TunnelManager

CONSTANT LocalSessions   \* the ids used by StartLocalTerminal

ASSUME LocalAssumption == LocalSessions \subseteq Sessions

SshOnly == Sessions \ LocalSessions

VARIABLES
  call,        \* session -> progress of the ConnectSSH call that creates it
  transport,   \* session -> its ssh.Client (or local terminal)
  registry,    \* SessionManager.sessions
  reader,      \* session -> the goroutine that reads stdout
  closer,      \* sessions with a CloseSession call between its two steps
  announced,   \* sessions whose session-disconnected event was emitted
  rows,        \* tunnel -> its row in the tunnels table
  view,        \* tunnel -> what useTunnels last loaded
  activating,  \* ToggleTunnel calls past sessionManager.Get
  changing     \* EditTunnel and DeleteTunnel calls past Toggle

sessionVars == <<call, transport, registry, reader, closer, announced>>
tunnelVars == <<rows, view, activating, changing>>
vars == <<sessionVars, tunnelVars, managerVars>>

Unborn == "unborn"     \* a UUID no row has used yet
Gone == "gone"         \* a deleted row
Row == Ports \cup {Unborn, Gone}
Activation == [session: Sessions, tunnel: Tunnels, port: Ports]
Change == [tunnel: Tunnels, row: Ports \cup {Gone}]
View == [port: Ports, active: BOOLEAN]

Init ==
  /\ call = [s \in Sessions |-> "idle"]
  /\ transport = [s \in Sessions |-> "none"]
  /\ registry = {}
  /\ reader = [s \in Sessions |-> "none"]
  /\ closer = {}
  /\ announced = {}
  /\ rows = [t \in Tunnels |-> Unborn]
  /\ view = [t \in Tunnels |-> None]
  /\ activating = {}
  /\ changing = {}
  /\ ManagerInit

-----------------------------------------------------------------------------
(* ConnectSSH and ConnectSSHVia *)

CallStep(s, from, to) == call[s] = from /\ call' = [call EXCEPT ![s] = to]

SetTransport(s, to) == transport' = [transport EXCEPT ![s] = to]

Connect(s) ==
  /\ s \in SshOnly
  /\ CallStep(s, "idle", "dialing")
  /\ UNCHANGED <<transport, registry, reader, closer, announced, tunnelVars, managerVars>>

(* createSSHClient fails, or the attempt is cancelled: before the handshake *)
(* ends there is no client, after it the client is closed.                  *)
DialFails(s) ==
  /\ CallStep(s, "dialing", "failed")
  /\ \/ UNCHANGED transport
     \/ SetTransport(s, "closed")
  /\ UNCHANGED <<registry, reader, closer, announced, tunnelVars, managerVars>>

DialSucceeds(s) ==
  /\ CallStep(s, "dialing", "setup")
  /\ SetTransport(s, "open")
  /\ UNCHANGED <<registry, reader, closer, announced, tunnelVars, managerVars>>

(* sftp.NewClient, NewSession, RequestPty or a pipe fails: the error is     *)
(* returned as it is, and the client stays as it is.                        *)
SetupFails(s) ==
  /\ CallStep(s, "setup", "failed")
  /\ UNCHANGED <<transport, registry, reader, closer, announced, tunnelVars, managerVars>>

Register(s) ==
  /\ CallStep(s, "setup", "added")
  /\ registry' = registry \cup {s}
  /\ UNCHANGED <<transport, reader, closer, announced, tunnelVars, managerVars>>

(* session.Shell() fails after sessionManager.Add: no goroutine is started. *)
ShellFails(s) ==
  /\ CallStep(s, "added", "failed")
  /\ UNCHANGED <<transport, registry, reader, closer, announced, tunnelVars, managerVars>>

(* Mutant of ShellStarts: the goroutine that reads stdout is not started.   *)
ShellStarts_NoReader(s) ==
  /\ CallStep(s, "added", "started")
  /\ transport[s] = "open"
  /\ UNCHANGED <<transport, registry, reader, closer, announced, tunnelVars, managerVars>>

ShellStarts(s) ==
  /\ CallStep(s, "added", "started")
  /\ transport[s] = "open"
  /\ reader' = [reader EXCEPT ![s] = "reading"]
  /\ UNCHANGED <<transport, registry, closer, announced, tunnelVars, managerVars>>

ConnectReturns(s) ==
  /\ CallStep(s, "started", "returned")
  /\ UNCHANGED <<transport, registry, reader, closer, announced, tunnelVars, managerVars>>

StartLocalTerminal(s) ==
  /\ s \in LocalSessions
  /\ CallStep(s, "idle", "started")
  /\ SetTransport(s, "open")
  /\ registry' = registry \cup {s}
  /\ reader' = [reader EXCEPT ![s] = "reading"]
  /\ UNCHANGED <<closer, announced, tunnelVars, managerVars>>

(* The peer or the network drops the connection.                            *)
TransportDies(s) ==
  /\ transport[s] = "open"
  /\ SetTransport(s, "dead")
  /\ UNCHANGED <<call, registry, reader, closer, announced, tunnelVars, managerVars>>

-----------------------------------------------------------------------------
(* closeSessionResources: CloseSession of the tunnel manager, then Remove   *)
(* of the session manager, each under its own lock.                         *)

Remove(s) ==
  /\ registry' = registry \ {s}
  /\ IF s \in registry THEN SetTransport(s, "closed") ELSE UNCHANGED transport

(* Mutant of ReaderStops: the listeners are closed behind the manager's     *)
(* back.                                                                    *)
ReaderStops_KeepsMaps(s) ==
  /\ reader[s] = "reading"
  /\ reader' = [reader EXCEPT ![s] = "stopping"]
  /\ listeners' = [p \in Ports |->
                     IF listeners[p] # None /\ listeners[p].session = s
                     THEN None ELSE listeners[p]]
  /\ UNCHANGED <<call, transport, registry, closer, announced, tunnelVars,
                 runtimeTunnels, tunnelSession>>

(* stdout ends: because the transport did, or because the shell exited.     *)
ReaderStops(s) ==
  /\ reader[s] = "reading"
  /\ reader' = [reader EXCEPT ![s] = "stopping"]
  /\ CloseSessionTunnels(s)
  /\ UNCHANGED <<call, transport, registry, closer, announced, tunnelVars>>

(* Mutant of ReaderRemoves: the transport is not closed.                    *)
ReaderRemoves_NotClosing(s) ==
  /\ reader[s] = "stopping"
  /\ reader' = [reader EXCEPT ![s] = "removed"]
  /\ registry' = registry \ {s}
  /\ UNCHANGED <<call, transport, closer, announced, tunnelVars, managerVars>>

ReaderRemoves(s) ==
  /\ reader[s] = "stopping"
  /\ reader' = [reader EXCEPT ![s] = "removed"]
  /\ Remove(s)
  /\ UNCHANGED <<call, closer, announced, tunnelVars, managerVars>>

ReaderAnnounces(s) ==
  /\ reader[s] = "removed"
  /\ reader' = [reader EXCEPT ![s] = "done"]
  /\ announced' = announced \cup {s}
  /\ UNCHANGED <<call, transport, registry, closer, tunnelVars, managerVars>>

(* CloseSession, called for the tab of a session whose connect call has     *)
(* returned.  A bound of the model: one such call of a session at a time.   *)
CloseBegins(s) ==
  /\ call[s] = "returned"
  /\ s \notin closer
  /\ closer' = closer \cup {s}
  /\ CloseSessionTunnels(s)
  /\ UNCHANGED <<call, transport, registry, reader, announced, tunnelVars>>

CloseEnds(s) ==
  /\ s \in closer
  /\ closer' = closer \ {s}
  /\ Remove(s)
  /\ UNCHANGED <<call, reader, announced, tunnelVars, managerVars>>

-----------------------------------------------------------------------------
(* Tunnel handlers *)

AddTunnel(t, p) ==
  /\ rows[t] = Unborn
  /\ rows' = [rows EXCEPT ![t] = p]
  /\ UNCHANGED <<sessionVars, managerVars, view, activating, changing>>

(* Mutant of GetTunnels: deleted rows are shown, too.                       *)
GetTunnels_ShowsDeleted(t) ==
  /\ view' = [view EXCEPT ![t] = IF rows[t] # Unborn
                                 THEN [port |-> rows[t], active |-> Active(t)]
                                 ELSE None]
  /\ UNCHANGED <<sessionVars, managerVars, rows, activating, changing>>

(* GetTunnels: the rows, each marked with Active.                           *)
GetTunnels(t) ==
  /\ view' = [view EXCEPT ![t] = IF rows[t] \in Ports
                                 THEN [port |-> rows[t], active |-> Active(t)]
                                 ELSE None]
  /\ UNCHANGED <<sessionVars, managerVars, rows, activating, changing>>

(* ToggleTunnel to activate, in two steps: the session is looked up, then   *)
(* its client is handed to the tunnel manager.  The parameters are those of *)
(* the row as the user interface last loaded it.                            *)
ToggleFindsSession(s, t) ==
  /\ call[s] = "returned"
  /\ s \in registry \ LocalSessions
  /\ view[t] # None /\ ~view[t].active
  /\ activating' = activating \cup
       {[session |-> s, tunnel |-> t, port |-> view[t].port]}
  /\ UNCHANGED <<sessionVars, managerVars, rows, view, changing>>

ToggleOpens(a) ==
  /\ a \in activating
  /\ activating' = activating \ {a}
  /\ \/ StartForward(a.session, a.tunnel, a.port)
     \/ listeners[a.port] # None /\ UNCHANGED managerVars
  /\ UNCHANGED <<sessionVars, rows, view, changing>>

ToggleOff(t) ==
  /\ view[t] # None /\ view[t].active
  /\ StopForward(t)
  /\ UNCHANGED <<sessionVars, tunnelVars>>

(* EditTunnel and DeleteTunnel: the forward is switched off first, the row  *)
(* is written afterwards.  A bound of the model: one change of a tunnel at  *)
(* a time.                                                                  *)
ChangeStops(c) ==
  /\ view[c.tunnel] # None
  /\ \A d \in changing : d.tunnel # c.tunnel
  /\ StopForward(c.tunnel)
  /\ changing' = changing \cup {c}
  /\ UNCHANGED <<sessionVars, rows, view, activating>>

ChangeWritesRow(c) ==
  /\ c \in changing
  /\ changing' = changing \ {c}
  /\ rows' = [rows EXCEPT ![c.tunnel] = IF @ \in Ports THEN c.row ELSE @]
  /\ UNCHANGED <<sessionVars, managerVars, view, activating>>

(* replaceTunnels and deleteTunnelsByConnectionID, as a merge of remote     *)
(* changes or the deletion of the connection runs them: rows only.          *)
ReplaceTunnels(t, r) ==
  /\ r \in Ports \cup {Gone}
  /\ rows[t] # Unborn
  /\ rows' = [rows EXCEPT ![t] = r]
  /\ UNCHANGED <<sessionVars, managerVars, view, activating, changing>>

-----------------------------------------------------------------------------

ConnectNext(s) ==
  \/ Connect(s)
  \/ DialFails(s)
  \/ DialSucceeds(s)
  \/ SetupFails(s)
  \/ Register(s)
  \/ ShellFails(s)
  \/ ShellStarts(s)
  \/ ConnectReturns(s)
  \/ StartLocalTerminal(s)
  \/ TransportDies(s)

CloseNext(s) ==
  \/ ReaderStops(s)
  \/ ReaderRemoves(s)
  \/ ReaderAnnounces(s)
  \/ CloseBegins(s)
  \/ CloseEnds(s)

TunnelNext ==
  \/ \E t \in Tunnels : GetTunnels(t) \/ ToggleOff(t)
  \/ \E t \in Tunnels, p \in Ports : AddTunnel(t, p)
  \/ \E s \in Sessions, t \in Tunnels : ToggleFindsSession(s, t)
  \/ \E a \in activating : ToggleOpens(a)
  \/ \E c \in Change : ChangeStops(c)
  \/ \E c \in changing : ChangeWritesRow(c)
  \/ \E t \in Tunnels, r \in Row : ReplaceTunnels(t, r)

Next ==
  \/ \E s \in Sessions : ConnectNext(s) \/ CloseNext(s)
  \/ TunnelNext

Spec == Init /\ [][Next]_vars

(* The steps the reader goroutine takes whatever the user and the peer do:  *)
(* a read from a closed or dead transport fails, and the rest follows.      *)
ReaderRunsOn(s) ==
  \/ transport[s] # "open" /\ ReaderStops(s)
  \/ ReaderRemoves(s)
  \/ ReaderAnnounces(s)

-----------------------------------------------------------------------------

SessionTypeOK ==
  /\ call \in [Sessions -> {"idle", "dialing", "setup", "added", "started",
                            "returned", "failed"}]
  /\ transport \in [Sessions -> {"none", "open", "dead", "closed"}]
  /\ registry \in SUBSET Sessions
  /\ reader \in [Sessions -> {"none", "reading", "stopping", "removed", "done"}]
  /\ closer \in SUBSET Sessions
  /\ announced \in SUBSET Sessions

TunnelTypeOK ==
  /\ rows \in [Tunnels -> Row]
  /\ view \in [Tunnels -> View \cup {None}]
  /\ activating \in SUBSET Activation
  /\ changing \in SUBSET Change

TypeOK == SessionTypeOK /\ TunnelTypeOK /\ ManagerTypeOK

(* A session-disconnected event is the last word about a session: when it   *)
(* is out, the session is out of the registry and its transport is closed,  *)
(* however the reader goroutine and CloseSession calls raced.  A tab may    *)
(* offer Reconnect on it without leaving a live client behind.              *)
AnnouncedSessionsAreReleased ==
  \A s \in announced : s \notin registry /\ transport[s] = "closed"

(* No usable session is lost: once its connect call has handed the session  *)
(* id out, a session that is not in the registry has been closed, and one   *)
(* that is still there has a goroutine that will notice its end.            *)
ReturnedSessionsAreTracked ==
  \A s \in Sessions :
    call[s] = "returned" =>
      \/ s \in registry /\ reader[s] \in {"reading", "stopping"}
      \/ s \notin registry /\ transport[s] = "closed"

(* A forward always runs through a client that ConnectSSH finished setting  *)
(* up: the owner of a listener is a session whose call has returned, never  *)
(* one still connecting, failed, or local.                                  *)
ForwardsUseConnectedClients ==
  \A p \in Ports :
    listeners[p] # None =>
      /\ call[listeners[p].session] = "returned"
      /\ listeners[p].session \notin LocalSessions

(* A session leaves the registry for good: ids are never registered again,  *)
(* and a closed transport never comes back.                                 *)
ClosedIsForever ==
  [][\A s \in Sessions :
       /\ transport[s] = "closed" => transport'[s] = "closed"
       /\ s \in registry' \ registry => transport[s] # "closed"]_vars

(* manager.go:48: the owner of a forward is recorded "so CloseSession can   *)
(* later tear it down if that session disconnects".  When every call and    *)
(* goroutine has finished, no forward belongs to a session that is gone.    *)
NoForwardOutlivesItsSession ==
  \A t \in Tunnels :
    tunnelSession[t] # None /\ activating = {} => tunnelSession[t] \notin announced
=============================================================================
