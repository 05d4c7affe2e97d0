------------------------------ MODULE VncBridge ------------------------------
(***************************************************************************)
(* The bridge between a VNC server and the viewer in the user interface    *)
(* (ssh-gui/app_vnc.go).  connectVNC dials the server, opens a loopback    *)
(* listener and stores the session; from then on four parties may end it:  *)
(* the call itself when it was cancelled, the expiry timer, the viewer     *)
(* that claimed it, and CloseVNC from the user interface.                  *)
(***************************************************************************)

CONSTANTS VncIds,   \* sessions, one ConnectVNC or ConnectNoVNC call each
          Viewers   \* WebSocket clients of a session's listener

VARIABLES vnc,      \* session -> its state, a VncSession
          viewer    \* session -> viewer -> how far the HTTP handler has come

vncVars == <<vnc, viewer>>

VncSession ==
  [call: {"idle", "dialing", "dialed", "stored", "clearing", "undoing", "undone",
          "failing", "failed", "returned"},     \* connectVNC
   canceled: BOOLEAN,                           \* its context
   remote: {"none", "open", "ended", "closed"}, \* the connection to the server
   listener: {"none", "open", "closed"},
   server: {"no", "starting", "on", "late", "closed"},  \* the http.Server
   stored: BOOLEAN,                             \* is it in vncSessions?
   timer: {"none", "armed", "fired", "stopped"},
   close: {"no", "taken", "released", "announced"},  \* the CloseVNC that took it
   claimed: BOOLEAN]                            \* has claim.Do run?

Viewing == {"away", "accepted", "trusted", "claiming", "greeting", "streaming",
            "leaving", "gone"}

VncInit ==
  /\ vnc = [s \in VncIds |->
       [call |-> "idle", canceled |-> FALSE, remote |-> "none", listener |-> "none",
        server |-> "no", stored |-> FALSE, timer |-> "none", close |-> "no",
        claimed |-> FALSE]]
  /\ viewer = [s \in VncIds |-> [v \in Viewers |-> "away"]]

Stopped(t) == IF t = "armed" THEN "stopped" ELSE t

VncBecomes(s, r) == vnc' = [vnc EXCEPT ![s] = r]

(* A step of which the viewers see nothing at once.                         *)
VncAlone(s, r) == VncBecomes(s, r) /\ UNCHANGED viewer

-----------------------------------------------------------------------------
(* connectVNC *)

VncBegin(s) ==
  /\ vnc[s].call = "idle"
  /\ VncAlone(s, [vnc[s] EXCEPT !.call = "dialing"])

(* Dial or DialWebSocket closes what it opened and returns an error; or the *)
(* context was good when authenticateTransport looked at it last.           *)
VncDials(s) ==
  /\ vnc[s].call = "dialing"
  /\ \/ VncAlone(s, [vnc[s] EXCEPT !.call = "failing"])
     \/ VncAlone(s, [vnc[s] EXCEPT !.call = "dialed", !.remote = "open"])

(* net.Listen or rand.Read fails.                                           *)
VncListenFails(s) ==
  /\ vnc[s].call = "dialed"
  /\ VncAlone(s, [vnc[s] EXCEPT !.call = "failing", !.remote = "closed"])

(* The listener, the timer, and the session in the map.                     *)
VncStore(s) ==
  /\ vnc[s].call = "dialed"
  /\ VncAlone(s, [vnc[s] EXCEPT !.call = "stored", !.listener = "open",
                                !.timer = "armed", !.stored = TRUE])

(* LoadAndDelete, the first thing CloseVNC does: one caller takes the       *)
(* session out of the map, for the others there is nothing to do.           *)
TakeVnc(r) ==
  [r EXCEPT !.stored = FALSE, !.close = IF r.stored THEN "taken" ELSE r.close]

(* ctx.Err() decides: the server is started and the call succeeds, or the   *)
(* session is closed again.                                                 *)
VncChecks(s) ==
  /\ vnc[s].call = "stored"
  /\ \/ /\ ~vnc[s].canceled
        /\ VncAlone(s, [vnc[s] EXCEPT !.call = "clearing", !.server = "starting"])
     \/ /\ vnc[s].canceled
        /\ VncAlone(s, [TakeVnc(vnc[s]) EXCEPT
                          !.call = IF vnc[s].stored THEN "undoing" ELSE "undone"])

(* CloseVNC has returned: listener.Close.                                   *)
VncUndone(s) ==
  /\ vnc[s].call = "undone" \/ (vnc[s].call = "undoing" /\ vnc[s].close = "announced")
  /\ VncAlone(s, [vnc[s] EXCEPT !.call = "failing", !.listener = "closed"])

(* The deferred calls: cancel() after an error, and the key is deleted.     *)
VncReturns(s) ==
  \/ /\ vnc[s].call = "failing"
     /\ VncAlone(s, [vnc[s] EXCEPT !.call = "failed", !.canceled = TRUE])
  \/ /\ vnc[s].call = "clearing"
     /\ VncAlone(s, [vnc[s] EXCEPT !.call = "returned"])

(* CancelConnect calls the stored function.  The context closes a WebSocket *)
(* to the server, but no TCP connection past the handshake.                 *)
VncCancel(s) ==
  /\ vnc[s].call \notin {"idle", "returned", "failed"}
  /\ \/ VncAlone(s, [vnc[s] EXCEPT !.canceled = TRUE])
     \/ /\ vnc[s].remote = "open"
        /\ VncAlone(s, [vnc[s] EXCEPT !.canceled = TRUE, !.remote = "closed"])

-----------------------------------------------------------------------------
(* Goroutines and the user interface *)

(* server.Serve; after server.Close it closes the listener and returns.     *)
VncServing(s) ==
  \/ /\ vnc[s].server = "starting"
     /\ VncAlone(s, [vnc[s] EXCEPT !.server = "on"])
  \/ /\ vnc[s].server = "late"
     /\ VncAlone(s, [vnc[s] EXCEPT !.server = "closed", !.listener = "closed"])

(* What CloseVNC does with the session it took: timer.Stop, cancel and      *)
(* remote.Close; ...                                                        *)
VncRelease(s) ==
  /\ vnc[s].close = "taken"
  /\ VncAlone(s, [vnc[s] EXCEPT !.close = "released", !.canceled = TRUE,
                     !.remote = "closed", !.timer = Stopped(vnc[s].timer)])

(* ... server.Close, which closes the listener only when Serve has got hold *)
(* of it; and the event.                                                    *)
VncAnnounce(s) ==
  /\ vnc[s].close = "released"
  /\ VncAlone(s, [vnc[s] EXCEPT !.close = "announced",
       !.listener = IF vnc[s].server = "on" THEN "closed" ELSE vnc[s].listener,
       !.server = IF vnc[s].server = "starting" THEN "late" ELSE "closed"])

(* Mutant of VncExpires: the session stays.                                 *)
VncExpires_DoesNothing(s) ==
  /\ vnc[s].timer = "armed"
  /\ VncAlone(s, [vnc[s] EXCEPT !.timer = "fired"])

(* time.AfterFunc(30s): CloseVNC.                                           *)
VncExpires(s) ==
  /\ vnc[s].timer = "armed"
  /\ VncAlone(s, [TakeVnc(vnc[s]) EXCEPT !.timer = "fired"])

(* VNCView knows the id once the call has returned.                         *)
VncUserCloses(s) ==
  /\ vnc[s].call = "returned"
  /\ VncAlone(s, TakeVnc(vnc[s]))

(* The VNC server goes away.                                                *)
RemoteEnds(s) ==
  /\ vnc[s].remote = "open"
  /\ VncAlone(s, [vnc[s] EXCEPT !.remote = "ended"])

-----------------------------------------------------------------------------
(* The HTTP handler *)

ViewerGo(s, v, from, to) ==
  /\ viewer[s][v] = from
  /\ viewer' = [viewer EXCEPT ![s][v] = to]

ViewerConnects(s, v) ==
  /\ vnc[s].listener = "open" /\ vnc[s].server = "on"
  /\ ViewerGo(s, v, "away", "accepted")
  /\ UNCHANGED vnc

(* Its token is read and right, before the context is cancelled; or not.    *)
ViewerAuthenticates(s, v) ==
  /\ \/ ViewerGo(s, v, "accepted", "trusted") /\ ~vnc[s].canceled
     \/ ViewerGo(s, v, "accepted", "gone")
  /\ UNCHANGED vnc

(* Mutant of ViewerClaims: claim.Do is not asked.                           *)
ViewerClaims_Again(s, v) ==
  /\ ViewerGo(s, v, "trusted", "claiming")
  /\ VncBecomes(s, [vnc[s] EXCEPT !.claimed = TRUE])

ViewerClaims(s, v) ==
  /\ ViewerGo(s, v, "trusted", IF vnc[s].claimed THEN "gone" ELSE "claiming")
  /\ VncBecomes(s, [vnc[s] EXCEPT !.claimed = TRUE])

(* timer.Stop.                                                              *)
ViewerStopsTimer(s, v) ==
  /\ ViewerGo(s, v, "claiming", "greeting")
  /\ VncBecomes(s, [vnc[s] EXCEPT !.timer = Stopped(vnc[s].timer)])

(* ViewerHandshake succeeds, or fails: because the viewer left, or because  *)
(* the context closed the stream.                                           *)
ViewerGreets(s, v) ==
  /\ \/ ViewerGo(s, v, "greeting", "streaming") /\ ~vnc[s].canceled
     \/ ViewerGo(s, v, "greeting", "leaving")
  /\ UNCHANGED vnc

(* One of the two copies ends, and with it the other.                       *)
ViewerStreamEnds(s, v) ==
  /\ ViewerGo(s, v, "streaming", "leaving")
  /\ VncBecomes(s, [vnc[s] EXCEPT !.canceled = TRUE, !.remote = "closed"])

(* The deferred CloseVNC.                                                   *)
ViewerLeaves(s, v) ==
  /\ ViewerGo(s, v, "leaving", "gone")
  /\ VncBecomes(s, TakeVnc(vnc[s]))

-----------------------------------------------------------------------------

VncCallStep(s) ==
  VncDials(s) \/ VncListenFails(s) \/ VncStore(s) \/ VncChecks(s) \/ VncUndone(s)
    \/ VncReturns(s)

ViewerStep(s, v) ==
  ViewerAuthenticates(s, v) \/ ViewerClaims(s, v) \/ ViewerStopsTimer(s, v)
    \/ ViewerGreets(s, v) \/ ViewerStreamEnds(s, v) \/ ViewerLeaves(s, v)

VncNext ==
  \E s \in VncIds :
    \/ VncBegin(s)
    \/ VncCallStep(s)
    \/ VncCancel(s)
    \/ VncServing(s)
    \/ VncRelease(s)
    \/ VncAnnounce(s)
    \/ VncExpires(s)
    \/ VncUserCloses(s)
    \/ RemoteEnds(s)
    \/ \E v \in Viewers : ViewerConnects(s, v) \/ ViewerStep(s, v)

VncSpec == VncInit /\ [][VncNext]_vncVars

(* Goroutines run on, dialing and the token have time limits, and the timer *)
(* fires.  The greeting and the stream last as long as the viewer likes,    *)
(* but no longer than the context and, the stream, the server's connection. *)
VncFairness ==
  \A s \in VncIds :
    /\ WF_vncVars(VncCallStep(s))
    /\ WF_vncVars(VncServing(s))
    /\ WF_vncVars(VncRelease(s) \/ VncAnnounce(s))
    /\ WF_vncVars(VncExpires(s))
    /\ \A v \in Viewers :
         /\ WF_vncVars(ViewerAuthenticates(s, v) \/ ViewerClaims(s, v)
                         \/ ViewerStopsTimer(s, v) \/ ViewerLeaves(s, v))
         /\ WF_vncVars(vnc[s].canceled /\ ViewerGreets(s, v))
         /\ WF_vncVars((vnc[s].canceled \/ vnc[s].remote # "open")
                         /\ ViewerStreamEnds(s, v))

-----------------------------------------------------------------------------

VncTypeOK ==
  /\ vnc \in [VncIds -> VncSession]
  /\ viewer \in [VncIds -> [Viewers -> Viewing]]

(* No connection to a VNC server is left behind: while it is not closed,    *)
(* the call that dialed it has not finished, or the session is in the map,  *)
(* where the timer, the viewer and CloseVNC find it, or one of them is      *)
(* closing it.  That covers every error path of connectVNC, and a           *)
(* cancellation at every moment.                                            *)
RemotesAreOwned ==
  \A s \in VncIds :
    vnc[s].remote \in {"open", "ended"} =>
      vnc[s].call = "dialed" \/ vnc[s].stored \/ vnc[s].close = "taken"

(* docs/vnc/implementacion.md:7: "Cada sesion admite un solo visor".  Once  *)
(* a viewer is bridged, no other one is, and the expiry timer can no longer *)
(* begin to end its session.                                                *)
BridgedViewersAreAlone ==
  \A s \in VncIds, v \in Viewers :
    viewer[s][v] \in {"greeting", "streaming"} =>
      /\ vnc[s].timer # "armed"
      /\ \A w \in Viewers \ {v} :
           viewer[s][w] \notin {"claiming", "greeting", "streaming"}

VncReleased(s) ==
  vnc[s].remote \in {"none", "closed"} /\ vnc[s].listener # "open" /\ ~vnc[s].stored

(* docs/vnc/implementacion.md:7: a session "caduca si no se adjunta en 30   *)
(* segundos", and poc.md:21: "Cerrar cliente, socket y conexion TCP al      *)
(* cancelar o cerrar la pestana".  A session nobody claims, one that is     *)
(* cancelled, however late, and one that was announced as disconnected are  *)
(* released with everything they hold.                                      *)
VncSessionsAreReleased ==
  \A s \in VncIds :
    /\ (vnc[s].call = "returned") ~> (vnc[s].claimed \/ VncReleased(s))
    /\ (vnc[s].canceled \/ vnc[s].close = "announced") ~> [](VncReleased(s))
=============================================================================
