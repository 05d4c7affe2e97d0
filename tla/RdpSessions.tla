----------------------------- MODULE RdpSessions -----------------------------
(***************************************************************************)
(* The life of an RDP session (ssh-gui/app_rdp.go 136-180) over the client *)
(* it drives (third_party/gopher-rdp: connect_context.go, and Close and    *)
(* handleDisconnect of client.go).  The session is in the map, and can be  *)
(* cancelled, before there is a connection.                                *)
(***************************************************************************)

CONSTANT RdpIds   \* sessions, one ConnectRDP call each

VARIABLE rdp      \* session -> its state, an RdpSession

RdpSession ==
  [call: {"idle", "dialing", "handshaking", "shaken", "connected", "refused",
          "clearing", "undoing", "undone", "failed", "returned"},  \* ConnectRDP
   stored: BOOLEAN,                              \* is it in rdpSessions?
   canceled: BOOLEAN,                            \* its context
   client: {"new", "connected", "lost", "closed"},  \* c.closed, and whose doing
   socket: {"none", "open", "closed"},           \* the client's TCP connection
   canceling: BOOLEAN,      \* is a cancel function between cancel() and CloseRDP?
   disconnecting: BOOLEAN,  \* is a goroutine of OnDisconnect about to CloseRDP?
   close: {"no", "taken", "canceled", "closed", "announced"}]
                            \* the CloseRDP that took it from the map

RdpInit ==
  rdp = [s \in RdpIds |->
    [call |-> "idle", stored |-> FALSE, canceled |-> FALSE, client |-> "new",
     socket |-> "none", canceling |-> FALSE, disconnecting |-> FALSE,
     close |-> "no"]]

Closed(r) == r.client \in {"lost", "closed"}

(* LoadAndDelete, the first thing CloseRDP does.                            *)
RdpTake(r) ==
  [r EXCEPT !.stored = FALSE, !.close = IF r.stored THEN "taken" ELSE r.close]

(* Client.Close: nothing happens to a client that is closed already.        *)
ClientClose(r) ==
  IF Closed(r) THEN r
  ELSE [r EXCEPT !.client = "closed",
                 !.socket = IF r.socket = "open" THEN "closed" ELSE r.socket]

RdpBecomes(s, r) == rdp' = [rdp EXCEPT ![s] = r]

-----------------------------------------------------------------------------
(* ConnectRDP *)

(* The session is stored, then its cancel function; nobody else knows the   *)
(* id in between.                                                           *)
RdpBegin(s) ==
  /\ rdp[s].call = "idle"
  /\ RdpBecomes(s, [rdp[s] EXCEPT !.call = "dialing", !.stored = TRUE])

(* DialContext returns a connection and the client is still wanted.         *)
RdpDials(s) ==
  /\ rdp[s].call = "dialing"
  /\ ~Closed(rdp[s]) /\ ~rdp[s].canceled
  /\ RdpBecomes(s, [rdp[s] EXCEPT !.call = "handshaking", !.socket = "open"])

(* context.AfterFunc: cancelled or out of time, the handshake loses its     *)
(* connection.                                                              *)
RdpAborts(s) ==
  /\ rdp[s].call = "handshaking" /\ rdp[s].socket = "open"
  /\ RdpBecomes(s, [rdp[s] EXCEPT !.socket = "closed"])

(* The handshake has succeeded, and stop() prevents RdpAborts.              *)
RdpHandshakes(s) ==
  /\ rdp[s].call = "handshaking"
  /\ rdp[s].socket = "open" /\ ~rdp[s].canceled
  /\ RdpBecomes(s, [rdp[s] EXCEPT !.call = "shaken"])

(* The last look at c.closed, then the receive loop runs.                   *)
RdpConnects(s) ==
  /\ rdp[s].call = "shaken" /\ ~Closed(rdp[s])
  /\ RdpBecomes(s, [rdp[s] EXCEPT !.call = "connected", !.client = "connected"])

(* Dialing or the handshake fails, or is not wanted any more: the deferred  *)
(* Close, and the error is returned.                                        *)
RdpConnectFails(s) ==
  /\ rdp[s].call \in {"dialing", "handshaking", "shaken"}
  /\ RdpBecomes(s, [ClientClose(rdp[s]) EXCEPT !.call = "refused"])

(* ConnectContext has failed, or the context is cancelled: CloseRDP.        *)
RdpGivesUp(s) ==
  /\ rdp[s].call = "refused" \/ (rdp[s].call = "connected" /\ rdp[s].canceled)
  /\ RdpBecomes(s, [RdpTake(rdp[s]) EXCEPT
                      !.call = IF rdp[s].stored THEN "undoing" ELSE "undone"])

(* ctx.Err() is nil: the call succeeds.                                     *)
RdpKeeps(s) ==
  /\ rdp[s].call = "connected" /\ ~rdp[s].canceled
  /\ RdpBecomes(s, [rdp[s] EXCEPT !.call = "clearing"])

(* The deferred clearConnectAttempt, and the call returns.                  *)
RdpReturns(s) ==
  \/ /\ rdp[s].call = "clearing"
     /\ RdpBecomes(s, [rdp[s] EXCEPT !.call = "returned"])
  \/ /\ rdp[s].call = "undone" \/ (rdp[s].call = "undoing" /\ rdp[s].close = "announced")
     /\ RdpBecomes(s, [rdp[s] EXCEPT !.call = "failed"])

-----------------------------------------------------------------------------
(* Four ways to CloseRDP: ConnectRDP itself, and *)

(* CancelConnect: cancel() ...                                              *)
RdpCancel(s) ==
  /\ rdp[s].call \notin {"idle", "returned", "failed"}
  /\ RdpBecomes(s, [rdp[s] EXCEPT !.canceled = TRUE, !.canceling = TRUE])

(* ... and CloseRDP.                                                        *)
RdpCancelCloses(s) ==
  /\ rdp[s].canceling
  /\ RdpBecomes(s, [RdpTake(rdp[s]) EXCEPT !.canceling = FALSE])

(* handleDisconnect: c.closed is set, the callback called, and the          *)
(* connection left as it is.                                                *)
RdpLost(s) ==
  /\ rdp[s].client = "connected"
  /\ RdpBecomes(s, [rdp[s] EXCEPT !.client = "lost", !.disconnecting = TRUE])

(* Mutant of RdpLostCloses: the loss goes unnoticed.                        *)
RdpLostCloses_Dropped(s) ==
  /\ rdp[s].disconnecting
  /\ RdpBecomes(s, [rdp[s] EXCEPT !.disconnecting = FALSE])

(* The goroutine OnDisconnect starts.                                       *)
RdpLostCloses(s) ==
  /\ rdp[s].disconnecting
  /\ RdpBecomes(s, [RdpTake(rdp[s]) EXCEPT !.disconnecting = FALSE])

RdpUserCloses(s) ==
  /\ rdp[s].call = "returned"
  /\ RdpBecomes(s, RdpTake(rdp[s]))

(* What CloseRDP does with the session it took: session.cancel, ...         *)
RdpCloseCancels(s) ==
  /\ rdp[s].close = "taken"
  /\ RdpBecomes(s, [rdp[s] EXCEPT !.close = "canceled", !.canceled = TRUE])

(* ... client.Close, ...                                                    *)
RdpCloseCloses(s) ==
  /\ rdp[s].close = "canceled"
  /\ RdpBecomes(s, [ClientClose(rdp[s]) EXCEPT !.close = "closed"])

(* ... and the event.                                                       *)
RdpAnnounce(s) ==
  /\ rdp[s].close = "closed"
  /\ RdpBecomes(s, [rdp[s] EXCEPT !.close = "announced"])

-----------------------------------------------------------------------------

RdpCallStep(s) ==
  RdpDials(s) \/ RdpHandshakes(s) \/ RdpConnects(s) \/ RdpConnectFails(s)
    \/ RdpGivesUp(s) \/ RdpKeeps(s) \/ RdpReturns(s)

RdpCloseStep(s) == RdpCloseCancels(s) \/ RdpCloseCloses(s) \/ RdpAnnounce(s)

RdpNext ==
  \E s \in RdpIds :
    \/ RdpBegin(s)
    \/ RdpCallStep(s)
    \/ RdpAborts(s)
    \/ RdpCancel(s)
    \/ RdpCancelCloses(s)
    \/ RdpLost(s)
    \/ RdpLostCloses(s)
    \/ RdpUserCloses(s)
    \/ RdpCloseStep(s)

RdpSpec == RdpInit /\ [][RdpNext]_rdp

(* Goroutines run on, and ConnectContext returns after 30 seconds at most.  *)
RdpFairness ==
  \A s \in RdpIds :
    /\ WF_rdp(RdpCallStep(s))
    /\ WF_rdp(RdpCancelCloses(s))
    /\ WF_rdp(RdpLostCloses(s))
    /\ WF_rdp(RdpCloseStep(s))

-----------------------------------------------------------------------------

(* What the maps and flags of a session may hold.                           *)
RdpTypeOK == rdp \in [RdpIds -> RdpSession]

(* A client with a connection is never out of reach: until the peer ends    *)
(* it, its session is in the map, where CloseRDP finds it, or a CloseRDP    *)
(* call that will close it is under way, however dialing, handshake and     *)
(* cancellation raced; and once announced, the client accepts nothing and   *)
(* its frame goroutine stops.                                               *)
RdpClientsAreOwned ==
  \A s \in RdpIds :
    /\ rdp[s].socket = "open" /\ rdp[s].client # "lost" =>
         rdp[s].stored \/ rdp[s].close \in {"taken", "canceled"}
    /\ rdp[s].close = "announced" => Closed(rdp[s]) /\ rdp[s].canceled

(* A session that was cancelled, refused or lost is announced as            *)
(* disconnected, whichever of the racing calls took it from the map.        *)
RdpEndsAreAnnounced ==
  \A s \in RdpIds :
    (rdp[s].canceled \/ rdp[s].call = "refused" \/ rdp[s].client = "lost")
      ~> (rdp[s].close = "announced")
=============================================================================
