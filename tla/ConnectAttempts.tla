--------------------------- MODULE ConnectAttempts ---------------------------
(***************************************************************************)
(* Cancelling a connection attempt (ssh-gui/app.go 327-347 and the callers *)
(* in app_terminal.go).  A sync.Map holds one cancel function per key,     *)
(* connection id and protocol; the call that stores it deletes the key,    *)
(* whatever it holds by then, when it returns.  A call makes its client    *)
(* with the host, or with a jump host first and through it with the host.  *)
(***************************************************************************)
EXTENDS ConnectCalls

CONSTANTS Keys,         \* connectionID + ":ssh"
          KeyOf         \* the key each attempt registers under

ASSUME KeyAssumption ==
  /\ KeyOf \in [Attempts -> Keys]
  /\ None \notin Attempts \cup {"session", "error"}

VARIABLES
  step,             \* attempt -> how far its call has come
  connectAttempts,  \* key -> the attempt whose cancel function is stored
  canceled,         \* attempts whose context is cancelled
  requested,        \* attempts the user asked to cancel while still dialing
  outcome           \* attempt -> what the call returned

vars == <<step, connectAttempts, canceled, requested, outcome>>

Init ==
  /\ step = [a \in Attempts |-> "idle"]
  /\ connectAttempts = [k \in Keys |-> None]
  /\ canceled = {}
  /\ requested = {}
  /\ outcome = [a \in Attempts |-> None]

Go(a, from, to) == step[a] = from /\ step' = [step EXCEPT ![a] = to]

(* registerConnectAttempt                                                   *)
Begin(a) ==
  /\ Go(a, "idle", IF a \in Jumping THEN "jumping" ELSE "dialing")
  /\ connectAttempts' = [connectAttempts EXCEPT ![KeyOf[a]] = a]
  /\ UNCHANGED <<canceled, requested, outcome>>

(* dialSSHContext returns a client of the jump host.                        *)
HaveJumpClient(a) ==
  /\ Go(a, "jumping", "jumped")
  /\ UNCHANGED <<connectAttempts, canceled, requested, outcome>>

(* The look at ctx.Err() between the two.                                   *)
CheckJump(a) ==
  /\ IF a \in canceled
     THEN /\ Go(a, "jumped", "returning")
          /\ outcome' = [outcome EXCEPT ![a] = "error"]
     ELSE Go(a, "jumped", "reaching") /\ UNCHANGED outcome
  /\ UNCHANGED <<connectAttempts, canceled, requested>>

(* jumpClient.Dial, which knows nothing of the context: the jump host opens *)
(* a connection to the host, in its own time.                               *)
JumpReaches(a) ==
  /\ Go(a, "reaching", "dialing")
  /\ UNCHANGED <<connectAttempts, canceled, requested, outcome>>

(* createSSHClient returns a client.  It may have been cancelled meanwhile. *)
HaveClient(a) ==
  /\ Go(a, "dialing", "dialed")
  /\ UNCHANGED <<connectAttempts, canceled, requested, outcome>>

(* createSSHClient returns an error: a cancelled context makes it, and so   *)
(* may anything else.                                                       *)
DialFails(a) ==
  /\ \E s \in {"jumping", "reaching", "dialing"} : Go(a, s, "returning")
  /\ outcome' = [outcome EXCEPT ![a] = "error"]
  /\ UNCHANGED <<connectAttempts, canceled, requested>>

(* Mutants of CheckContext: the context is not looked at; a cancelled call  *)
(* does not return.                                                         *)
CheckContext_Ignored(a) ==
  /\ Go(a, "dialed", "settling")
  /\ UNCHANGED <<connectAttempts, canceled, requested, outcome>>


(* The only look at ctx.Err() after the client of the host exists.          *)
CheckContext(a) ==
  /\ IF a \in canceled
     THEN /\ Go(a, "dialed", "returning")
          /\ outcome' = [outcome EXCEPT ![a] = "error"]
     ELSE Go(a, "dialed", "settling") /\ UNCHANGED outcome
  /\ UNCHANGED <<connectAttempts, canceled, requested>>

(* SFTP, session, pty and shell: the context is not consulted any more.     *)
Settle(a) ==
  /\ Go(a, "settling", "returning")
  /\ \E r \in {"session", "error"} : outcome' = [outcome EXCEPT ![a] = r]
  /\ UNCHANGED <<connectAttempts, canceled, requested>>

(* The deferred calls, in their order: cancel(), then clearConnectAttempt.  *)
DeferredCancel(a) ==
  /\ Go(a, "returning", "clearing")
  /\ canceled' = canceled \cup {a}
  /\ UNCHANGED <<connectAttempts, requested, outcome>>

ClearConnectAttempt(a) ==
  /\ Go(a, "clearing", "done")
  /\ connectAttempts' = [connectAttempts EXCEPT ![KeyOf[a]] = None]
  /\ UNCHANGED <<canceled, requested, outcome>>

(* The client is being made.                                                *)
ClientSteps == {"jumping", "jumped", "reaching", "dialing", "dialed"}

(* Mutant of CancelConnect: the function is loaded and not called.          *)
CancelConnect_NotCalled(k) ==
  /\ connectAttempts[k] # None
  /\ requested' = requested \cup {connectAttempts[k]}
  /\ UNCHANGED <<step, connectAttempts, canceled, outcome>>

CancelConnect(k) ==
  /\ connectAttempts[k] # None
  /\ canceled' = canceled \cup {connectAttempts[k]}
  /\ requested' = IF step[connectAttempts[k]] \in ClientSteps
                  THEN requested \cup {connectAttempts[k]} ELSE requested
  /\ UNCHANGED <<step, connectAttempts, outcome>>

CallSteps(a) ==
  \/ HaveJumpClient(a)
  \/ CheckJump(a)
  \/ JumpReaches(a)
  \/ HaveClient(a)
  \/ DialFails(a)
  \/ CheckContext(a)
  \/ Settle(a)
  \/ DeferredCancel(a)
  \/ ClearConnectAttempt(a)

Next ==
  \/ \E a \in Attempts : Begin(a) \/ CallSteps(a)
  \/ \E k \in Keys : CancelConnect(k)

Spec == Init /\ [][Next]_vars

-----------------------------------------------------------------------------

InFlight(a) == step[a] \notin {"idle", "done"}

TypeOK ==
  /\ step \in [Attempts -> ClientSteps \cup
                {"idle", "settling", "returning", "clearing", "done"}]
  /\ connectAttempts \in [Keys -> Attempts \cup {None}]
  /\ canceled \in SUBSET Attempts
  /\ requested \in SUBSET canceled
  /\ outcome \in [Attempts -> {None, "session", "error"}]

(* A stored cancel function is that of a call still in progress for that    *)
(* very key: although a call deletes the key without looking at its value,  *)
(* no finished call's function stays behind for CancelConnect to find.      *)
StoredCancelsAreLive ==
  \A k \in Keys : connectAttempts[k] # None =>
    InFlight(connectAttempts[k]) /\ KeyOf[connectAttempts[k]] = k

(* Cancelling while the client is being made wins: however the request      *)
(* races the handshake, the call returns an error and leaves no session.    *)
CanceledDialsYieldNoSession ==
  \A a \in requested : outcome[a] # "session"

(* Only the user's request, at which no call moves, and the call's own      *)
(* return cancel a context: an attempt is never aborted by the beginning or *)
(* the end of another attempt on the same connection.                       *)
AttemptsEndAlone ==
  [][\A a \in canceled' \ canceled :
       step'[a] = "clearing" \/ step' = step]_vars

(* app.go:339: "CancelConnect aborts an in-flight ConnectSSH/ConnectSSHVia  *)
(* call for the given connection, if one is currently in progress."  While  *)
(* a call makes its client, CancelConnect finds a function to call.         *)
DialingCanBeCanceled ==
  \A a \in Attempts : step[a] \in ClientSteps => connectAttempts[KeyOf[a]] # None
=============================================================================
