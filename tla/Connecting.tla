----------------------------- MODULE Connecting ------------------------------
(***************************************************************************)
(* Connecting as a whole: the calls of ConnectAttempts, whose handshakes   *)
(* ask the host key callback of HostKeyTrust (ssh-gui/app_terminal.go      *)
(* 56-98, 159-208, 281-406).  A callback runs on a goroutine of the SSH    *)
(* library: it starts while its call is at that handshake, a client exists *)
(* only after it returned nil, and it may outlive a call whose connection  *)
(* was closed under it.  Both components do what they do alone; neither    *)
(* blocks the other beyond that.                                           *)
(***************************************************************************)
EXTENDS ConnectAttempts, HostKeyTrust

connectingVars == <<vars, trustVars>>

ConnectingInit == Init /\ TrustInit

(* The handshake a call is at, one after the other behind a jump host.      *)
At(h) ==
  \/ h = Jump(h[1]) /\ step[h[1]] = "jumping"
  \/ h = Target(h[1]) /\ step[h[1]] = "dialing"

HandshakesOf(a) == {h \in Handshakes : h[1] = a}

(* NewClientConn succeeds, or anything goes wrong, a refusal included.      *)
Handshake(a) ==
  /\ \/ HaveJumpClient(a) /\ callback[Jump(a)] = "trusted"
     \/ HaveClient(a) /\ callback[Target(a)] = "trusted"
     \/ DialFails(a)
  /\ UNCHANGED trustVars

(* Everything else a call does before and after it has its client.          *)
AfterHandshake(a) ==
  /\ \/ CheckJump(a)
     \/ CheckContext(a)
     \/ Settle(a)
     \/ DeferredCancel(a)
     \/ ClearConnectAttempt(a)
  /\ UNCHANGED trustVars

(* The server's key is seen in the handshake.                               *)
ServerKnown(h) ==
  /\ At(h)
  /\ \E f \in Prints : CheckKnownHost(h, f)
  /\ UNCHANGED vars

(* Whatever the callback does next; ctx.Done is among the cases of GiveUp.  *)
CallbackRuns(h) == CallbackStep(h) /\ UNCHANGED vars

PromptAnswered ==
  /\ \/ \E h \in Handshakes : ShowPrompt(h)
     \/ \E approved \in BOOLEAN : Click(approved)
     \/ \E n \in answers : AnswerLoads(n) \/ AnswerSends(n)
  /\ UNCHANGED vars

ConnectingNext ==
  \/ \E a \in Attempts :
       \/ Begin(a) /\ UNCHANGED trustVars
       \/ Handshake(a)
       \/ AfterHandshake(a)
       \/ JumpReaches(a) /\ UNCHANGED trustVars
  \/ \E h \in Handshakes : ServerKnown(h) \/ CallbackRuns(h)
  \/ \E k \in Keys : CancelConnect(k) /\ UNCHANGED trustVars
  \/ PromptAnswered

ConnectingSpec == ConnectingInit /\ [][ConnectingNext]_connectingVars

(* What a cancelled call waits for that its context does not end: Dial of   *)
(* the jump client, and then the jump host, which has to answer before the  *)
(* tunnelled connection is closed.                                          *)
BeyondJump(a) == a \in Jumping /\ step[a] \in {"reaching", "dialing"}

(* Goroutines run on: a cancelled context closes the connection under a     *)
(* handshake that is not tunnelled, and the prompt of a callback ends with  *)
(* its 90 seconds at the latest.  Nothing is assumed of the user, of a jump *)
(* host, or of a dial nobody cancels.                                       *)
Runs(a) ==
  \/ a \in canceled /\ ~BeyondJump(a) /\ Handshake(a)
  \/ AfterHandshake(a)
  \/ \E h \in HandshakesOf(a) : CallbackRuns(h)

ConnectingFairness == \A a \in Attempts : WF_connectingVars(Runs(a))

FairConnectingSpec == ConnectingSpec /\ ConnectingFairness

-----------------------------------------------------------------------------

ConnectingTypeOK == TypeOK /\ TrustTypeOK

(* No session without trust: a call that returned a session has been let    *)
(* past the keys of its host and its jump host, and the user has said yes   *)
(* for each, in this call's prompt or in an earlier one that put the key on *)
(* record, whichever calls were cancelled, timed out or replaced each       *)
(* other's prompt.                                                          *)
SessionsWereTrusted ==
  \A a \in Attempts : outcome[a] = "session" =>
    \A h \in HandshakesOf(a) : callback[h] = "trusted" /\ TRUE \in asked[HostOf[h]]

AtRest(a) ==
  /\ step[a] = "done"
  /\ \A h \in HandshakesOf(a) : callback[h] \in {"idle", "trusted", "refused"}

=============================================================================
