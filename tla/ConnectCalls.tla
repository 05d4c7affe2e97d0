---------------------------- MODULE ConnectCalls -----------------------------
(* What the two sides of connecting, the cancel functions and the host key  *)
(* prompts, have in common: the calls, and the handshakes each of them      *)
(* makes (createSSHClientWithJump, ssh-gui/app_terminal.go 281-406).        *)

CONSTANTS Attempts,  \* ConnectSSH and ConnectSSHVia calls
          Jumping,   \* those that go through a jump host
          None

ASSUME JumpAssumption == Jumping \subseteq Attempts

Jump(a) == <<a, "jump">>       \* the handshake with the jump host
Target(a) == <<a, "target">>   \* the handshake with the connection's host

Handshakes == {Jump(a) : a \in Jumping} \cup {Target(a) : a \in Attempts}
=============================================================================
