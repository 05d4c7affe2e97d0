----------------------------- MODULE MCAccount -------------------------------
(* Synchronisation, the vault and the account's tokens share no state that  *)
(* their models keep, so a behaviour here is one of one of the three,       *)
(* chosen by the first step: the run explores each of them alone.           *)
EXTENDS CloudSync, VaultSetup, AccountSessions

CONSTANTS c1, c2, d1, d2

OneCallEach == [c \in {c1, c2} |-> IF c = c1 THEN d1 ELSE d2]

WholeInit == Init /\ VaultInit /\ AccountInit

WholeNext ==
  \/ /\ Next
     /\ VaultInit /\ AccountInit
     /\ UNCHANGED <<vaultVars, accountVars>>
  \/ /\ VaultNext
     /\ Init /\ AccountInit
     /\ UNCHANGED <<vars, accountVars>>
  \/ /\ AccountNext
     /\ Init /\ VaultInit
     /\ UNCHANGED <<vars, vaultVars>>

(* The only temporal property of the run is one of synchronisation, so the  *)
(* only fairness is its own.                                                *)
WholeSpec ==
  /\ WholeInit
  /\ [][WholeNext]_<<vars, vaultVars, accountVars>>
  /\ Fairness

(* Every state of the three is well typed.                                  *)
WholeTypeOK == TypeOK /\ VaultTypeOK /\ AccountTypeOK
=============================================================================
