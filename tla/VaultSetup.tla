----------------------------- MODULE VaultSetup -----------------------------
(***************************************************************************)
(* Setting the vault up and unlocking it: SetupMasterPassword and          *)
(* UnlockVault of ssh-gui/app_account.go and the screen in front of the    *)
(* program (ssh-gui/frontend/src/components/account/VaultUnlock.jsx).  The *)
(* salt and the test that verifies a password are two rows of the settings *)
(* table, and the program may end between any two steps.  A key stands for *)
(* the salt and the password it is derived from.                           *)
(***************************************************************************)
EXTENDS Naturals

CONSTANTS Passwords,    \* what may be typed
          MaxSalts,     \* bound on the salts generated
          ReadsFail     \* may reading a setting fail? the code then takes
                        \* the vault for one that is not set up

ASSUME VaultAssumption == MaxSalts \in Nat /\ ReadsFail \in BOOLEAN

VARIABLES
  salt,      \* setting "master_key_salt": the number of a salt, 0 for none
  test,      \* setting "vault_test": the key it was made with, or NoKey
  key,       \* masterKey in memory, or NoKey
  screen,    \* the state of VaultUnlock
  setup,     \* the call of the screen on its way
  salts,     \* the salts generated so far
  used       \* history: the keys that were in memory, for secrets to be
             \* encrypted with

vaultVars == <<salt, test, key, screen, setup, salts, used>>

Key == [salt: 1..MaxSalts, password: Passwords]
NoKey == [salt |-> 0]
Screens == {"loading", "setup", "unlock", "gone"}

(* next is what the call does next, with the key it has derived.            *)
Setups == [next: {"save salt", "save test", "keep key", "verify"}, key: Key]
NoSetup == [next |-> "nothing"]

VaultInit ==
  /\ salt = 0
  /\ test = NoKey
  /\ key = NoKey
  /\ screen = "loading"
  /\ setup = NoSetup
  /\ salts = 0
  /\ used = {}

(* The program ends, at any time, and is started again.                     *)
Restart ==
  /\ key' = NoKey
  /\ screen' = "loading"
  /\ setup' = NoSetup
  /\ UNCHANGED <<salt, test, used, salts>>

-----------------------------------------------------------------------------

(* What IsVaultSetup may answer: a read that fails gives no salt.           *)
IsVaultSetup == {salt # 0} \cup (IF ReadsFail THEN {FALSE} ELSE {})

(* The effect of VaultUnlock; a call that fails means "setup".              *)
ChooseMode ==
  /\ screen = "loading"
  /\ \E known \in IsVaultSetup : screen' = IF known THEN "unlock" ELSE "setup"
  /\ UNCHANGED <<salt, test, key, setup, used, salts>>

(* handleSetup calls SetupMasterPassword, which looks again, derives a key  *)
(* from a new salt and makes the test.                                      *)
SetupMasterPassword(p) ==
  /\ screen = "setup" /\ setup = NoSetup
  /\ FALSE \in IsVaultSetup
  /\ salts < MaxSalts
  /\ salts' = salts + 1
  /\ setup' = [next |-> "save salt", key |-> [salt |-> salts + 1, password |-> p]]
  /\ UNCHANGED <<salt, test, key, screen, used>>

(* A setting cannot be written, or the vault is set up: the screen reports  *)
(* it and stays.                                                            *)
SetupFails ==
  /\ setup.next \in {"save salt", "save test"}
  /\ setup' = NoSetup
  /\ UNCHANGED <<salt, test, key, screen, used, salts>>

(* Mutant of SaveSalt: the key is kept before its test is saved.            *)
SaveSalt_KeepsKey ==
  /\ setup.next = "save salt"
  /\ salt' = setup.key.salt
  /\ key' = setup.key
  /\ used' = used \cup {setup.key}
  /\ setup' = [setup EXCEPT !.next = "save test"]
  /\ UNCHANGED <<test, screen, salts>>

SaveSalt ==
  /\ setup.next = "save salt"
  /\ salt' = setup.key.salt
  /\ setup' = [setup EXCEPT !.next = "save test"]
  /\ UNCHANGED <<test, key, screen, used, salts>>

SaveTest ==
  /\ setup.next = "save test"
  /\ test' = setup.key
  /\ setup' = [setup EXCEPT !.next = "keep key"]
  /\ UNCHANGED <<salt, key, screen, used, salts>>

(* setMasterKey, and onUnlocked of the screen.                              *)
KeepKey ==
  /\ setup.next = "keep key"
  /\ key' = setup.key
  /\ used' = used \cup {setup.key}
  /\ screen' = "gone"
  /\ setup' = NoSetup
  /\ UNCHANGED <<salt, test, salts>>

(* handleUnlock calls UnlockVault, which derives the key from the salt.     *)
UnlockVault(p) ==
  /\ screen = "unlock" /\ setup = NoSetup /\ salt # 0
  /\ setup' = [next |-> "verify", key |-> [salt |-> salt, password |-> p]]
  /\ UNCHANGED <<salt, test, key, screen, used, salts>>

(* VerifyVaultTest; a wrong password and a missing test are both reported   *)
(* as a wrong password.                                                     *)
Verify ==
  /\ setup.next = "verify"
  /\ IF test = setup.key
     THEN setup' = [setup EXCEPT !.next = "keep key"]
     ELSE setup' = NoSetup
  /\ UNCHANGED <<salt, test, key, screen, used, salts>>

VaultNext ==
  \/ Restart
  \/ ChooseMode
  \/ \E p \in Passwords : SetupMasterPassword(p) \/ UnlockVault(p)
  \/ SetupFails
  \/ SaveSalt
  \/ SaveTest
  \/ KeepKey
  \/ Verify

VaultSpec == VaultInit /\ [][VaultNext]_vaultVars

-----------------------------------------------------------------------------

VaultTypeOK ==
  /\ salt \in 0..MaxSalts
  /\ test \in Key \cup {NoKey}
  /\ key \in Key \cup {NoKey}
  /\ screen \in Screens
  /\ salts \in 0..MaxSalts
  /\ setup \in Setups \cup {NoSetup}
  /\ used \in SUBSET Key

(* A key that secrets may have been encrypted with can be had again by its  *)
(* password, wherever the program ended: both settings are its own.         *)
UsedKeysAreRecoverable ==
  \A k \in used : salt = k.salt /\ test = k
=============================================================================
