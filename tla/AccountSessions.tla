--------------------------- MODULE AccountSessions ---------------------------
(***************************************************************************)
(* Being logged in to the account server: login, logout and the refresh of *)
(* the access token (ssh-gui/app.go, ssh-gui/app_account.go and            *)
(* backend/account/manager.go).  A token stands for the user it was issued *)
(* to; that it expires after 15 minutes is why it is refreshed.  The       *)
(* manager's state is read and written under a lock, but not held between  *)
(* a question to the server and its answer, and every call runs in a       *)
(* goroutine of its own.                                                   *)
(***************************************************************************)
EXTENDS Naturals, FiniteSets

CONSTANTS Users,
          MaxAccountCalls    \* bound on the calls in progress

ASSUME AccountAssumption == MaxAccountCalls \in Nat /\ "nobody" \notin Users

VARIABLES
  state,          \* state of the account manager, an Account
  row,            \* the account row of the database, an Account
  refreshLoop,    \* does the goroutine of startTokenRefreshLoop run?
  accountCalls    \* calls in progress, a set of AccountCall

accountVars == <<state, row, refreshLoop, accountCalls>>

Nobody == "nobody"
SomeUser == Users \cup {Nobody}

(* access is the user the access token was issued to; IsLoggedIn looks only *)
(* at whether there is one.                                                 *)
Account == [user: SomeUser, refresh: SomeUser, access: SomeUser]
LoggedOut == [user |-> Nobody, refresh |-> Nobody, access |-> Nobody]

(* A login or a refresh asks the server with the tokens of user, and then   *)
(* saves the account it has; a logout clears the row.                       *)
AccountCall ==
  [op: {"login", "refresh", "logout"}, user: SomeUser, at: {"ask", "save"},
   account: Account]

AccountInit ==
  /\ state = LoggedOut
  /\ row = LoggedOut
  /\ refreshLoop = TRUE
  /\ accountCalls = {}

(* NewApp restores the account, and ServiceStartup starts the loop.         *)
RestartApp ==
  /\ state' = row
  /\ refreshLoop' = TRUE
  /\ accountCalls' = {}
  /\ UNCHANGED row

-----------------------------------------------------------------------------

IsLoggedIn == state.access # Nobody

StartCall(op, user, at) ==
  /\ Cardinality(accountCalls) < MaxAccountCalls
  /\ accountCalls' = accountCalls \cup
       {[op |-> op, user |-> user, at |-> at, account |-> LoggedOut]}

TurnInto(c, calls) == accountCalls' = (accountCalls \ {c}) \cup calls

(* AccountLogin and AccountLoginWithPin, from the form of one who is not    *)
(* logged in.                                                               *)
AccountLogin(u) ==
  /\ ~IsLoggedIn
  /\ StartCall("login", u, "ask")
  /\ UNCHANGED <<state, row, refreshLoop>>

(* The server lets the user in, or not.                                     *)
LoginAnswered(c) ==
  /\ c.op = "login" /\ c.at = "ask"
  /\ \/ /\ state' = [user |-> c.user, refresh |-> c.user, access |-> c.user]
        /\ TurnInto(c, {[c EXCEPT !.at = "save", !.account = state']})
     \/ TurnInto(c, {}) /\ UNCHANGED state
  /\ UNCHANGED <<row, refreshLoop>>

(* RefreshAccessToken with the tokens of now: of the loop, of a call that   *)
(* needs a fresh token (ensureAccessTokenFresh) or after a login.           *)
Refresh == [op |-> "refresh", user |-> state.refresh, at |-> "ask",
            account |-> LoggedOut]

(* saveAccountState; a login starts a refresh.  A row that cannot be saved  *)
(* ends the call.                                                           *)
SaveAccountState(c) ==
  /\ c.op # "logout" /\ c.at = "save"
  /\ row' \in {row, c.account}
  /\ TurnInto(c, IF c.op = "login" /\ row' = c.account /\ IsLoggedIn
                 THEN {Refresh} ELSE {})
  /\ UNCHANGED <<state, refreshLoop>>

DoTokenRefresh ==
  /\ IsLoggedIn /\ state.refresh # Nobody
  /\ Refresh \notin accountCalls
  /\ StartCall("refresh", state.refresh, "ask")
  /\ UNCHANGED <<state, row, refreshLoop>>

LoopTicks == refreshLoop /\ DoTokenRefresh

(* The new token is put into the state there is by now.                     *)
RefreshAnswered(c) ==
  /\ c.op = "refresh" /\ c.at = "ask"
  /\ \/ /\ state' = [state EXCEPT !.access = c.user]
        /\ TurnInto(c, {[c EXCEPT !.at = "save", !.account = state']})
     \/ TurnInto(c, {}) /\ UNCHANGED state
  /\ UNCHANGED <<row, refreshLoop>>

(* AccountLogout ends the loop and clears the state, then the row.          *)
AccountLogout ==
  /\ IsLoggedIn
  /\ StartCall("logout", Nobody, "save")
  /\ state' = LoggedOut
  /\ refreshLoop' = FALSE
  /\ UNCHANGED row

ClearAccount(c) ==
  /\ c.op = "logout"
  /\ row' \in {row, LoggedOut}
  /\ TurnInto(c, {})
  /\ UNCHANGED <<state, refreshLoop>>

AccountNext ==
  \/ RestartApp
  \/ \E u \in Users : AccountLogin(u)
  \/ \E c \in accountCalls :
       \/ LoginAnswered(c)
       \/ SaveAccountState(c)
       \/ RefreshAnswered(c)
       \/ ClearAccount(c)
  \/ LoopTicks
  \/ DoTokenRefresh
  \/ AccountLogout

(* The ticker of the loop fires, and calls in progress end.                 *)
AccountFairness ==
  /\ WF_accountVars(LoopTicks)
  /\ WF_accountVars(\E c \in accountCalls :
       LoginAnswered(c) \/ SaveAccountState(c) \/ RefreshAnswered(c) \/ ClearAccount(c))

AccountSpec == AccountInit /\ [][AccountNext]_accountVars
FairAccountSpec == AccountSpec /\ AccountFairness

-----------------------------------------------------------------------------

AccountTypeOK ==
  /\ state \in Account
  /\ row \in Account
  /\ refreshLoop \in BOOLEAN
  /\ accountCalls \in SUBSET AccountCall

(* app_account.go:154 says of a login: "Immediately refresh to confirm tier *)
(* from server and start the loop", and app.go:132-134 of the loop that it  *)
(* "refreshes the access token (and tier) on startup and every few minutes  *)
(* while the app is running".  Who stays logged in gets a new token again   *)
(* and again.                                                               *)
TokensKeepBeingRefreshed ==
  []<>(~IsLoggedIn \/ \E c \in accountCalls : c.op = "refresh")
=============================================================================
