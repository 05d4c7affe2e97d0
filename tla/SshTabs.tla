------------------------------- MODULE SshTabs -------------------------------
(***************************************************************************)
(* The sessions the parts of the screen are about.  App.jsx renders one    *)
(* file tree, one panel and one monitor, and gives them the active tab's   *)
(* session; the modules that extend this one model those parts.            *)
(***************************************************************************)
CONSTANTS Hosts,   \* the SSH sessions, each of one host
          None     \* no session, no item, nothing shown

ASSUME TabsAssumption == None \notin Hosts
=============================================================================
