--------------------------- MODULE ConnectionForm ---------------------------
(***************************************************************************)
(* The form of a connection (ssh-gui/frontend/src/components/connections/  *)
(* ConnectionModal.jsx with SSHFields, DesktopFields, ConnectionTest and   *)
(* connectionForm.js; hooks/useResponseAction.js) in its window of         *)
(* App.jsx.  It has one test per protocol, and the mark of a test that     *)
(* succeeded stays until a field is changed that the test read.  Values    *)
(* are left out but for those that decide what a test reads: whether SSH   *)
(* is on, how it authenticates, and what the desktops take over from it.   *)
(***************************************************************************)
VARIABLES form,    \* the state of the window, a Form
          fresh    \* history: the protocols with nothing changed, of all that
                   \* their test reads, since the test last started

formVars == <<form, fresh>>

Desktops == {"vnc", "rdp"}
Protocols == {"ssh", "novnc"} \cup Desktops
Auths == {"password", "private_key"}

(* The fields: those in front of the tabs and those of each tab.  "ssh" is  *)
(* the port and the jump host, "secret" the password or the key and its     *)
(* passphrase; a desktop's own fields, with its port, are one field.        *)
SharedFields == {"name", "host"}
SSHFields == {"ssh", "username", "secret"}
Fields == SharedFields \cup SSHFields \cup Desktops \cup {"novnc"}

Reuse == [user: BOOLEAN, pass: BOOLEAN]
NoReuse == [user |-> FALSE, pass |-> FALSE]

Form ==
  [open: BOOLEAN,
   enabled: SUBSET Protocols,
   auth: Auths,
   reuse: [Desktops -> Reuse],
   success: SUBSET Protocols,           \* the marks of tests that succeeded
   running: Protocols \cup {"save", "tunnels", "nothing"}]

(* connectionForm: what a stored or a new connection opens with.            *)
Opened(enabled, auth, reuse) ==
  [open |-> TRUE, enabled |-> enabled, auth |-> auth, success |-> {},
   running |-> "nothing",
   reuse |-> [d \in Desktops |->
     IF "ssh" \notin enabled THEN NoReuse
     ELSE IF auth # "password" THEN [reuse[d] EXCEPT !.pass = FALSE] ELSE reuse[d]]]

Closing(f) == [f EXCEPT !.open = FALSE, !.success = {}, !.running = "nothing"]

FormInit ==
  /\ form = Closing(Opened({"ssh"}, "password", [d \in Desktops |-> NoReuse]))
  /\ fresh = {}

(* The window opens for a connection, or for a new one, which has SSH.      *)
OpenForm ==
  /\ ~form.open
  /\ \E enabled \in SUBSET Protocols \ {{}}, auth \in Auths,
        reuse \in [Desktops -> Reuse] : form' = Opened(enabled, auth, reuse)
  /\ fresh' = {}

-----------------------------------------------------------------------------

(* What the test of a protocol reads of the form.                           *)
Reads(p, f) ==
  IF p = "ssh" THEN {"host"} \cup SSHFields
  ELSE IF p = "novnc" THEN {"novnc"}
  ELSE {"host", p} \cup (IF f.reuse[p].user THEN {"username"} ELSE {})
                   \cup (IF f.reuse[p].pass THEN {"secret"} ELSE {})

(* No operation runs: busy disables fields, buttons and the window's close. *)
Editable == form.open /\ form.running = "nothing"

(* Is a field enabled?  A desktop's user and password, when taken over, are *)
(* not; its others are.                                                     *)
FieldEnabled(field) ==
  /\ Editable
  /\ field \in SSHFields => "ssh" \in form.enabled
  /\ field \in Desktops \cup {"novnc"} => field \in form.enabled

(* Mutant of Invalidated: a desktop's own fields are all it is tested with. *)
Invalidated_Own(field) ==
  IF field \in Desktops \cup {"novnc"} THEN {field}
  ELSE IF field \in {"host"} \cup SSHFields THEN {"ssh"} ELSE {}

(* The marks that set and setDesktop take away for a field.                 *)
Invalidated(field) ==
  IF field \in Desktops \cup {"novnc"} THEN {field}
  ELSE IF field = "host" THEN {"ssh"} \cup Desktops
  ELSE {p \in {"ssh"} : field \in SSHFields}
       \cup {d \in Desktops : \/ field = "username" /\ form.reuse[d].user
                              \/ field = "secret" /\ form.reuse[d].pass}

EditField(field) ==
  /\ FieldEnabled(field)
  /\ form' = [form EXCEPT !.success = @ \ Invalidated(field)]
  /\ fresh' = {p \in fresh : field \notin Reads(p, form)}

(* The tests that read of f what they read of the form.                     *)
FreshAfter(f) ==
  {p \in fresh : /\ p = "ssh" => f.auth = form.auth
                 /\ p \in Desktops => f.reuse[p] = form.reuse[p]}

(* set("authType"): a private key takes "from SSH" off the passwords.       *)
SetAuth ==
  /\ Editable /\ "ssh" \in form.enabled
  /\ \E auth \in Auths \ {form.auth} :
       LET f == [Opened(form.enabled, auth, form.reuse) EXCEPT
                   !.success = form.success \cap {"novnc"}]
       IN  form' = f /\ fresh' = FreshAfter(f)

(* set("sshEnabled"): without SSH nothing is taken over from it.            *)
EnableSSH ==
  /\ Editable
  /\ LET on == IF "ssh" \in form.enabled THEN form.enabled \ {"ssh"}
                                         ELSE form.enabled \cup {"ssh"}
         f == [Opened(on, form.auth, form.reuse) EXCEPT
                 !.success = form.success \cap {"novnc"}]
     IN  form' = f /\ fresh' = FreshAfter(f)

(* setDesktop("enabled").                                                   *)
EnableDesktop(p) ==
  /\ Editable
  /\ form' = [form EXCEPT
       !.enabled = IF p \in @ THEN @ \ {p} ELSE @ \cup {p},
       !.success = @ \ {p}]
  /\ UNCHANGED fresh

(* The two boxes "from SSH" of a desktop.                                   *)
ReuseSSH(d, key) ==
  /\ Editable /\ d \in form.enabled /\ "ssh" \in form.enabled
  /\ key = "pass" => form.auth = "password"
  /\ form' = [form EXCEPT !.reuse[d][key] = ~@, !.success = @ \ {d}]
  /\ fresh' = fresh \ {d}

-----------------------------------------------------------------------------
(* Operations: run of useResponseAction is locked as long as one runs *)

(* test, which takes the mark away before it asks the backend.              *)
Test(p) ==
  /\ Editable /\ p \in form.enabled
  /\ form' = [form EXCEPT !.running = p, !.success = @ \ {p}]
  /\ fresh' = fresh \cup {p}

(* The answer, or an error, or values that validate refuses.                *)
TestEnds(p) ==
  /\ form.running = p
  /\ form' \in {[form EXCEPT !.running = "nothing", !.success = @ \cup {p}],
                [form EXCEPT !.running = "nothing"]}
  /\ UNCHANGED fresh

(* save, and the lock of the tunnels' tab while it changes a tunnel.        *)
Operate(operation) ==
  /\ Editable
  /\ form' = [form EXCEPT !.running = operation]
  /\ UNCHANGED fresh

(* An error, a connection without any access, or onSave, which closes the   *)
(* window.                                                                  *)
SaveEnds ==
  /\ form.running = "save"
  /\ \/ form' = Closing(form) /\ form.enabled # {}
     \/ form' = [form EXCEPT !.running = "nothing"]
  /\ UNCHANGED fresh

TunnelsEnd ==
  /\ form.running = "tunnels"
  /\ form' = [form EXCEPT !.running = "nothing"]
  /\ UNCHANGED fresh

(* Cancel, Escape or the background, which formBusy of App.jsx locks.       *)
CloseForm ==
  /\ Editable
  /\ form' = Closing(form)
  /\ UNCHANGED fresh

FormNext ==
  \/ OpenForm
  \/ \E field \in Fields : EditField(field)
  \/ SetAuth
  \/ EnableSSH
  \/ \E p \in Desktops \cup {"novnc"} : EnableDesktop(p)
  \/ \E d \in Desktops, key \in {"user", "pass"} : ReuseSSH(d, key)
  \/ \E p \in Protocols : Test(p) \/ TestEnds(p)
  \/ \E operation \in {"save", "tunnels"} : Operate(operation)
  \/ SaveEnds
  \/ TunnelsEnd
  \/ CloseForm

FormSpec == FormInit /\ [][FormNext]_formVars

-----------------------------------------------------------------------------

FormTypeOK == form \in Form /\ fresh \in SUBSET Protocols

(* docs/message-standard.md: "Una prueba de conexion debe evaluar los datos *)
(* visibles del formulario.  Cambiar esos datos invalida su resultado       *)
(* anterior."  The mark of a protocol says that what its test would read    *)
(* now is what it read then, through what the desktops take over from SSH,  *)
(* the ways that ends, and changes while a test runs.                       *)
TestedMarksAreCurrent == form.success \subseteq fresh
=============================================================================
