---------------------------- MODULE FileTransfers ----------------------------
(***************************************************************************)
(* Uploads and downloads over SFTP (ssh-gui/app_sftp_transfer.go and       *)
(* app_sftp_upload.go, ssh-gui/backend/sftp/upload.go and download.go) and *)
(* their rows in the panel (TransferList.jsx).                             *)
(* A file is written to a part of its own beside its destination, and the  *)
(* part takes the destination's name in one step.  A transfer may be       *)
(* cancelled at any time, its source may change, the connection may be     *)
(* lost, and two transfers may have one destination.  All transfers are of *)
(* one session; its connection, once lost, does not come back.             *)
(***************************************************************************)
EXTENDS Integers

CONSTANTS
  Transfers,   \* calls of runFileTransfer
  FileNames,   \* names of destinations, on either side
  Nobody,      \* no transfer
  MaxChunks    \* chunks of the longest source

ASSUME TransfersAssumption == Nobody \notin Transfers /\ MaxChunks \in Nat

VARIABLES
  plan,     \* what each transfer copies where, a Plan; does not change
  work,     \* how far each transfer is, a Work
  stored,   \* what each place holds, a Content
  server,   \* the connection and what its server supports, a Server
  emitted,  \* statuses of each transfer that are emitted and not delivered
  shown     \* the row of each transfer in the panel, a TransferRow

transferVars == <<plan, work, stored, server, emitted, shown>>

Place == {"upload", "download"} \X FileNames

(* before is the entry of the same folder that is uploaded first.           *)
Plan == [to: Place, before: Transfers \cup {Nobody}]

(* source is the size of the file that is copied and opened the one it had  *)
(* when it was opened; part says whether there is a part, and placed, which *)
(* is a history variable, whether it ever took the destination's name.      *)
Running == {"begun", "copying", "copied", "renaming"}
Size == 0..MaxChunks
Work ==
  [phase: {"waiting", "ended"} \cup Running, source: Size, opened: Size, copied: Size,
   canceled: BOOLEAN, part: BOOLEAN, placed: BOOLEAN,
   err: {"none", "canceled", "failed"}]

(* Whose content a place holds and how much of it.                          *)
Content == [by: Transfers \cup {Nobody}, chunks: Nat]
NoFile == [by |-> Nobody, chunks |-> 0]
OlderFile == [by |-> Nobody, chunks |-> 1]

(* posix is the extension posix-rename@openssh.com.                         *)
Server == [online: BOOLEAN, posix: BOOLEAN]

Outcomes == {"done", "error", "cancelled"}
Statuses == {"active"} \cup Outcomes
TransferRow == [status: {"none"} \cup Statuses, cancelling: BOOLEAN]

IsUpload(t) == plan[t].to[1] = "upload"

TransfersInit ==
  /\ plan \in [Transfers -> Plan]
  /\ \A t \in Transfers :
       LET b == plan[t].before
       IN  b # Nobody => /\ plan[b].before = Nobody
                         /\ IsUpload(t) /\ IsUpload(b)
                         /\ plan[t].to # plan[b].to
  /\ \E size \in [Transfers -> Size] :
       work = [t \in Transfers |->
                 [phase |-> "waiting", source |-> size[t], opened |-> 0, copied |-> 0,
                  canceled |-> FALSE, part |-> FALSE, placed |-> FALSE, err |-> "none"]]
  /\ stored \in [Place -> {NoFile, OlderFile}]
  /\ server \in [online: {TRUE}, posix: BOOLEAN]
  /\ emitted = [t \in Transfers |-> {}]
  /\ shown = [t \in Transfers |-> [status |-> "none", cancelling |-> FALSE]]

-----------------------------------------------------------------------------
(* The backend *)

In(t, phase) == work[t].phase = phase

Emits(t, status) == emitted' = [emitted EXCEPT ![t] = @ \cup {status}]

(* Mutant of StatusOf: what the context says, whatever the transfer did.    *)
StatusOf_Context(t, err) ==
  IF work[t].canceled THEN "cancelled" ELSE IF err = "none" THEN "done" ELSE "error"

(* err says how the transfer ended; a cancellation may have come since.     *)
StatusOf(t, err) ==
  IF err = "canceled" THEN "cancelled" ELSE IF err = "none" THEN "done" ELSE "error"

(* The transfer returns, and runFileTransfer emits its outcome.             *)
Returns(t, err, part, placed) ==
  /\ work' = [work EXCEPT ![t].phase = "ended", ![t].err = err,
                          ![t].part = part, ![t].placed = placed]
  /\ Emits(t, StatusOf(t, err))
  /\ UNCHANGED <<plan, shown>>

(* The part is removed on the way out.  That may fail, and over a lost      *)
(* connection it does: the part stays, and the error is joined to err,      *)
(* which is still what the outcome goes by.                                 *)
Fails(t, err) ==
  /\ \E left \in BOOLEAN :
       /\ left => work[t].part
       /\ work[t].part /\ IsUpload(t) /\ ~server.online => left
       /\ Returns(t, err, left, FALSE)
  /\ UNCHANGED <<stored, server>>

(* The entries of a folder are uploaded one after the other, up to the      *)
(* first that fails.                                                        *)
Begin(t) ==
  /\ In(t, "waiting")
  /\ plan[t].before # Nobody =>
       In(plan[t].before, "ended") /\ work[plan[t].before].err = "none"
  /\ work' = [work EXCEPT ![t].phase = "begun"]
  /\ Emits(t, "active")
  /\ UNCHANGED <<plan, stored, server, shown>>

Open(t) ==
  /\ In(t, "begun")
  /\ ~work[t].canceled /\ server.online
  /\ work' = [work EXCEPT ![t].phase = "copying", ![t].opened = work[t].source, ![t].part = TRUE]
  /\ Emits(t, "active")
  /\ UNCHANGED <<plan, stored, server, shown>>

OpenFails(t) ==
  /\ In(t, "begun")
  /\ Fails(t, IF work[t].canceled THEN "canceled" ELSE "failed")

(* The server creates the part, and its answer is lost with the connection. *)
OpenLost(t) ==
  /\ In(t, "begun") /\ IsUpload(t)
  /\ ~work[t].canceled /\ server.online
  /\ server' = [server EXCEPT !.online = FALSE]
  /\ Returns(t, "failed", TRUE, FALSE)
  /\ UNCHANGED stored

(* A chunk is counted; every 200 ms the count is emitted.                   *)
Copy(t) ==
  /\ In(t, "copying")
  /\ ~work[t].canceled /\ server.online
  /\ work[t].copied < work[t].source
  /\ work' = [work EXCEPT ![t].copied = @ + 1]
  /\ Emits(t, "active") \/ UNCHANGED emitted
  /\ UNCHANGED <<plan, stored, server, shown>>

(* The context is asked when a chunk is read or written: an upload asks     *)
(* before it sees the end of its source and a download does not.            *)
CopyStops(t) ==
  /\ In(t, "copying")
  /\ work[t].canceled
  /\ IsUpload(t) \/ work[t].copied < work[t].source
  /\ Fails(t, "canceled")

(* A chunk is not read or not written, on either side.                      *)
CopyFails(t) == In(t, "copying") /\ Fails(t, "failed")

AtEnd(t) ==
  /\ In(t, "copying")
  /\ work[t].copied >= work[t].source
  /\ work[t].canceled => ~IsUpload(t)
  /\ server.online

Copied(t) ==
  /\ work' = [work EXCEPT ![t].phase = "copied"]
  /\ UNCHANGED <<plan, stored, server, emitted, shown>>

(* Mutant of CopyEnds: whatever was copied is taken for the file.           *)
CopyEnds_AnySize(t) == AtEnd(t) /\ Copied(t)

(* Both files are closed, and the size is the one the source was opened at. *)
CopyEnds(t) ==
  /\ AtEnd(t)
  /\ \/ work[t].copied = work[t].opened /\ Copied(t)
     \/ work[t].copied # work[t].opened /\ Fails(t, "failed")

CheckBeforeRename(t) ==
  /\ In(t, "copied")
  /\ \/ work[t].canceled /\ Fails(t, "canceled")
     \/ /\ ~work[t].canceled
        /\ work' = [work EXCEPT ![t].phase = "renaming"]
        /\ UNCHANGED <<plan, stored, server, emitted, shown>>

(* The file system replaces a destination; a server does with posix only.   *)
Replaces(t) ==
  /\ In(t, "renaming")
  /\ IsUpload(t) => server.online /\ (server.posix \/ stored[plan[t].to] = NoFile)
  /\ stored' = [stored EXCEPT ![plan[t].to] = [by |-> t, chunks |-> work[t].copied]]

Rename(t) ==
  /\ Replaces(t)
  /\ Returns(t, "none", FALSE, TRUE)
  /\ UNCHANGED server

RenameFails(t) == In(t, "renaming") /\ Fails(t, "failed")

(* The server renames, and its answer is lost with the connection.          *)
RenameLost(t) ==
  /\ IsUpload(t)
  /\ Replaces(t)
  /\ server' = [server EXCEPT !.online = FALSE]
  /\ Returns(t, "failed", FALSE, TRUE)

-----------------------------------------------------------------------------
(* The panel and the world *)

(* A row offers it while it is active; a transfer that has returned is not  *)
(* found any more, and the row stays as it is.                              *)
CancelTransfer(t) ==
  /\ shown[t] = [status |-> "active", cancelling |-> FALSE]
  /\ shown' = [shown EXCEPT ![t].cancelling = TRUE]
  /\ work' = [work EXCEPT ![t].canceled = @ \/ work[t].phase \in Running]
  /\ UNCHANGED <<plan, stored, server, emitted>>

(* transfer-status events are delivered in any order.                       *)
StatusArrives(t) ==
  \E status \in emitted[t] :
    /\ shown' = [shown EXCEPT ![t].status = status]
    /\ emitted' = [emitted EXCEPT ![t] = @ \ {status}]
    /\ UNCHANGED <<plan, work, stored, server>>

(* Before and after the copy the size its source has is of no consequence.  *)
SourceChanges(t) ==
  /\ In(t, "copying")
  /\ \E size \in Size : work' = [work EXCEPT ![t].source = size]
  /\ UNCHANGED <<plan, stored, server, emitted, shown>>

ConnectionLost ==
  /\ server.online
  /\ server' = [server EXCEPT !.online = FALSE]
  /\ UNCHANGED <<plan, work, stored, emitted, shown>>

TransfersNext ==
  \/ ConnectionLost
  \/ \E t \in Transfers :
       \/ Begin(t) \/ Open(t) \/ OpenFails(t) \/ OpenLost(t)
       \/ Copy(t) \/ CopyStops(t) \/ CopyFails(t) \/ CopyEnds(t)
       \/ CheckBeforeRename(t) \/ Rename(t) \/ RenameFails(t) \/ RenameLost(t)
       \/ CancelTransfer(t) \/ StatusArrives(t) \/ SourceChanges(t)

TransfersSpec == TransfersInit /\ [][TransfersNext]_transferVars

-----------------------------------------------------------------------------

TransfersTypeOK ==
  /\ plan \in [Transfers -> Plan]
  /\ work \in [Transfers -> Work]
  /\ stored \in [Place -> Content]
  /\ server \in Server
  /\ emitted \in [Transfers -> SUBSET Statuses]
  /\ shown \in [Transfers -> TransferRow]

(* Whatever fails, is cancelled or is lost, and whoever else writes there:  *)
(* a destination keeps what it holds until it holds all of what a source    *)
(* had when it was opened, and it never disappears ("Never delete the       *)
(* destination to work around unsupported atomic replacement").             *)
DestinationsStayWhole ==
  [][\A p \in Place :
       stored'[p] # stored[p] =>
         \E t \in Transfers : stored'[p] = [by |-> t, chunks |-> work[t].opened]]_transferVars

(* What a row says of its transfer holds on the host: what is "done" was    *)
(* put in its place and has left no part, what is "cancelled" was not put   *)
(* there, and neither was what is an "error", as long as the connection     *)
(* lasts.  A part may stay beside the destination of a cancelled or failed  *)
(* transfer, when its removal fails too.                                    *)
RowsTellTheTruth ==
  \A t \in Transfers :
    LET status == shown[t].status
    IN  /\ status = "done" => work[t].placed /\ ~work[t].part
        /\ status = "cancelled" => ~work[t].placed
        /\ status = "error" /\ server.online => ~work[t].placed
=============================================================================
