------------------------------ MODULE CloudSync ------------------------------
(***************************************************************************)
(* Account synchronisation in Pro mode: SyncNow and the merge it runs      *)
(* (ssh-gui/app_account.go 204-319, 485-792), over the blob the account    *)
(* server keeps (external, seen through backend/account/client.go).        *)
(*                                                                         *)
(* Connections and folders are merged by the same rule and are both items  *)
(* here; a value stands for the hash of an item, which covers its secrets  *)
(* through SyncSecretsHash.  SyncNow takes no lock: every change of a      *)
(* connection starts one in the background, and a timer of the user        *)
(* interface another every minute, so calls of one device overlap each     *)
(* other as well as those of other devices.                                *)
(***************************************************************************)
EXTENDS Naturals, Sequences

CONSTANTS Devices, Items, Values, None,
          Calls,        \* SyncNow calls ...
          DeviceOf,     \* ... and the device each runs on
          Overlap,      \* may two calls be in progress at the same time?
          MaxEdits,     \* bound on the user's changes
          MaxVersion,   \* bound on the uploads
          AbortAt,      \* steps at which a call may fail or be killed
          MaxAborts     \* bound on the calls that fail or are killed

ASSUME SyncAssumption ==
  /\ None \notin Values
  /\ DeviceOf \in [Calls -> Devices]
  /\ Overlap \in BOOLEAN
  /\ MaxEdits \in Nat /\ MaxVersion \in Nat /\ MaxAborts \in Nat

Content == [Items -> Values \cup {None}]
Nothing == [i \in Items |-> None]

VARIABLES
  blob,        \* the content of the blob on the server
  version,     \* its version, 0 while there is none
  db,          \* device -> its connections and folders
  snapshot,    \* device -> setting connections_sync_snapshot
  savedMeta,   \* device -> setting connections_remote_meta
  savedHash,   \* device -> setting connections_local_set_hash
  step,        \* call -> how far it has come
  read,        \* call -> what GetConnections and GetFolders returned
  seen,        \* call -> the meta it will save
  upload,      \* call -> shouldUpload
  merged,      \* call -> the set it will upload and save
  todo,        \* call -> items the merge has still to write
  saves,       \* call -> settings it has still to save
  born,        \* items ever created
  deleted,     \* items ever deleted by a user
  edits, aborts

serverVars == <<blob, version>>
settings == <<snapshot, savedMeta, savedHash>>
locals == <<read, seen, upload, merged, todo, saves>>
history == <<born, deleted, edits>>
vars == <<serverVars, db, settings, step, locals, history, aborts>>

Init ==
  /\ blob = Nothing
  /\ version = 0
  /\ db = [d \in Devices |-> Nothing]
  /\ snapshot = [d \in Devices |-> Nothing]
  /\ savedMeta = [d \in Devices |-> None]
  /\ savedHash = [d \in Devices |-> None]
  /\ step = [c \in Calls |-> "idle"]
  /\ read = [c \in Calls |-> Nothing]
  /\ seen = [c \in Calls |-> 0]
  /\ upload = [c \in Calls |-> TRUE]
  /\ merged = [c \in Calls |-> Nothing]
  /\ todo = [c \in Calls |-> {}]
  /\ saves = [c \in Calls |-> <<>>]
  /\ born = {}
  /\ deleted = {}
  /\ edits = 0
  /\ aborts = 0

-----------------------------------------------------------------------------
(* The merge of one item: l is local, r remote, b the value both had when   *)
(* this device last synchronised (None: it was not in that snapshot).       *)

(* Mutant of Choose: the remote change of an item is never taken.           *)
Choose_LocalWins(l, r, b) == l

Choose(l, r, b) ==
  IF l = r THEN l
  ELSE IF b # None /\ l = b /\ r # b THEN r
  ELSE l

(* Mutant of MergeItem: what the blob lacks was deleted.                    *)
MergeItem_ForgetsNew(l, r, b) ==
  IF r = None THEN None
  ELSE IF l = None THEN (IF b # None THEN None ELSE r)
  ELSE Choose(l, r, b)

(* Gone from the blob: deleted elsewhere, unless it changed here since.     *)
(* Gone from here: deleted here, unless it is new in the blob.              *)
MergeItem(l, r, b) ==
  IF r = None THEN (IF b # None /\ l = b THEN None ELSE l)
  ELSE IF l = None THEN (IF b # None THEN None ELSE r)
  ELSE Choose(l, r, b)

MergeSet(l, r, b) == [i \in Items |-> MergeItem(l[i], r[i], b[i])]

(* The items the merge upserts or deletes in the local database.            *)
Written(l, r, b) ==
  {i \in Items : /\ MergeItem(l[i], r[i], b[i]) = r[i]
                 /\ l[i] # None \/ r[i] # None}

-----------------------------------------------------------------------------
(* SyncNow *)

Go(c, from, to) == step[c] = from /\ step' = [step EXCEPT ![c] = to]

StartSync(c) ==
  /\ Overlap \/ \A o \in Calls : step[o] = "idle"
  /\ Go(c, "idle", "asking")
  /\ read' = [read EXCEPT ![c] = db[DeviceOf[c]]]
  /\ UNCHANGED <<serverVars, db, settings, seen, upload, merged, todo, saves,
                 history, aborts>>

(* Mutant of AskMeta: the meta to save is the one saved before.             *)
AskMeta_KeepsMeta(c) ==
  /\ Go(c, "asking", "fetching")
  /\ seen' = [seen EXCEPT ![c] = savedMeta[DeviceOf[c]]]
  /\ UNCHANGED <<serverVars, db, settings, read, upload, merged, todo, saves,
                 history, aborts>>

(* GetConnectionsMeta, and what follows from it and the saved settings.  A  *)
(* missing blob has the zero meta.                                          *)
AskMeta(c) ==
  /\ LET d == DeviceOf[c]
         remoteChanged == version # savedMeta[d]
         localChanged == read[c] # savedHash[d]
     IN  /\ Go(c, "asking", IF remoteChanged THEN "fetching"
                            ELSE IF localChanged THEN "uploading" ELSE "idle")
         /\ upload' = [upload EXCEPT ![c] = localChanged]
  /\ seen' = [seen EXCEPT ![c] = version]
  /\ merged' = [merged EXCEPT ![c] = read[c]]
  /\ UNCHANGED <<serverVars, db, settings, read, todo, saves, history, aborts>>

(* FetchConnections: the blob as it is by now, or none; then the snapshot   *)
(* is loaded and the merge decided.                                         *)
Fetch(c) ==
  /\ Go(c, "fetching", "merging")
  /\ LET b == snapshot[DeviceOf[c]] IN
       IF version = 0
       THEN UNCHANGED <<merged, todo>>
       ELSE /\ merged' = [merged EXCEPT ![c] = MergeSet(read[c], blob, b)]
            /\ todo' = [todo EXCEPT ![c] = Written(read[c], blob, b)]
  /\ UNCHANGED <<serverVars, db, settings, read, seen, upload, saves, history,
                 aborts>>

(* One UpsertConnection, UpsertFolder, DeleteConnection or DeleteFolder.    *)
MergeWrites(c, i) ==
  /\ step[c] = "merging"
  /\ i \in todo[c]
  /\ todo' = [todo EXCEPT ![c] = @ \ {i}]
  /\ db' = [db EXCEPT ![DeviceOf[c]][i] = merged[c][i]]
  /\ UNCHANGED <<serverVars, settings, step, read, seen, upload, merged, saves,
                 history, aborts>>

(* Mutant of MergeEnds: what was merged is never uploaded.                  *)
MergeEnds_NeverUploads(c) ==
  /\ todo[c] = {}
  /\ Go(c, "merging", "saving")
  /\ saves' = [saves EXCEPT ![c] = <<"snapshot", "hash", "meta">>]
  /\ UNCHANGED <<serverVars, db, settings, read, seen, upload, merged, todo,
                 history, aborts>>

MergeEnds(c) ==
  /\ todo[c] = {}
  /\ Go(c, "merging", IF upload[c] THEN "uploading" ELSE "saving")
  /\ saves' = [saves EXCEPT ![c] = IF upload[c] THEN <<>>
                                   ELSE <<"snapshot", "hash", "meta">>]
  /\ UNCHANGED <<serverVars, db, settings, read, seen, upload, merged, todo,
                 history, aborts>>

(* upsertBlob: the server replaces the blob and counts the version.         *)
Upload(c) ==
  /\ version < MaxVersion
  /\ Go(c, "uploading", "confirming")
  /\ blob' = merged[c]
  /\ version' = version + 1
  /\ UNCHANGED <<db, settings, locals, history, aborts>>

(* The getBlobMeta at the end of SyncConnections: a request of its own.     *)
Confirm(c) ==
  /\ Go(c, "confirming", "saving")
  /\ seen' = [seen EXCEPT ![c] = version]
  /\ saves' = [saves EXCEPT ![c] = <<"meta", "hash", "snapshot">>]
  /\ UNCHANGED <<serverVars, db, settings, read, upload, merged, todo, history,
                 aborts>>

(* One SetSetting.                                                          *)
Save(c) ==
  /\ saves[c] # <<>>
  /\ Go(c, "saving", IF Len(saves[c]) = 1 THEN "idle" ELSE "saving")
  /\ saves' = [saves EXCEPT ![c] = Tail(@)]
  /\ LET d == DeviceOf[c] IN
       \/ /\ Head(saves[c]) = "snapshot"
          /\ snapshot' = [snapshot EXCEPT ![d] = merged[c]]
          /\ UNCHANGED <<savedMeta, savedHash>>
       \/ /\ Head(saves[c]) = "hash"
          /\ savedHash' = [savedHash EXCEPT ![d] = merged[c]]
          /\ UNCHANGED <<snapshot, savedMeta>>
       \/ /\ Head(saves[c]) = "meta"
          /\ savedMeta' = [savedMeta EXCEPT ![d] = seen[c]]
          /\ UNCHANGED <<snapshot, savedHash>>
  /\ UNCHANGED <<serverVars, db, read, seen, upload, merged, todo, history, aborts>>

(* A request or a statement fails and SyncNow returns its error, or the     *)
(* program ends.                                                            *)
Abort(c) ==
  /\ aborts < MaxAborts
  /\ step[c] \in AbortAt \ {"idle"}
  /\ aborts' = aborts + 1
  /\ step' = [step EXCEPT ![c] = "idle"]
  /\ saves' = [saves EXCEPT ![c] = <<>>]
  /\ todo' = [todo EXCEPT ![c] = {}]
  /\ UNCHANGED <<serverVars, db, settings, read, seen, upload, merged, history>>

-----------------------------------------------------------------------------
(* Create-, Update- and Delete- Connection and Folder; ids are fresh UUIDs. *)

UserWrites(d, i, v) ==
  /\ edits < MaxEdits
  /\ db[d][i] # v
  /\ IF db[d][i] = None THEN i \notin born ELSE TRUE
  /\ edits' = edits + 1
  /\ db' = [db EXCEPT ![d][i] = v]
  /\ born' = born \cup {i}
  /\ deleted' = IF v = None THEN deleted \cup {i} ELSE deleted
  /\ UNCHANGED <<serverVars, settings, step, locals, aborts>>

SyncStep(c) ==
  \/ AskMeta(c)
  \/ Fetch(c)
  \/ \E i \in Items : MergeWrites(c, i)
  \/ MergeEnds(c)
  \/ Upload(c)
  \/ Confirm(c)
  \/ Save(c)

Next ==
  \/ \E c \in Calls : StartSync(c) \/ SyncStep(c) \/ Abort(c)
  \/ \E d \in Devices, i \in Items, v \in Values \cup {None} : UserWrites(d, i, v)

Spec == Init /\ [][Next]_vars

(* A call goes on to its end, and the minute timer of every device fires    *)
(* again and again; when calls may not overlap, also at a moment when no    *)
(* other call is in progress.                                               *)
Fairness == \A c \in Calls : WF_vars(SyncStep(c)) /\ SF_vars(StartSync(c))

FairSpec == Spec /\ Fairness

-----------------------------------------------------------------------------

TypeOK ==
  /\ blob \in Content
  /\ version \in 0..MaxVersion
  /\ db \in [Devices -> Content]
  /\ snapshot \in [Devices -> Content]
  /\ savedMeta \in [Devices -> 0..MaxVersion \cup {None}]
  /\ savedHash \in [Devices -> Content \cup {None}]
  /\ step \in [Calls -> {"idle", "asking", "fetching", "merging", "uploading",
                         "confirming", "saving"}]
  /\ read \in [Calls -> Content]
  /\ seen \in [Calls -> 0..MaxVersion]
  /\ upload \in [Calls -> BOOLEAN]
  /\ merged \in [Calls -> Content]
  /\ todo \in [Calls -> SUBSET Items]
  /\ saves \in [Calls -> Seq({"snapshot", "hash", "meta"})]
  /\ born \in SUBSET Items
  /\ deleted \in SUBSET Items
  /\ edits \in 0..MaxEdits
  /\ aborts \in 0..MaxAborts

Settled(d) ==
  /\ \A c \in Calls : step[c] = "idle"
  /\ savedMeta[d] = version
  /\ savedHash[d] = db[d]

(* SyncNow's shortcut is sound: when the saved meta and the saved hash say  *)
(* that nothing changed on either side, the device holds the content of the *)
(* blob, so doing nothing is right.                                         *)
SettledDevicesHoldTheBlob == \A d \in Devices : Settled(d) => db[d] = blob

(* Synchronising never destroys an item by itself: it disappears from a     *)
(* device only after some user deleted it on some device.                   *)
OnlyUsersDelete ==
  [][\A d \in Devices, i \in Items :
       db[d][i] # None /\ db'[d][i] = None => i \in deleted']_vars

(* README.md:160: "Poll periodically in Pro mode so devices converge        *)
(* without manual refresh."                                                 *)
DevicesConverge == <>[](\A d \in Devices : db[d] = blob)
=============================================================================
