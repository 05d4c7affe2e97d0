---------------------------- MODULE AccountProofs ----------------------------
(***************************************************************************)
(* What the merge of account synchronisation computes; that a device whose *)
(* saved settings say "nothing changed" holds the blob, and that only a    *)
(* user's deletion takes an item away, when calls do not overlap and a     *)
(* call that has begun to save its settings saves them all; that the keys  *)
(* of the vault are recoverable when settings can be read.  For every set  *)
(* of devices, items, values, calls and passwords.                         *)
(***************************************************************************)
EXTENDS MCAccount, SequenceTheorems, TLAPS

(* The merge of one item, which app_account.go:531-690 spreads over seven   *)
(* cases, is the three-way merge in which the local side wins a conflict:   *)
(* the remote value is taken exactly when this device has not touched the   *)
(* item since its last synchronisation.                                     *)
THEOREM MergeIsThreeWay ==
  ASSUME NEW l \in Values \cup {None}, NEW r \in Values \cup {None},
         NEW b \in Values \cup {None}
  PROVE  MergeItem(l, r, b) = IF l = b THEN r ELSE l
BY DEF MergeItem, Choose

(* Of the items the merge decides, those it does not write are already in   *)
(* the local database as it decided them: after the writes of SyncNow the   *)
(* database the call read has become the merged set.                        *)
THEOREM WrittenIsEnough ==
  ASSUME NEW l \in Content, NEW r \in Content, NEW b \in Content,
         NEW i \in Items \ Written(l, r, b)
  PROVE  MergeSet(l, r, b)[i] = l[i]
<1>1. l[i] \in Values \cup {None} /\ r[i] \in Values \cup {None}
      /\ b[i] \in Values \cup {None}
  BY DEF Content
<1>2. MergeItem(l[i], r[i], b[i]) = IF l[i] = b[i] THEN r[i] ELSE l[i]
  BY <1>1, MergeIsThreeWay
<1>3. MergeItem(l[i], r[i], b[i]) # r[i] \/ (l[i] = None /\ r[i] = None)
  BY DEF Written
<1> QED  BY <1>2, <1>3 DEF MergeSet

(* What a merge gives is a content.                                         *)
LEMMA MergeSetType ==
  ASSUME NEW l \in Content, NEW r \in Content, NEW b \in Content
  PROVE  MergeSet(l, r, b) \in Content
BY MergeIsThreeWay DEF MergeSet, MergeItem, Choose, Content

(* Every step of a synchronisation keeps the types.                         *)
LEMMA TypeStep == TypeOK /\ [Next]_vars => TypeOK'
<1> SUFFICES ASSUME TypeOK, [Next]_vars  PROVE TypeOK'
  OBVIOUS
<1> USE SyncAssumption DEF TypeOK
<1>1. ASSUME NEW c \in Calls, StartSync(c)  PROVE TypeOK'
  BY <1>1 DEF StartSync, Go, serverVars, settings, history
<1>2. ASSUME NEW c \in Calls, AskMeta(c)  PROVE TypeOK'
  BY <1>2 DEF AskMeta, Go, serverVars, settings, history
<1>3. ASSUME NEW c \in Calls, Fetch(c)  PROVE TypeOK'
  <2>1. MergeSet(read[c], blob, snapshot[DeviceOf[c]]) \in Content
    BY MergeSetType
  <2>2. Written(read[c], blob, snapshot[DeviceOf[c]]) \in SUBSET Items
    BY DEF Written
  <2> QED  BY <1>3, <2>1, <2>2 DEF Fetch, Go, serverVars, settings, history
<1>4. ASSUME NEW c \in Calls, NEW i \in Items, MergeWrites(c, i)  PROVE TypeOK'
  BY <1>4 DEF MergeWrites, Content, serverVars, settings, history
<1>5. ASSUME NEW c \in Calls, MergeEnds(c)  PROVE TypeOK'
  <2>1. <<"snapshot", "hash", "meta">> \in Seq({"snapshot", "hash", "meta"})
        /\ <<>> \in Seq({"snapshot", "hash", "meta"})
    OBVIOUS
  <2>2. saves' \in [Calls -> Seq({"snapshot", "hash", "meta"})]
    BY <1>5, <2>1 DEF MergeEnds
  <2>3. step' \in [Calls -> {"idle", "asking", "fetching", "merging", "uploading",
                            "confirming", "saving"}]
    BY <1>5 DEF MergeEnds, Go
  <2> QED  BY <1>5, <2>2, <2>3 DEF MergeEnds, serverVars, settings, history
<1>6. ASSUME NEW c \in Calls, Upload(c)  PROVE TypeOK'
  BY <1>6 DEF Upload, Go, settings, locals, history
<1>7. ASSUME NEW c \in Calls, Confirm(c)  PROVE TypeOK'
  BY <1>7 DEF Confirm, Go, serverVars, settings, history
<1>8. ASSUME NEW c \in Calls, Save(c)  PROVE TypeOK'
  <2>1. Tail(saves[c]) \in Seq({"snapshot", "hash", "meta"})
    BY <1>8 DEF Save
  <2>2. saves' \in [Calls -> Seq({"snapshot", "hash", "meta"})]
    BY <1>8, <2>1 DEF Save
  <2>3. step' \in [Calls -> {"idle", "asking", "fetching", "merging", "uploading",
                            "confirming", "saving"}]
    BY <1>8 DEF Save, Go
  <2>4. /\ snapshot' \in [Devices -> Content]
        /\ savedMeta' \in [Devices -> 0..MaxVersion \cup {None}]
        /\ savedHash' \in [Devices -> Content \cup {None}]
    BY <1>8 DEF Save
  <2> QED  BY <1>8, <2>2, <2>3, <2>4 DEF Save, serverVars, history
<1>9. ASSUME NEW c \in Calls, Abort(c)  PROVE TypeOK'
  BY <1>9 DEF Abort, serverVars, settings, history
<1>10. ASSUME NEW d \in Devices, NEW i \in Items, NEW v \in Values \cup {None},
              UserWrites(d, i, v)
       PROVE TypeOK'
  BY <1>10 DEF UserWrites, Content, serverVars, settings, locals
<1>11. CASE UNCHANGED vars
  BY <1>11 DEF vars, serverVars, settings, locals, history
<1> QED
  BY <1>1, <1>2, <1>3, <1>4, <1>5, <1>6, <1>7, <1>8, <1>9, <1>10, <1>11
     DEF Next, SyncStep

(* Every state of the specification is well typed.                          *)
THEOREM TypeCorrect == Spec => []TypeOK
<1>1. Init => TypeOK
  BY SyncAssumption DEF Init, TypeOK, Content, Nothing
<1> QED  BY <1>1, TypeStep, PTL DEF Spec
-----------------------------------------------------------------------------
(* One synchronisation at a time *)

(* Calls do not overlap, a call that has begun to save its settings saves   *)
(* them all, and None is what it stands for: nothing.                       *)
Orderly ==
  /\ ~Overlap
  /\ "saving" \notin AbortAt
  /\ None \notin Content /\ None \notin Nat

Active(c) == step[c] # "idle"

(* What the settings of a device say when no call is saving them: nothing   *)
(* was ever saved, or what was saved is one synchronisation, and it is the  *)
(* blob unless somebody has replaced the blob since.                        *)
Saved(d) ==
  \/ savedHash[d] = None /\ savedMeta[d] = None
  \/ /\ savedHash[d] = snapshot[d]
     /\ savedMeta[d] \in 1..version
     /\ savedMeta[d] = version => savedHash[d] = blob

Quiet(d) == \A c \in Calls : step[c] = "saving" => DeviceOf[c] # d

(* How far a call that saves has come: what it has dropped from its list is *)
(* saved.                                                                   *)
Saving(c) ==
  LET d == DeviceOf[c] IN
  \/ saves[c] = <<"snapshot", "hash", "meta">>
  \/ saves[c] = <<"hash", "meta">> /\ snapshot[d] = blob
  \/ saves[c] = <<"meta">> /\ snapshot[d] = blob /\ savedHash[d] = blob
  \/ saves[c] = <<"meta", "hash", "snapshot">>
  \/ saves[c] = <<"hash", "snapshot">> /\ savedMeta[d] = version
  \/ saves[c] = <<"snapshot">> /\ savedMeta[d] = version /\ savedHash[d] = blob

(* What a call has learnt and decided: a call that saw no change here takes *)
(* over the blob, and what is confirmed or saved is the blob.               *)
Phase(c) ==
  /\ step[c] \in {"fetching", "merging"} =>
       /\ seen[c] = version
       /\ ~upload[c] => read[c] = savedHash[DeviceOf[c]]
  /\ step[c] = "merging" /\ ~upload[c] => merged[c] = blob /\ version > 0
  /\ step[c] = "confirming" => merged[c] = blob /\ version > 0
  /\ step[c] = "saving" =>
       merged[c] = blob /\ seen[c] = version /\ version > 0 /\ Saving(c)

Alone == \A c, o \in Calls : Active(c) /\ Active(o) => c = o

SyncInv ==
  /\ TypeOK
  /\ Alone
  /\ \A d \in Devices : Quiet(d) => Saved(d)
  /\ \A c \in Calls : Phase(c)

(* While one call is active nobody else is.                                 *)
LEMMA OthersAreIdle ==
  ASSUME Alone, NEW c \in Calls, Active(c)
  PROVE  \A o \in Calls : o # c => step[o] = "idle"
BY DEF Alone, Active

(* A step of the only active call leaves it the only one, and what the      *)
(* invariant says of the phases is then about this call alone.              *)
LEMMA OneCallMoves ==
  ASSUME TypeOK, NEW c \in Calls, NEW to,
         \A o \in Calls : o # c => step[o] = "idle",
         step' = [step EXCEPT ![c] = to], Phase(c)'
  PROVE  /\ Alone'
         /\ \A o \in Calls : Phase(o)'
         /\ to # "saving" => \A d \in Devices : Quiet(d)'
         /\ to = "saving" => \A d \in Devices : Quiet(d)' => d # DeviceOf[c]
<1>1. \A o \in Calls : step'[o] = IF o = c THEN to ELSE "idle"
  BY DEF TypeOK
<1>2. Alone'
  BY <1>1 DEF Alone, Active
<1>3. \A o \in Calls : o # c => Phase(o)'
  BY <1>1 DEF Phase
<1>4. \A o \in Calls : Phase(o)'
  BY <1>3
<1>5. to # "saving" => \A d \in Devices : Quiet(d)'
  BY <1>1 DEF Quiet
<1>6. to = "saving" => \A d \in Devices : Quiet(d)' => d # DeviceOf[c]
  BY <1>1 DEF Quiet
<1> QED
  BY <1>2, <1>4, <1>5, <1>6

(* While the settings and the blob stay, what is saved stays saved.         *)
LEMMA SavedStays ==
  ASSUME UNCHANGED <<serverVars, settings>>, NEW d \in Devices, Saved(d)
  PROVE  Saved(d)'
BY DEF Saved, serverVars, settings

(* A call that saves nothing yet leaves every device quiet.                 *)
LEMMA QuietBefore ==
  ASSUME NEW c \in Calls, step[c] # "saving",
         \A o \in Calls : o # c => step[o] = "idle",
         NEW d \in Devices
  PROVE  Quiet(d)
BY DEF Quiet

(* A device that changed nothing takes the blob as it is.                   *)
LEMMA UnchangedHereIsBlob ==
  ASSUME NEW r \in Content, NEW b \in Content
  PROVE  MergeSet(b, r, b) = r
<1>1. \A i \in Items : MergeItem(b[i], r[i], b[i]) = r[i]
  BY MergeIsThreeWay DEF Content
<1> QED
  BY <1>1 DEF MergeSet, Content

(* Every step keeps what devices, bases and the blob have in common.        *)
LEMMA SyncInvStep ==
  ASSUME Orderly, SyncInv, [Next]_vars
  PROVE  SyncInv'
<1>0. TypeOK /\ TypeOK' /\ Alone
  BY TypeStep DEF SyncInv
<1> USE SyncAssumption
<1>1. ASSUME NEW c \in Calls, StartSync(c)
      PROVE  SyncInv'
  <2>1. /\ \A o \in Calls : step[o] = "idle"
        /\ step' = [step EXCEPT ![c] = "asking"]
        /\ UNCHANGED <<serverVars, settings>>
    BY <1>1 DEF StartSync, Go, Orderly
  <2>2. Phase(c)'
    BY <1>0, <2>1 DEF Phase, TypeOK
  <2>3. \A d \in Devices : Saved(d)'
    BY <2>1, SavedStays DEF SyncInv, Quiet
  <2> QED
    BY <1>0, <2>1, <2>2, <2>3, OneCallMoves DEF SyncInv
<1>2. ASSUME NEW c \in Calls, AskMeta(c)
      PROVE  SyncInv'
  <2> DEFINE d == DeviceOf[c]
             to == IF version # savedMeta[d] THEN "fetching"
                   ELSE IF read[c] # savedHash[d] THEN "uploading" ELSE "idle"
  <2>1. /\ step[c] = "asking" /\ step' = [step EXCEPT ![c] = to]
        /\ seen' = [seen EXCEPT ![c] = version]
        /\ upload' = [upload EXCEPT ![c] = (read[c] # savedHash[d])]
        /\ UNCHANGED <<serverVars, settings>> /\ read' = read
    BY <1>2 DEF AskMeta, Go
  <2>2. to \in {"fetching", "uploading", "idle"}
    OBVIOUS
  <2> HIDE DEF to
  <2>3. \A o \in Calls : o # c => step[o] = "idle"
    BY <1>0, <2>1, OthersAreIdle DEF Active
  <2>4. ~upload'[c] => read'[c] = savedHash'[d]
    <3>1. c \in DOMAIN upload
      BY <1>0 DEF TypeOK
    <3>2. upload'[c] <=> read[c] # savedHash[d]
      BY <2>1, <3>1, Zenon
    <3> QED
      BY <2>1, <3>2, Zenon DEF settings
  <2>5. step'[c] = to /\ seen'[c] = version'
    BY <1>0, <2>1 DEF TypeOK, serverVars
  <2>6. Phase(c)'
    BY <2>2, <2>4, <2>5 DEF Phase
  <2>7. \A e \in Devices : Saved(e)'
    BY <2>1, <2>3, QuietBefore, SavedStays DEF SyncInv
  <2> QED
    BY <1>0, <2>1, <2>3, <2>6, <2>7, OneCallMoves DEF SyncInv
<1>3. ASSUME NEW c \in Calls, Fetch(c)
      PROVE  SyncInv'
  <2> DEFINE d == DeviceOf[c]
  <2>1. /\ step[c] = "fetching" /\ step' = [step EXCEPT ![c] = "merging"]
        /\ version # 0 => merged' = [merged EXCEPT ![c] = MergeSet(read[c], blob, snapshot[d])]
        /\ UNCHANGED <<serverVars, settings, read, seen, upload>>
    BY <1>3 DEF Fetch, Go
  <2>2. \A o \in Calls : o # c => step[o] = "idle"
    BY <1>0, <2>1, OthersAreIdle DEF Active
  <2>3. \A e \in Devices : Saved(e) /\ Saved(e)'
    BY <2>1, <2>2, QuietBefore, SavedStays DEF SyncInv
  <2>4. seen[c] = version /\ (~upload[c] => read[c] = savedHash[d])
    BY <2>1 DEF SyncInv, Phase
  <2>5. /\ d \in Devices /\ read[c] \in Content /\ blob \in Content
        /\ snapshot[d] \in Content /\ version \in Nat
    BY <1>0 DEF TypeOK
  <2>6. ASSUME ~upload[c]
        PROVE  merged'[c] = blob /\ version > 0
    <3>1. savedHash[d] # None
      BY <2>4, <2>5, <2>6 DEF Orderly
    <3>2. savedHash[d] = snapshot[d] /\ version > 0
      BY <2>3, <2>5, <3>1 DEF Saved
    <3>3. MergeSet(read[c], blob, snapshot[d]) = blob
      BY <2>4, <2>5, <2>6, <3>2, UnchangedHereIsBlob
    <3> QED
      BY <1>0, <2>1, <2>5, <3>2, <3>3 DEF TypeOK
  <2>7. step'[c] = "merging" /\ seen'[c] = version'
        /\ (~upload'[c] => read'[c] = savedHash'[d])
        /\ (~upload'[c] => merged'[c] = blob' /\ version' > 0)
    BY <1>0, <2>1, <2>4, <2>6 DEF TypeOK, serverVars, settings
  <2>8. Phase(c)'
    BY <2>7 DEF Phase
  <2> QED
    BY <1>0, <2>1, <2>2, <2>3, <2>8, OneCallMoves DEF SyncInv
<1>4. ASSUME NEW c \in Calls, NEW i \in Items, MergeWrites(c, i)
      PROVE  SyncInv'
  BY <1>0, <1>4, SavedStays
     DEF MergeWrites, SyncInv, Alone, Active, Phase, Saving, Quiet, serverVars, settings
<1>5. ASSUME NEW c \in Calls, MergeEnds(c)
      PROVE  SyncInv'
  <2> DEFINE to == IF upload[c] THEN "uploading" ELSE "saving"
  <2>1. /\ step[c] = "merging" /\ step' = [step EXCEPT ![c] = to]
        /\ saves' = [saves EXCEPT ![c] = IF upload[c] THEN <<>>
                                         ELSE <<"snapshot", "hash", "meta">>]
        /\ UNCHANGED <<serverVars, settings, seen, merged>>
    BY <1>5 DEF MergeEnds, Go
  <2>2. \A o \in Calls : o # c => step[o] = "idle"
    BY <1>0, <2>1, OthersAreIdle DEF Active
  <2>3. \A e \in Devices : Saved(e)'
    BY <2>1, <2>2, QuietBefore, SavedStays DEF SyncInv
  <2>4. CASE upload[c]
    <3>1. step' = [step EXCEPT ![c] = "uploading"]
      BY <2>1, <2>4
    <3>2. Phase(c)'
      BY <1>0, <3>1 DEF Phase, TypeOK
    <3> QED
      BY <1>0, <2>2, <2>3, <3>1, <3>2, OneCallMoves DEF SyncInv
  <2>5. CASE ~upload[c]
    <3>1. /\ step' = [step EXCEPT ![c] = "saving"]
          /\ saves' = [saves EXCEPT ![c] = <<"snapshot", "hash", "meta">>]
      BY <2>1, <2>5
    <3>2. merged[c] = blob /\ seen[c] = version /\ version > 0
      BY <2>1, <2>5 DEF SyncInv, Phase
    <3>3. step'[c] = "saving" /\ saves'[c] = <<"snapshot", "hash", "meta">>
          /\ merged'[c] = blob' /\ seen'[c] = version' /\ version' > 0
      BY <1>0, <2>1, <3>1, <3>2 DEF TypeOK, serverVars
    <3>4. Phase(c)'
      BY <3>3 DEF Phase, Saving
    <3> QED
      BY <1>0, <2>2, <2>3, <3>1, <3>4, OneCallMoves DEF SyncInv
  <2> QED
    BY <2>4, <2>5
<1>6. ASSUME NEW c \in Calls, Upload(c)
      PROVE  SyncInv'
  <2>1. /\ step[c] = "uploading" /\ step' = [step EXCEPT ![c] = "confirming"]
        /\ blob' = merged[c] /\ version' = version + 1
        /\ UNCHANGED <<settings, merged>>
    BY <1>6 DEF Upload, Go, locals
  <2>2. \A o \in Calls : o # c => step[o] = "idle"
    BY <1>0, <2>1, OthersAreIdle DEF Active
  <2>3. \A e \in Devices : Saved(e)
    BY <2>1, <2>2, QuietBefore DEF SyncInv
  <2>4. version \in Nat
    BY <1>0 DEF TypeOK
  <2>5. ASSUME NEW e \in Devices
        PROVE  Saved(e)'
    BY <2>1, <2>3, <2>4, <2>5 DEF Saved, settings
  <2>6. step'[c] = "confirming" /\ merged'[c] = blob' /\ version' > 0
    BY <1>0, <2>1, <2>4 DEF TypeOK
  <2>7. Phase(c)'
    BY <2>6 DEF Phase
  <2> QED
    BY <1>0, <2>1, <2>2, <2>5, <2>7, OneCallMoves DEF SyncInv
<1>7. ASSUME NEW c \in Calls, Confirm(c)
      PROVE  SyncInv'
  <2>1. /\ step[c] = "confirming" /\ step' = [step EXCEPT ![c] = "saving"]
        /\ seen' = [seen EXCEPT ![c] = version]
        /\ saves' = [saves EXCEPT ![c] = <<"meta", "hash", "snapshot">>]
        /\ UNCHANGED <<serverVars, settings, merged>>
    BY <1>7 DEF Confirm, Go
  <2>2. \A o \in Calls : o # c => step[o] = "idle"
    BY <1>0, <2>1, OthersAreIdle DEF Active
  <2>3. \A e \in Devices : Saved(e)'
    BY <2>1, <2>2, QuietBefore, SavedStays DEF SyncInv
  <2>4. merged[c] = blob /\ version > 0
    BY <2>1 DEF SyncInv, Phase
  <2>5. step'[c] = "saving" /\ saves'[c] = <<"meta", "hash", "snapshot">>
        /\ merged'[c] = blob' /\ seen'[c] = version' /\ version' > 0
    BY <1>0, <2>1, <2>4 DEF TypeOK, serverVars
  <2>6. Phase(c)'
    BY <2>5 DEF Phase, Saving
  <2> QED
    BY <1>0, <2>1, <2>2, <2>3, <2>6, OneCallMoves DEF SyncInv
<1>8. ASSUME NEW c \in Calls, Save(c)
      PROVE  SyncInv'
  <2> DEFINE d == DeviceOf[c]
             to == IF Len(saves[c]) = 1 THEN "idle" ELSE "saving"
  <2>1. /\ step[c] = "saving" /\ step' = [step EXCEPT ![c] = to]
        /\ saves' = [saves EXCEPT ![c] = Tail(saves[c])]
        /\ UNCHANGED <<serverVars, seen, merged>>
    BY <1>8 DEF Save, Go
  <2>2. \A o \in Calls : o # c => step[o] = "idle"
    BY <1>0, <2>1, OthersAreIdle DEF Active
  <2>3. merged[c] = blob /\ seen[c] = version /\ version > 0 /\ Saving(c)
    BY <2>1 DEF SyncInv, Phase
  <2>4. /\ d \in Devices /\ version \in Nat
        /\ \A o \in Calls : step'[o] = IF o = c THEN to ELSE "idle"
        /\ saves'[c] = Tail(saves[c])
    BY <1>0, <2>1, <2>2 DEF TypeOK
  <2>5. /\ Head(saves[c]) = "snapshot" =>
             snapshot' = [snapshot EXCEPT ![d] = blob] /\ UNCHANGED <<savedMeta, savedHash>>
        /\ Head(saves[c]) = "hash" =>
             savedHash' = [savedHash EXCEPT ![d] = blob] /\ UNCHANGED <<snapshot, savedMeta>>
        /\ Head(saves[c]) = "meta" =>
             savedMeta' = [savedMeta EXCEPT ![d] = version] /\ UNCHANGED <<snapshot, savedHash>>
    BY <1>8, <2>3 DEF Save
  <2>6. ASSUME NEW e \in Devices, e # d
        PROVE  Saved(e)'
    <3>1. Quiet(e)
      BY <2>2, <2>6 DEF Quiet
    <3>2. /\ snapshot'[e] = snapshot[e] /\ savedHash'[e] = savedHash[e]
          /\ savedMeta'[e] = savedMeta[e]
      BY <1>0, <1>8, <2>6 DEF Save, TypeOK
    <3> QED
      BY <2>1, <3>1, <3>2 DEF Saved, SyncInv, serverVars
  <2>7. CASE Len(saves[c]) = 1
    <3>1. to = "idle"
      BY <2>7
    <3>2. \/ saves[c] = <<"meta">> /\ snapshot[d] = blob /\ savedHash[d] = blob
          \/ saves[c] = <<"snapshot">> /\ savedMeta[d] = version /\ savedHash[d] = blob
      BY <2>3, <2>7 DEF Saving
    <3>3. snapshot'[d] = blob /\ savedHash'[d] = blob /\ savedMeta'[d] = version
      BY <1>0, <2>4, <2>5, <3>2 DEF TypeOK
    <3>4. Saved(d)'
      BY <2>1, <2>3, <2>4, <3>3 DEF Saved, serverVars
    <3>5. Phase(c)'
      BY <2>4, <3>1 DEF Phase
    <3> QED
      BY <1>0, <2>1, <2>2, <2>6, <3>1, <3>4, <3>5, OneCallMoves DEF SyncInv
  <2>8. CASE Len(saves[c]) # 1
    <3>1. to = "saving"
      BY <2>8
    <3>2. Saving(c)'
      <4>1. CASE saves[c] = <<"snapshot", "hash", "meta">>
        <5>1. saves'[c] = <<"hash", "meta">> /\ snapshot'[d] = blob'
          BY <1>0, <2>1, <2>4, <2>5, <4>1 DEF TypeOK, serverVars
        <5> QED
          BY <5>1 DEF Saving
      <4>2. CASE saves[c] = <<"hash", "meta">> /\ snapshot[d] = blob
        <5>1. saves'[c] = <<"meta">> /\ snapshot'[d] = blob' /\ savedHash'[d] = blob'
          BY <1>0, <2>1, <2>4, <2>5, <4>2 DEF TypeOK, serverVars
        <5> QED
          BY <5>1 DEF Saving
      <4>3. CASE saves[c] = <<"meta", "hash", "snapshot">>
        <5>1. saves'[c] = <<"hash", "snapshot">> /\ savedMeta'[d] = version'
          BY <1>0, <2>1, <2>4, <2>5, <4>3 DEF TypeOK, serverVars
        <5> QED
          BY <5>1 DEF Saving
      <4>4. CASE saves[c] = <<"hash", "snapshot">> /\ savedMeta[d] = version
        <5>1. saves'[c] = <<"snapshot">> /\ savedMeta'[d] = version' /\ savedHash'[d] = blob'
          BY <1>0, <2>1, <2>4, <2>5, <4>4 DEF TypeOK, serverVars
        <5> QED
          BY <5>1 DEF Saving
      <4>5. saves[c] # <<"meta">> /\ saves[c] # <<"snapshot">>
        BY <2>8
      <4>6. \/ saves[c] = <<"snapshot", "hash", "meta">>
            \/ saves[c] = <<"hash", "meta">> /\ snapshot[d] = blob
            \/ saves[c] = <<"meta", "hash", "snapshot">>
            \/ saves[c] = <<"hash", "snapshot">> /\ savedMeta[d] = version
        BY <2>3, <4>5 DEF Saving
      <4> QED
        BY ONLY <4>1, <4>2, <4>3, <4>4, <4>6
    <3>3. Phase(c)'
      BY <2>1, <2>3, <2>4, <3>1, <3>2 DEF Phase, serverVars
    <3> QED
      BY <1>0, <2>1, <2>2, <2>6, <3>1, <3>3, OneCallMoves DEF SyncInv
  <2> QED
    BY <2>7, <2>8
<1>9. ASSUME NEW c \in Calls, Abort(c)
      PROVE  SyncInv'
  <2>1. /\ step[c] # "saving" /\ Active(c) /\ step' = [step EXCEPT ![c] = "idle"]
        /\ UNCHANGED <<serverVars, settings>>
    BY <1>9 DEF Abort, Active, Orderly
  <2>2. \A o \in Calls : o # c => step[o] = "idle"
    BY <1>0, <2>1, OthersAreIdle
  <2>3. \A e \in Devices : Saved(e)'
    BY <2>1, <2>2, QuietBefore, SavedStays DEF SyncInv
  <2>4. Phase(c)'
    BY <1>0, <2>1 DEF Phase, TypeOK
  <2> QED
    BY <1>0, <2>1, <2>2, <2>3, <2>4, OneCallMoves DEF SyncInv
<1>10. ASSUME NEW d \in Devices, NEW i \in Items, NEW v \in Values \cup {None},
              UserWrites(d, i, v)
       PROVE  SyncInv'
  BY <1>0, <1>10, SavedStays
     DEF UserWrites, SyncInv, Alone, Active, Phase, Saving, Quiet, serverVars, settings, locals
<1>11. CASE UNCHANGED vars
  BY <1>0, <1>11, SavedStays
     DEF vars, SyncInv, Alone, Active, Phase, Saving, Quiet, serverVars, settings, locals
<1> QED
  BY <1>1, <1>2, <1>3, <1>4, <1>5, <1>6, <1>7, <1>8, <1>9, <1>10, <1>11
     DEF Next, SyncStep

(* It holds at the start.                                                   *)
LEMMA SyncInvInit == Init => SyncInv
<1> SUFFICES ASSUME Init PROVE SyncInv
  OBVIOUS
<1>1. TypeOK
  BY SyncAssumption DEF Init, TypeOK, Content, Nothing
<1>2. \A c \in Calls : step[c] = "idle"
  BY DEF Init
<1>3. \A d \in Devices : Saved(d)
  BY DEF Init, Saved
<1> QED
  BY <1>1, <1>2, <1>3 DEF SyncInv, Alone, Active, Phase

(* SyncNow's shortcut is sound (app_account.go:264-266): when no call       *)
(* overlaps another and none dies among its last three statements, a device *)
(* whose saved meta and hash say that nothing changed holds the blob.       *)
THEOREM SettledHoldTheBlob ==
  ASSUME Orderly
  PROVE  Spec => []SettledDevicesHoldTheBlob
<1>1. SyncInv /\ [Next]_vars => SyncInv'
  BY SyncInvStep
<1>2. SyncInv => SettledDevicesHoldTheBlob
  <2> SUFFICES ASSUME SyncInv, NEW d \in Devices, Settled(d)
               PROVE  db[d] = blob
    BY DEF SettledDevicesHoldTheBlob
  <2>1. Saved(d)
    BY DEF SyncInv, Quiet, Settled
  <2>2. version \in Nat
    BY SyncAssumption DEF SyncInv, TypeOK
  <2> QED
    BY <2>1, <2>2 DEF Saved, Settled, Orderly
<1> QED
  BY <1>1, <1>2, SyncInvInit, PTL DEF Spec

(* Why an item that a device once synchronised is missing somewhere: some   *)
(* user deleted it.  From the blob, from the device's database, and from    *)
(* what a call has read or decided.                                         *)
Gone(d, i, x) == snapshot[d][i] # None /\ x[i] = None => i \in deleted

Reading(c) == step[c] \in {"asking", "fetching"}
Deciding(c) == step[c] \in {"merging", "uploading"}
Decided(c) == step[c] \in {"merging", "uploading", "confirming", "saving"}

(* What a call has read or decided differs from the database of its device  *)
(* by deletions only, as far as it has written its decisions.               *)
CallInv(c, i) ==
  LET d == DeviceOf[c] IN
  /\ Reading(c) =>
       /\ Gone(d, i, read[c])
       /\ read[c][i] # None /\ db[d][i] = None => i \in deleted
  /\ step[c] = "fetching" => merged[c] = read[c]
  /\ Deciding(c) => \A e \in Devices : Gone(e, i, merged[c])
  /\ step[c] = "merging" /\ i \in todo[c] /\ merged[c][i] = None => i \in deleted
  /\ Decided(c) =>
       (merged[c][i] # None /\ db[d][i] = None /\ i \notin todo[c] => i \in deleted)
  /\ step[c] # "merging" => todo[c] = {}

DeletionInv ==
  /\ version = 0 => \A d \in Devices : snapshot[d] = Nothing
  /\ \A d \in Devices, i \in Items : Gone(d, i, blob) /\ Gone(d, i, db[d])
  /\ \A c \in Calls, i \in Items : CallInv(c, i)

(* As long as the blob, the snapshots and the databases stay, so does what  *)
(* is said of them.                                                         *)
LEMMA ItemsStay ==
  ASSUME DeletionInv, UNCHANGED <<blob, version, snapshot, db, deleted>>
  PROVE  /\ version' = 0 => \A d \in Devices : snapshot'[d] = Nothing
         /\ \A d \in Devices, i \in Items : Gone(d, i, blob)' /\ Gone(d, i, db[d])'
BY DEF DeletionInv, Gone

(* A step of the only active call does not touch what is said of the idle   *)
(* ones.                                                                    *)
LEMMA IdleStay ==
  ASSUME TypeOK, DeletionInv, NEW c \in Calls, NEW to,
         \A o \in Calls : o # c => step[o] = "idle",
         step' = [step EXCEPT ![c] = to],
         NEW x, todo' = [todo EXCEPT ![c] = x],
         \A i \in Items : CallInv(c, i)'
  PROVE  \A o \in Calls, i \in Items : CallInv(o, i)'
<1> SUFFICES ASSUME NEW o \in Calls, NEW i \in Items, o # c
             PROVE  CallInv(o, i)'
  OBVIOUS
<1>1. step'[o] = "idle" /\ step[o] = "idle" /\ todo'[o] = todo[o]
  BY DEF TypeOK
<1>2. todo[o] = {}
  BY <1>1 DEF DeletionInv, CallInv
<1> QED
  BY <1>1, <1>2 DEF CallInv, Reading, Deciding, Decided

(* The merge takes an item away only where somebody deleted it; it brings   *)
(* back nothing that was deleted here, and what it does not write is there. *)
LEMMA MergeDeletes ==
  ASSUME TypeOK, DeletionInv, Orderly, NEW c \in Calls, step[c] = "fetching",
         NEW i \in Items
  PROVE  LET d == DeviceOf[c]
             m == MergeSet(read[c], blob, snapshot[d])
             w == Written(read[c], blob, snapshot[d])
         IN  /\ \A e \in Devices : Gone(e, i, m)
             /\ i \in w /\ m[i] = None => i \in deleted
             /\ m[i] # None /\ db[d][i] = None /\ i \notin w => i \in deleted
<1> DEFINE d == DeviceOf[c]
           m == MergeSet(read[c], blob, snapshot[d])
           w == Written(read[c], blob, snapshot[d])
<1>1. /\ d \in Devices /\ read[c] \in Content /\ blob \in Content /\ snapshot[d] \in Content
      /\ read[c][i] \in Values \cup {None} /\ blob[i] \in Values \cup {None}
      /\ snapshot[d][i] \in Values \cup {None}
  BY SyncAssumption DEF TypeOK, Content
<1>2. /\ MergeItem(read[c][i], blob[i], snapshot[d][i]) = m[i]
      /\ m[i] = IF read[c][i] = snapshot[d][i] THEN blob[i] ELSE read[c][i]
  BY <1>1, MergeIsThreeWay DEF MergeSet
<1>3. /\ Gone(d, i, read[c])
      /\ read[c][i] # None /\ db[d][i] = None => i \in deleted
  BY DEF DeletionInv, CallInv, Reading
<1>4. \A e \in Devices : Gone(e, i, blob)
  BY DEF DeletionInv
<1>5. m[i] = None /\ read[c][i] # snapshot[d][i] => i \in deleted
  BY <1>2, <1>3 DEF Gone
<1>6. \A e \in Devices : Gone(e, i, m)
  BY <1>2, <1>4, <1>5 DEF Gone
<1>7. i \in w /\ m[i] = None => i \in deleted
  <2> SUFFICES ASSUME i \in w, m[i] = None
               PROVE  i \in deleted
    OBVIOUS
  <2>1. m[i] = blob[i] /\ (read[c][i] # None \/ blob[i] # None)
    BY <1>2 DEF Written
  <2>2. read[c][i] # None /\ read[c][i] = snapshot[d][i]
    BY <1>2, <2>1
  <2> QED
    BY <1>1, <1>4, <2>1, <2>2 DEF Gone
<1>8. m[i] # None /\ db[d][i] = None /\ i \notin w => i \in deleted
  BY <1>1, <1>3, WrittenIsEnough
<1> QED
  BY <1>6, <1>7, <1>8

(* Every step keeps what is known of deletions, and an item goes only where *)
(* a user has deleted it.                                                   *)
LEMMA DeletionInvStep ==
  ASSUME Orderly, SyncInv, DeletionInv, [Next]_vars
  PROVE  /\ DeletionInv'
         /\ \A d \in Devices, i \in Items :
              db[d][i] # None /\ db'[d][i] = None => i \in deleted'
<1> DEFINE Kept == \A d \in Devices, i \in Items :
                     db[d][i] # None /\ db'[d][i] = None => i \in deleted'
<1>0. TypeOK /\ TypeOK' /\ Alone
  BY TypeStep DEF SyncInv
<1> USE SyncAssumption
<1>1. ASSUME NEW c \in Calls, StartSync(c)
      PROVE  DeletionInv' /\ Kept
  <2> DEFINE d == DeviceOf[c]
  <2>1. /\ \A o \in Calls : step[o] = "idle"
        /\ step' = [step EXCEPT ![c] = "asking"] /\ read' = [read EXCEPT ![c] = db[d]]
        /\ todo' = [todo EXCEPT ![c] = todo[c]]
        /\ UNCHANGED <<blob, version, snapshot, db, deleted, todo>>
    BY <1>0, <1>1 DEF StartSync, Go, Orderly, TypeOK, serverVars, settings, history
  <2>2. step'[c] = "asking" /\ read'[c] = db[d] /\ d \in Devices
    BY <1>0, <2>1 DEF TypeOK
  <2>3. ASSUME NEW i \in Items
        PROVE  CallInv(c, i)'
    <3>1. Gone(d, i, db[d]) /\ todo[c] = {}
      BY <2>1, <2>2 DEF DeletionInv, CallInv
    <3> QED
      BY <2>1, <2>2, <3>1 DEF CallInv, Gone, Reading, Deciding, Decided
  <2> QED
    BY <1>0, <2>1, <2>3, ItemsStay, IdleStay DEF DeletionInv
<1>2. ASSUME NEW c \in Calls, AskMeta(c)
      PROVE  DeletionInv' /\ Kept
  <2> DEFINE d == DeviceOf[c]
             to == IF version # savedMeta[d] THEN "fetching"
                   ELSE IF read[c] # savedHash[d] THEN "uploading" ELSE "idle"
  <2>1. /\ step[c] = "asking" /\ step' = [step EXCEPT ![c] = to]
        /\ merged' = [merged EXCEPT ![c] = read[c]]
        /\ todo' = [todo EXCEPT ![c] = todo[c]]
        /\ UNCHANGED <<blob, version, snapshot, db, deleted, todo, read>>
    BY <1>0, <1>2 DEF AskMeta, Go, TypeOK, serverVars, settings, history
  <2>2. \A o \in Calls : o # c => step[o] = "idle"
    BY <1>0, <2>1, OthersAreIdle DEF Active
  <2>3. step'[c] = to /\ merged'[c] = read[c] /\ d \in Devices
    BY <1>0, <2>1 DEF TypeOK
  <2>4. ASSUME NEW i \in Items
        PROVE  CallInv(c, i)'
    <3>1. /\ Gone(d, i, read[c]) /\ todo[c] = {}
          /\ read[c][i] # None /\ db[d][i] = None => i \in deleted
          /\ \A e \in Devices : Gone(e, i, blob)
      BY <2>1, <2>3 DEF DeletionInv, CallInv, Reading
    <3>2. CASE to = "fetching"
      BY <2>1, <2>3, <3>1, <3>2 DEF CallInv, Gone, Reading, Deciding, Decided
    <3>3. CASE to = "uploading"
      <4>1. version = savedMeta[d]
        BY <3>3
      <4>2. Saved(d)
        BY <2>1, <2>2, <2>3, QuietBefore DEF SyncInv
      <4>3. version \in Nat
        BY <1>0 DEF TypeOK
      <4>4. snapshot[d] = blob
        BY <4>1, <4>2, <4>3 DEF Saved, Orderly
      <4>5. \A e \in Devices : Gone(e, i, read[c])
        BY <3>1, <4>4 DEF Gone
      <4> QED
        BY <2>1, <2>3, <3>1, <3>3, <4>5 DEF CallInv, Gone, Reading, Deciding, Decided
    <3>4. CASE to = "idle"
      BY <2>1, <2>3, <3>1, <3>4 DEF CallInv, Reading, Deciding, Decided
    <3> QED
      BY <3>2, <3>3, <3>4
  <2> HIDE DEF to
  <2> QED
    BY <1>0, <2>1, <2>2, <2>4, ItemsStay, IdleStay DEF DeletionInv
<1>3. ASSUME NEW c \in Calls, Fetch(c)
      PROVE  DeletionInv' /\ Kept
  <2> DEFINE d == DeviceOf[c]
             m == MergeSet(read[c], blob, snapshot[d])
             w == Written(read[c], blob, snapshot[d])
  <2>1. /\ step[c] = "fetching" /\ step' = [step EXCEPT ![c] = "merging"]
        /\ UNCHANGED <<blob, version, snapshot, db, deleted, read>>
    BY <1>3 DEF Fetch, Go, serverVars, settings, history
  <2>2. \A o \in Calls : o # c => step[o] = "idle"
    BY <1>0, <2>1, OthersAreIdle DEF Active
  <2>3. step'[c] = "merging" /\ d \in Devices
    BY <1>0, <2>1 DEF TypeOK
  <2>4. CASE version = 0
    <3>1. merged' = merged /\ todo' = [todo EXCEPT ![c] = todo[c]] /\ todo' = todo
      BY <1>0, <1>3, <2>4 DEF Fetch, TypeOK
    <3>2. ASSUME NEW i \in Items
          PROVE  CallInv(c, i)'
      <4>1. \A e \in Devices : snapshot[e][i] = None
        BY <2>4 DEF DeletionInv, Nothing
      <4>2. /\ todo[c] = {}
            /\ merged[c] = read[c]
        BY <2>1, <2>4 DEF DeletionInv, CallInv
      <4> QED
        BY <2>1, <2>3, <3>1, <4>1, <4>2 DEF CallInv, DeletionInv, Gone, Reading, Deciding, Decided
    <3> QED
      BY <1>0, <2>1, <2>2, <3>1, <3>2, ItemsStay, IdleStay DEF DeletionInv
  <2>5. CASE version # 0
    <3>1. /\ merged' = [merged EXCEPT ![c] = m]
          /\ todo' = [todo EXCEPT ![c] = w]
      BY <1>3, <2>5 DEF Fetch
    <3>2. merged'[c] = m /\ todo'[c] = w
      BY <1>0, <3>1 DEF TypeOK
    <3>3. ASSUME NEW i \in Items
          PROVE  CallInv(c, i)'
      <4>1. /\ \A e \in Devices : Gone(e, i, m)
            /\ i \in w /\ m[i] = None => i \in deleted
            /\ m[i] # None /\ db[d][i] = None /\ i \notin w => i \in deleted
        BY <1>0, <2>1, MergeDeletes
      <4> HIDE DEF m, w
      <4> QED
        BY <2>1, <2>3, <3>2, <4>1 DEF CallInv, Gone, Reading, Deciding, Decided
    <3> HIDE DEF m, w
    <3> QED
      BY <1>0, <2>1, <2>2, <3>1, <3>3, ItemsStay, IdleStay DEF DeletionInv
  <2> QED
    BY <2>4, <2>5
<1>4. ASSUME NEW c \in Calls, NEW j \in Items, MergeWrites(c, j)
      PROVE  DeletionInv' /\ Kept
  <2> DEFINE d == DeviceOf[c]
  <2>1. /\ step[c] = "merging" /\ j \in todo[c]
        /\ todo' = [todo EXCEPT ![c] = todo[c] \ {j}]
        /\ db' = [db EXCEPT ![d][j] = merged[c][j]]
        /\ UNCHANGED <<blob, version, snapshot, deleted, read, merged, step>>
    BY <1>4 DEF MergeWrites, serverVars, settings, history
  <2>2. \A o \in Calls : o # c => step[o] = "idle"
    BY <1>0, <2>1, OthersAreIdle DEF Active
  <2>3. /\ d \in Devices /\ todo'[c] = todo[c] \ {j}
        /\ \A e \in Devices, i \in Items :
             db'[e][i] = IF e = d /\ i = j THEN merged[c][j] ELSE db[e][i]
    BY <1>0, <2>1 DEF TypeOK, Content
  <2>4. /\ merged[c][j] = None => j \in deleted
        /\ \A e \in Devices : Gone(e, j, merged[c])
    BY <2>1 DEF DeletionInv, CallInv, Deciding
  <2>5. ASSUME NEW i \in Items
        PROVE  CallInv(c, i)'
    <3>1. CallInv(c, i)
      BY DEF DeletionInv
    <3> QED
      BY <2>1, <2>3, <2>4, <3>1 DEF CallInv, Gone, Reading, Deciding, Decided
  <2>6. step' = [step EXCEPT ![c] = step[c]]
    BY <1>0, <2>1 DEF TypeOK
  <2>7. \A o \in Calls, i \in Items : CallInv(o, i)'
    BY <1>0, <2>1, <2>2, <2>5, <2>6, IdleStay
  <2>8. \A e \in Devices, i \in Items : Gone(e, i, blob)' /\ Gone(e, i, db[e])'
    BY <2>1, <2>3, <2>4 DEF DeletionInv, Gone
  <2>9. Kept
    BY <2>1, <2>3, <2>4
  <2> QED
    BY <2>1, <2>7, <2>8, <2>9 DEF DeletionInv
<1>5. ASSUME NEW c \in Calls, MergeEnds(c)
      PROVE  DeletionInv' /\ Kept
  <2> DEFINE to == IF upload[c] THEN "uploading" ELSE "saving"
  <2>1. /\ step[c] = "merging" /\ step' = [step EXCEPT ![c] = to] /\ todo[c] = {}
        /\ todo' = [todo EXCEPT ![c] = todo[c]]
        /\ UNCHANGED <<blob, version, snapshot, db, deleted, read, merged, todo>>
    BY <1>0, <1>5 DEF MergeEnds, Go, TypeOK, serverVars, settings, history
  <2>2. \A o \in Calls : o # c => step[o] = "idle"
    BY <1>0, <2>1, OthersAreIdle DEF Active
  <2>3. to \in {"uploading", "saving"}
    OBVIOUS
  <2> HIDE DEF to
  <2>4. step'[c] = to
    BY <1>0, <2>1 DEF TypeOK
  <2>5. ASSUME NEW i \in Items
        PROVE  CallInv(c, i)'
    <3>1. CallInv(c, i)
      BY DEF DeletionInv
    <3> QED
      BY <2>1, <2>3, <2>4, <3>1 DEF CallInv, Gone, Reading, Deciding, Decided
  <2> QED
    BY <1>0, <2>1, <2>2, <2>5, ItemsStay, IdleStay DEF DeletionInv
<1>6. ASSUME NEW c \in Calls, Upload(c)
      PROVE  DeletionInv' /\ Kept
  <2>1. /\ step[c] = "uploading" /\ step' = [step EXCEPT ![c] = "confirming"]
        /\ blob' = merged[c] /\ version' = version + 1
        /\ todo' = [todo EXCEPT ![c] = todo[c]]
        /\ UNCHANGED <<snapshot, db, deleted, read, merged, todo>>
    BY <1>0, <1>6 DEF Upload, Go, TypeOK, locals, settings, history
  <2>2. \A o \in Calls : o # c => step[o] = "idle"
    BY <1>0, <2>1, OthersAreIdle DEF Active
  <2>3. step'[c] = "confirming" /\ version' # 0
    BY <1>0, <2>1 DEF TypeOK
  <2>4. ASSUME NEW i \in Items
        PROVE  CallInv(c, i)'
    <3>1. CallInv(c, i)
      BY DEF DeletionInv
    <3> QED
      BY <2>1, <2>3, <3>1 DEF CallInv, Reading, Deciding, Decided
  <2>5. \A d \in Devices, i \in Items : Gone(d, i, merged[c])
    BY <2>1 DEF DeletionInv, CallInv, Deciding
  <2>6. \A d \in Devices, i \in Items : Gone(d, i, blob)' /\ Gone(d, i, db[d])'
    BY <2>1, <2>5 DEF DeletionInv, Gone
  <2>7. \A o \in Calls, i \in Items : CallInv(o, i)'
    BY <1>0, <2>1, <2>2, <2>4, IdleStay
  <2> QED
    BY <2>1, <2>3, <2>6, <2>7 DEF DeletionInv
<1>7. ASSUME NEW c \in Calls, Confirm(c)
      PROVE  DeletionInv' /\ Kept
  <2>1. /\ step[c] = "confirming" /\ step' = [step EXCEPT ![c] = "saving"]
        /\ todo' = [todo EXCEPT ![c] = todo[c]]
        /\ UNCHANGED <<blob, version, snapshot, db, deleted, read, merged, todo>>
    BY <1>0, <1>7 DEF Confirm, Go, TypeOK, serverVars, settings, history
  <2>2. \A o \in Calls : o # c => step[o] = "idle"
    BY <1>0, <2>1, OthersAreIdle DEF Active
  <2>3. step'[c] = "saving"
    BY <1>0, <2>1 DEF TypeOK
  <2>4. ASSUME NEW i \in Items
        PROVE  CallInv(c, i)'
    <3>1. CallInv(c, i)
      BY DEF DeletionInv
    <3> QED
      BY <2>1, <2>3, <3>1 DEF CallInv, Reading, Deciding, Decided
  <2> QED
    BY <1>0, <2>1, <2>2, <2>4, ItemsStay, IdleStay DEF DeletionInv
<1>8. ASSUME NEW c \in Calls, Save(c)
      PROVE  DeletionInv' /\ Kept
  <2> DEFINE d == DeviceOf[c]
             to == IF Len(saves[c]) = 1 THEN "idle" ELSE "saving"
  <2>1. /\ step[c] = "saving" /\ step' = [step EXCEPT ![c] = to]
        /\ todo' = [todo EXCEPT ![c] = todo[c]]
        /\ snapshot' = snapshot \/ snapshot' = [snapshot EXCEPT ![d] = merged[c]]
        /\ UNCHANGED <<blob, version, db, deleted, read, merged, todo>>
    BY <1>0, <1>8 DEF Save, Go, TypeOK, serverVars, history
  <2>2. \A o \in Calls : o # c => step[o] = "idle"
    BY <1>0, <2>1, OthersAreIdle DEF Active
  <2>3. to \in {"idle", "saving"}
    OBVIOUS
  <2> HIDE DEF to
  <2>4. step'[c] = to /\ d \in Devices /\ version \in Nat
    BY <1>0, <2>1 DEF TypeOK
  <2>5. merged[c] = blob /\ version > 0
    BY <2>1 DEF SyncInv, Phase
  <2>6. \A e \in Devices :
          snapshot'[e] = snapshot[e] \/ (e = d /\ snapshot'[e] = blob)
    BY <1>0, <2>1, <2>5 DEF TypeOK
  <2>7. ASSUME NEW i \in Items
        PROVE  CallInv(c, i)'
    <3>1. CallInv(c, i)
      BY DEF DeletionInv
    <3> QED
      BY <2>1, <2>3, <2>4, <3>1 DEF CallInv, Reading, Deciding, Decided
  <2>8. \A i \in Items : blob[i] # None /\ db[d][i] = None => i \in deleted
    BY <2>1, <2>5 DEF DeletionInv, CallInv, Decided
  <2>9. \A e \in Devices, i \in Items : Gone(e, i, blob)' /\ Gone(e, i, db[e])'
    BY <2>1, <2>6, <2>8 DEF DeletionInv, Gone
  <2>10. \A o \in Calls, i \in Items : CallInv(o, i)'
    BY <1>0, <2>1, <2>2, <2>7, IdleStay
  <2> QED
    BY <2>1, <2>4, <2>5, <2>9, <2>10 DEF DeletionInv
<1>9. ASSUME NEW c \in Calls, Abort(c)
      PROVE  DeletionInv' /\ Kept
  <2>1. /\ Active(c) /\ step' = [step EXCEPT ![c] = "idle"]
        /\ todo' = [todo EXCEPT ![c] = {}]
        /\ UNCHANGED <<blob, version, snapshot, db, deleted, read, merged>>
    BY <1>9 DEF Abort, Active, serverVars, settings, history
  <2>2. \A o \in Calls : o # c => step[o] = "idle"
    BY <1>0, <2>1, OthersAreIdle
  <2>3. step'[c] = "idle" /\ todo'[c] = {}
    BY <1>0, <2>1 DEF TypeOK
  <2>4. \A i \in Items : CallInv(c, i)'
    BY <2>3 DEF CallInv, Reading, Deciding, Decided
  <2> QED
    BY <1>0, <2>1, <2>2, <2>4, ItemsStay, IdleStay DEF DeletionInv
<1>10. ASSUME NEW d \in Devices, NEW j \in Items, NEW v \in Values \cup {None},
              UserWrites(d, j, v)
       PROVE  DeletionInv' /\ Kept
  <2>1. /\ db' = [db EXCEPT ![d][j] = v]
        /\ v = None => j \in deleted'
        /\ deleted \subseteq deleted'
        /\ UNCHANGED <<blob, version, snapshot, step, read, merged, todo>>
    BY <1>10 DEF UserWrites, serverVars, settings, locals
  <2>2. \A e \in Devices, i \in Items :
          db'[e][i] = IF e = d /\ i = j THEN v ELSE db[e][i]
    BY <1>0, <2>1 DEF TypeOK, Content
  <2>3. \A e \in Devices, i \in Items :
          (db'[e][i] = None => i \in deleted' \/ db[e][i] = None)
    BY <2>1, <2>2
  <2>4. ASSUME NEW c \in Calls, NEW i \in Items
        PROVE  CallInv(c, i)'
    <3>1. CallInv(c, i) /\ DeviceOf[c] \in Devices
      BY DEF DeletionInv
    <3> QED
      BY <2>1, <2>3, <3>1 DEF CallInv, Gone, Reading, Deciding, Decided
  <2>5. \A e \in Devices, i \in Items : Gone(e, i, blob)' /\ Gone(e, i, db[e])'
    BY <2>1, <2>3 DEF DeletionInv, Gone
  <2> QED
    BY <2>1, <2>3, <2>4, <2>5 DEF DeletionInv
<1>11. CASE UNCHANGED vars
  BY <1>11 DEF vars, serverVars, settings, locals, history,
               DeletionInv, CallInv, Gone, Reading, Deciding, Decided
<1> QED
  BY <1>1, <1>2, <1>3, <1>4, <1>5, <1>6, <1>7, <1>8, <1>9, <1>10, <1>11
     DEF Next, SyncStep

(* An item leaves the database of a device only after some user deleted it  *)
(* on some device: whatever the order in which any number of devices edit   *)
(* and synchronise, and wherever a call fails before it saves its settings. *)
THEOREM OnlyUsersTakeAway ==
  ASSUME Orderly
  PROVE  Spec => OnlyUsersDelete
<1>1. SyncInv /\ [Next]_vars => SyncInv'
  BY SyncInvStep
<1>2. SyncInv /\ DeletionInv /\ [Next]_vars =>
        /\ DeletionInv'
        /\ \A d \in Devices, i \in Items :
             db[d][i] # None /\ db'[d][i] = None => i \in deleted'
  BY DeletionInvStep
<1>3. Init => DeletionInv
  <2> SUFFICES ASSUME Init PROVE DeletionInv
    OBVIOUS
  <2>1. \A d \in Devices : /\ snapshot[d] = Nothing
                            /\ \A i \in Items : snapshot[d][i] = None
    BY DEF Init, Nothing
  <2>2. \A c \in Calls : step[c] = "idle" /\ todo[c] = {}
    BY DEF Init
  <2> QED
    <3>1. \A c \in Calls, i \in Items : CallInv(c, i)
      BY <2>2 DEF CallInv, Reading, Deciding, Decided
    <3>2. \A d \in Devices, i \in Items : Gone(d, i, blob) /\ Gone(d, i, db[d])
      BY <2>1 DEF Gone
    <3> QED
      BY <2>1, <3>1, <3>2 DEF DeletionInv
<1>4. SyncInv /\ DeletionInv /\ [Next]_vars =>
        [\A d \in Devices, i \in Items :
           db[d][i] # None /\ db'[d][i] = None => i \in deleted']_vars
  BY <1>2
<1> QED
  BY <1>1, <1>2, <1>3, <1>4, SyncInvInit, PTL DEF Spec, OnlyUsersDelete

-----------------------------------------------------------------------------
(* The vault *)

(* A key that may be used is the one both settings stand for; the steps of  *)
(* setting the vault up and of unlocking it lead there one by one.          *)
VaultInv ==
  /\ VaultTypeOK
  /\ UsedKeysAreRecoverable
  /\ setup.next = "save salt" => salt = 0
  /\ setup.next = "save test" => salt = setup.key.salt /\ used = {}
  /\ setup.next = "verify" => salt = setup.key.salt
  /\ setup.next = "keep key" => salt = setup.key.salt /\ test = setup.key

(* A setup that goes on is one, whatever it does next.                      *)
LEMMA SetupType ==
  ASSUME NEW u \in Setups \cup {NoSetup}, u.next # "nothing"
  PROVE  /\ u \in Setups /\ u.key \in Key
         /\ \A n \in {"save salt", "save test", "keep key", "verify"} :
              /\ [u EXCEPT !.next = n] \in Setups
              /\ [u EXCEPT !.next = n].next = n
              /\ [u EXCEPT !.next = n].key = u.key
<1>1. NoSetup.next = "nothing"
  BY DEF NoSetup
<1>2. u \in Setups
  BY <1>1
<1> QED
  BY <1>2 DEF Setups

(* The salt of a key is one that was drawn.                                 *)
LEMMA KeyType ==
  \A k \in Key : k.salt \in 1..MaxSalts /\ k.salt \in 0..MaxSalts /\ k.salt # 0
BY VaultAssumption DEF Key

(* Every step of the vault keeps its invariant, while its reads succeed.    *)
LEMMA VaultInvStep ==
  ASSUME ~ReadsFail, VaultInv, [VaultNext]_vaultVars
  PROVE  VaultInv'
<1> USE VaultAssumption DEF VaultInv, VaultTypeOK, UsedKeysAreRecoverable, Screens
<1>0. NoSetup.next = "nothing" /\ NoSetup \in Setups \cup {NoSetup}
      /\ NoKey \in Key \cup {NoKey}
  BY DEF NoSetup
<1>1. CASE Restart
  BY <1>0, <1>1 DEF Restart
<1>2. CASE ChooseMode
  BY <1>2 DEF ChooseMode
<1>3. ASSUME NEW p \in Passwords, SetupMasterPassword(p)
      PROVE  VaultInv'
  <2> DEFINE k == [salt |-> salts + 1, password |-> p]
             u == [next |-> "save salt", key |-> k]
  <2>0. FALSE \in {salt # 0}
    BY <1>3, Zenon DEF SetupMasterPassword, IsVaultSetup
  <2>1. salt = 0 /\ salts + 1 \in 0..MaxSalts /\ salts + 1 \in 1..MaxSalts
    <3>1. salt = 0
      BY <2>0, Zenon
    <3>2. salts < MaxSalts /\ salts \in 0..MaxSalts
      BY <1>3, Zenon DEF SetupMasterPassword
    <3>3. salts + 1 \in 0..MaxSalts /\ salts + 1 \in 1..MaxSalts
      BY ONLY <3>2, VaultAssumption
    <3> QED
      BY <3>1, <3>3
  <2>2. k \in Key
    BY <2>1 DEF Key
  <2>3. u \in Setups \cup {NoSetup} /\ u.next = "save salt"
    BY <2>2 DEF Setups
  <2>4. /\ salts' = salts + 1 /\ setup' = u
        /\ UNCHANGED <<salt, test, key, screen, used>>
    BY <1>3 DEF SetupMasterPassword
  <2> HIDE DEF u
  <2> QED
    BY <2>1, <2>3, <2>4
<1>4. CASE SetupFails
  BY <1>0, <1>4 DEF SetupFails
<1>5. CASE SaveSalt
  <2>1. setup.next = "save salt" /\ salt = 0
    BY <1>5 DEF SaveSalt
  <2>2. used = {}
    <3> SUFFICES ASSUME NEW k \in used
                 PROVE  FALSE
      OBVIOUS
    <3>1. k \in Key /\ k.salt = 0
      BY <2>1
    <3> QED
      BY <3>1, KeyType
  <2>3. /\ setup' \in Setups \cup {NoSetup} /\ setup'.next = "save test"
        /\ setup'.key = setup.key /\ setup.key.salt \in 0..MaxSalts
    <3>1. setup \in Setups /\ setup.key \in Key
      BY <2>1, SetupType
    <3> QED
      BY <1>5, <2>1, <3>1, SetupType, KeyType DEF SaveSalt
  <2>4. salt' = setup.key.salt /\ UNCHANGED <<test, key, screen, used, salts>>
    BY <1>5 DEF SaveSalt
  <2> QED
    BY <2>2, <2>3, <2>4
<1>6. CASE SaveTest
  <2>1. setup.next = "save test" /\ test' = setup.key /\ salt = setup.key.salt /\ used = {}
        /\ UNCHANGED <<salt, key, screen, used, salts>>
    BY <1>6 DEF SaveTest
  <2>2. /\ setup' \in Setups \cup {NoSetup} /\ setup'.next = "keep key"
        /\ setup'.key = setup.key /\ setup.key \in Key \cup {NoKey}
    BY <1>6, <2>1, SetupType, KeyType DEF SaveTest
  <2> QED
    BY <2>1, <2>2
<1>7. CASE KeepKey
  <2>1. setup.next = "keep key" /\ test = setup.key /\ salt = setup.key.salt
        /\ setup.key \in Key
    BY <1>7, SetupType DEF KeepKey
  <2>2. /\ key' = setup.key /\ used' = used \cup {setup.key} /\ screen' = "gone"
        /\ setup' = NoSetup /\ UNCHANGED <<salt, test, salts>>
    BY <1>7 DEF KeepKey
  <2> QED
    BY <1>0, <2>1, <2>2
<1>8. ASSUME NEW p \in Passwords, UnlockVault(p)
      PROVE  VaultInv'
  <2> DEFINE k == [salt |-> salt, password |-> p]
             u == [next |-> "verify", key |-> k]
  <2>1. k \in Key /\ k.salt = salt
    <3>1. salt \in 1..MaxSalts
      <4>1. salt # 0 /\ salt \in 0..MaxSalts
        BY <1>8, Zenon DEF UnlockVault
      <4> QED
        BY ONLY <4>1, VaultAssumption
    <3> QED
      BY <3>1 DEF Key
  <2>2. u \in Setups \cup {NoSetup} /\ u.next = "verify" /\ u.key.salt = salt
    BY <2>1 DEF Setups
  <2>3. setup' = u /\ UNCHANGED <<salt, test, key, screen, used, salts>>
    BY <1>8 DEF UnlockVault
  <2> HIDE DEF u
  <2> QED
    BY <2>2, <2>3
<1>9. CASE Verify
  <2>1. setup.next = "verify" /\ salt = setup.key.salt
        /\ UNCHANGED <<salt, test, key, screen, used, salts>>
    BY <1>9 DEF Verify
  <2>2. CASE test = setup.key
    <3>1. /\ setup' \in Setups \cup {NoSetup} /\ setup'.next = "keep key"
          /\ setup'.key = setup.key
      BY <1>9, <2>1, <2>2, SetupType DEF Verify
    <3> QED
      BY <2>1, <2>2, <3>1
  <2>3. CASE test # setup.key
    BY <1>0, <1>9, <2>1, <2>3 DEF Verify
  <2> QED
    BY <2>2, <2>3
<1>10. CASE UNCHANGED vaultVars
  BY <1>10 DEF vaultVars
<1> QED
  BY <1>1, <1>2, <1>3, <1>4, <1>5, <1>6, <1>7, <1>8, <1>9, <1>10 DEF VaultNext

(* Every state of the vault is well typed, whether or not settings can be   *)
(* read.                                                                    *)
THEOREM VaultTypeCorrect == VaultSpec => []VaultTypeOK
<1>1. VaultInit => VaultTypeOK
  BY VaultAssumption DEF VaultInit, VaultTypeOK, NoSetup, NoKey, Screens
<1>2. VaultTypeOK /\ [VaultNext]_vaultVars => VaultTypeOK'
  <2> SUFFICES ASSUME VaultTypeOK, [VaultNext]_vaultVars PROVE VaultTypeOK'
    OBVIOUS
  <2> USE VaultAssumption DEF VaultTypeOK, Screens
  <2>0. NoSetup.next = "nothing" /\ NoSetup \in Setups \cup {NoSetup}
        /\ NoKey \in Key \cup {NoKey}
    BY DEF NoSetup
  <2>1. CASE Restart \/ SetupFails
    BY <2>0, <2>1 DEF Restart, SetupFails
  <2>2. CASE ChooseMode
    BY <2>2 DEF ChooseMode
  <2>3. ASSUME NEW p \in Passwords, SetupMasterPassword(p) PROVE VaultTypeOK'
    <3> DEFINE k == [salt |-> salts + 1, password |-> p]
               u == [next |-> "save salt", key |-> k]
    <3>1. salts < MaxSalts /\ salts \in 0..MaxSalts
      BY <2>3, Zenon DEF SetupMasterPassword
    <3>2. salts + 1 \in 0..MaxSalts /\ salts + 1 \in 1..MaxSalts
      BY ONLY <3>1, VaultAssumption
    <3>3. u \in Setups \cup {NoSetup}
      BY <3>2 DEF Setups, Key
    <3>4. /\ salts' = salts + 1 /\ setup' = u
          /\ UNCHANGED <<salt, test, key, screen, used>>
      BY <2>3 DEF SetupMasterPassword
    <3> HIDE DEF u
    <3> QED BY <3>2, <3>3, <3>4
  <2>4. CASE SaveSalt
    <3>1. setup \in Setups /\ setup.key \in Key
      BY <2>4, SetupType DEF SaveSalt
    <3>2. setup' \in Setups /\ salt' \in 0..MaxSalts
      BY <2>4, <3>1, SetupType, KeyType DEF SaveSalt
    <3> QED BY <2>4, <3>2 DEF SaveSalt
  <2>5. CASE SaveTest
    <3>1. setup \in Setups /\ setup.key \in Key
      BY <2>5, SetupType DEF SaveTest
    <3>2. setup' \in Setups /\ test' \in Key
      BY <2>5, <3>1, SetupType DEF SaveTest
    <3> QED BY <2>5, <3>2 DEF SaveTest
  <2>6. CASE KeepKey
    <3>1. setup.key \in Key
      BY <2>6, SetupType DEF KeepKey
    <3> QED BY <2>0, <2>6, <3>1 DEF KeepKey
  <2>7. ASSUME NEW p \in Passwords, UnlockVault(p) PROVE VaultTypeOK'
    <3> DEFINE u == [next |-> "verify", key |-> [salt |-> salt, password |-> p]]
    <3>1. salt # 0 /\ salt \in 0..MaxSalts
      BY <2>7, Zenon DEF UnlockVault
    <3>2. salt \in 1..MaxSalts
      BY ONLY <3>1, VaultAssumption
    <3>3. u \in Setups \cup {NoSetup}
      BY <3>2 DEF Setups, Key
    <3>4. setup' = u /\ UNCHANGED <<salt, test, key, screen, used, salts>>
      BY <2>7 DEF UnlockVault
    <3> HIDE DEF u
    <3> QED BY <3>3, <3>4
  <2>8. CASE Verify
    <3>1. setup.next = "verify" /\ setup' \in {[setup EXCEPT !.next = "keep key"], NoSetup}
      BY <2>8 DEF Verify
    <3>2. [setup EXCEPT !.next = "keep key"] \in Setups
      BY <3>1, SetupType
    <3> QED BY <2>0, <2>8, <3>1, <3>2 DEF Verify
  <2>9. CASE UNCHANGED vaultVars
    BY <2>9 DEF vaultVars
  <2> QED
    BY <2>1, <2>2, <2>3, <2>4, <2>5, <2>6, <2>7, <2>8, <2>9 DEF VaultNext
<1> QED
  BY <1>1, <1>2, PTL DEF VaultSpec

(* A key that secrets may have been encrypted with can be had again by its  *)
(* password wherever SetupMasterPassword and UnlockVault were cut short, as *)
(* long as a setting that was saved can be read.                            *)
THEOREM UsedKeysStayRecoverable ==
  ASSUME ~ReadsFail
  PROVE  VaultSpec => []UsedKeysAreRecoverable
<1>1. VaultInit => VaultInv
  BY VaultAssumption
     DEF VaultInit, VaultInv, VaultTypeOK, UsedKeysAreRecoverable, NoSetup, NoKey, Screens
<1>2. VaultInv /\ [VaultNext]_vaultVars => VaultInv'
  BY VaultInvStep
<1>3. VaultInv => UsedKeysAreRecoverable
  BY DEF VaultInv
<1> QED
  BY <1>1, <1>2, <1>3, PTL DEF VaultSpec

-----------------------------------------------------------------------------
(* Account sessions *)

(* Every state of the account's tokens is well typed, however the calls     *)
(* interleave.                                                              *)
THEOREM AccountTypeCorrect == AccountSpec => []AccountTypeOK
<1>1. AccountInit => AccountTypeOK
  BY DEF AccountInit, AccountTypeOK, LoggedOut, Account, SomeUser
<1>2. AccountTypeOK /\ [AccountNext]_accountVars => AccountTypeOK'
  <2> SUFFICES ASSUME AccountTypeOK, [AccountNext]_accountVars
               PROVE  AccountTypeOK'
    OBVIOUS
  <2> USE DEF AccountTypeOK
  <2>0. /\ LoggedOut \in Account /\ Nobody \in SomeUser
        /\ \A u \in Users : u \in SomeUser
        /\ state.refresh \in SomeUser
    BY DEF LoggedOut, Account, SomeUser
  <2>1. CASE RestartApp
    BY <2>1 DEF RestartApp
  <2>2. ASSUME NEW op \in {"login", "refresh", "logout"}, NEW u \in SomeUser,
               NEW at \in {"ask", "save"}, StartCall(op, u, at)
        PROVE  accountCalls' \in SUBSET AccountCall
    <3>1. [op |-> op, user |-> u, at |-> at, account |-> LoggedOut] \in AccountCall
      BY <2>0 DEF AccountCall
    <3> QED BY <2>2, <3>1 DEF StartCall
  <2>3. ASSUME NEW u \in Users, AccountLogin(u) PROVE AccountTypeOK'
    BY <2>0, <2>2, <2>3 DEF AccountLogin
  <2>4. ASSUME NEW c \in accountCalls, NEW a \in Account,
               TurnInto(c, {[c EXCEPT !.at = "save", !.account = a]})
        PROVE  accountCalls' \in SUBSET AccountCall
    <3>1. [c EXCEPT !.at = "save", !.account = a] \in AccountCall
      BY DEF AccountCall
    <3> QED BY <2>4, <3>1 DEF TurnInto
  <2>5. ASSUME NEW c \in accountCalls, TurnInto(c, {})
        PROVE  accountCalls' \in SUBSET AccountCall
    BY <2>5 DEF TurnInto
  <2>6. ASSUME NEW c \in accountCalls, LoginAnswered(c) PROVE AccountTypeOK'
    <3>1. [user |-> c.user, refresh |-> c.user, access |-> c.user] \in Account
      BY DEF AccountCall, Account
    <3>2. state' \in Account
      BY <2>6, <3>1 DEF LoginAnswered
    <3>3. accountCalls' \in SUBSET AccountCall
      BY <2>4, <2>5, <2>6, <3>2 DEF LoginAnswered
    <3> QED BY <2>6, <3>2, <3>3 DEF LoginAnswered
  <2>7. ASSUME NEW c \in accountCalls, SaveAccountState(c) PROVE AccountTypeOK'
    <3>1. Refresh \in AccountCall
      BY <2>0 DEF Refresh, AccountCall
    <3>2. row' \in Account
      BY <2>7 DEF SaveAccountState, AccountCall
    <3>3. accountCalls' \subseteq accountCalls \cup {Refresh}
      BY <2>7 DEF SaveAccountState, TurnInto
    <3> QED BY <2>7, <3>1, <3>2, <3>3 DEF SaveAccountState
  <2>8. CASE DoTokenRefresh
    BY <2>0, <2>2, <2>8 DEF DoTokenRefresh
  <2>9. ASSUME NEW c \in accountCalls, RefreshAnswered(c) PROVE AccountTypeOK'
    <3>1. [state EXCEPT !.access = c.user] \in Account
      BY DEF AccountCall, Account
    <3>2. state' \in Account
      BY <2>9, <3>1 DEF RefreshAnswered
    <3>3. accountCalls' \in SUBSET AccountCall
      BY <2>4, <2>5, <2>9, <3>2 DEF RefreshAnswered
    <3> QED BY <2>9, <3>2, <3>3 DEF RefreshAnswered
  <2>10. CASE AccountLogout
    BY <2>0, <2>2, <2>10 DEF AccountLogout
  <2>11. ASSUME NEW c \in accountCalls, ClearAccount(c) PROVE AccountTypeOK'
    BY <2>0, <2>5, <2>11 DEF ClearAccount
  <2>12. CASE UNCHANGED accountVars
    BY <2>12 DEF accountVars
  <2> QED
    BY <2>1, <2>3, <2>6, <2>7, <2>8, <2>9, <2>10, <2>11, <2>12
    DEF AccountNext, LoopTicks
<1> QED
  BY <1>1, <1>2, PTL DEF AccountSpec

-----------------------------------------------------------------------------
(* The three together *)

(* Whichever of the three a behaviour is about, the others stand still.     *)
THEOREM AccountPartsBehave == WholeSpec => Spec /\ VaultSpec /\ AccountSpec
<1>1. WholeInit => Init /\ VaultInit /\ AccountInit
  BY DEF WholeInit
<1>2. [WholeNext]_<<vars, vaultVars, accountVars>> =>
        [Next]_vars /\ [VaultNext]_vaultVars /\ [AccountNext]_accountVars
  BY DEF WholeNext
<1> QED
  BY <1>1, <1>2, PTL DEF WholeSpec, Spec, VaultSpec, AccountSpec

(* Every state of the three is well typed, for any devices, items, calls,   *)
(* passwords and users.                                                     *)
THEOREM WholeTypeCorrect == WholeSpec => []WholeTypeOK
<1>1. TypeOK /\ VaultTypeOK /\ AccountTypeOK => WholeTypeOK
  BY DEF WholeTypeOK
<1> QED
  BY <1>1, AccountPartsBehave, TypeCorrect, VaultTypeCorrect, AccountTypeCorrect, PTL

(* What the run of the account checks on two devices, one item and two      *)
(* passwords holds of any number, under the same choices: calls that do not *)
(* overlap and are not cut short among their last statements, and settings  *)
(* that can be read.                                                        *)
THEOREM WholeSafe ==
  ASSUME Orderly, ~ReadsFail
  PROVE  WholeSpec => /\ []SettledDevicesHoldTheBlob
                      /\ OnlyUsersDelete
                      /\ []UsedKeysAreRecoverable
BY AccountPartsBehave, SettledHoldTheBlob, OnlyUsersTakeAway,
   UsedKeysStayRecoverable, PTL
=============================================================================
