------------------------------ MODULE RdpInput -------------------------------
(***************************************************************************)
(* Keys on their way from the RDP view to the server:                      *)
(* frontend/src/components/rdp/rdpInput.js and ssh-gui/app_rdp_input.go.   *)
(* The view turns keys into inputs, queues them, and sends batches one     *)
(* after the other; the backend remembers what it pressed so that losing   *)
(* the focus can release it.  Mouse buttons go the same way; moves and the *)
(* wheel press nothing and are left out.                                   *)
(***************************************************************************)
EXTENDS Naturals, Sequences
LOCAL INSTANCE SequencesExt

CONSTANTS Keys,       \* keys of the keyboard
          Inputs,     \* Unicode characters, scan codes and buttons
          InputsOf,   \* key -> the arrays of inputs it may stand for
          MaxQueued   \* bound on what waits between keyboard and server

ASSUME InputAssumption ==
  /\ InputsOf \in [Keys -> SUBSET (Seq(Inputs) \ {<<>>})]
  /\ MaxQueued \in Nat

VARIABLES
  held,     \* the view's pressed: key -> its inputs, <<>> when it is up
  queue,    \* the view: events since the last flush
  batches,  \* SendRDPInput calls chained one after the other
  batch,    \* the events the current call has still to process
  pressed,  \* rdpSession.pressed
  down,     \* what the server takes for pressed
  broken    \* do sends fail?

inputVars == <<held, queue, batches, batch, pressed, down, broken>>

Press(i) == [input |-> i, down |-> TRUE]
Unpress(i) == [input |-> i, down |-> FALSE]
ReleaseAll == [down |-> FALSE]

Event == [input: Inputs, down: BOOLEAN] \cup {ReleaseAll}

InputInit ==
  /\ held = [k \in Keys |-> <<>>]
  /\ queue = <<>>
  /\ batches = <<>>
  /\ batch = <<>>
  /\ pressed = {}
  /\ down = {}
  /\ broken = FALSE

Queued == Len(queue) + Len(FlattenSeq(batches)) + Len(batch)

-----------------------------------------------------------------------------
(* The view *)

(* keydown: a key that is held keeps its inputs (auto-repeat).              *)
KeyDown(k) ==
  /\ Queued < MaxQueued
  /\ \E is \in IF held[k] = <<>> THEN InputsOf[k] ELSE {held[k]} :
       /\ held' = [held EXCEPT ![k] = is]
       /\ queue' = queue \o [n \in 1..Len(is) |-> Press(is[n])]
  /\ UNCHANGED <<batches, batch, pressed, down, broken>>

KeyUp(k) ==
  /\ held[k] # <<>>
  /\ held' = [held EXCEPT ![k] = <<>>]
  /\ queue' = queue \o [n \in 1..Len(held[k]) |-> Unpress(held[k][n])]
  /\ UNCHANGED <<batches, batch, pressed, down, broken>>

(* The focus is lost, or the tab is left: release, and flush.               *)
Blur ==
  /\ Queued < MaxQueued
  /\ held' = [k \in Keys |-> <<>>]
  /\ batches' = Append(batches, Append(queue, ReleaseAll))
  /\ queue' = <<>>
  /\ UNCHANGED <<batch, pressed, down, broken>>

(* An animation frame.                                                      *)
Flush ==
  /\ queue # <<>>
  /\ batches' = Append(batches, queue)
  /\ queue' = <<>>
  /\ UNCHANGED <<held, batch, pressed, down, broken>>

-----------------------------------------------------------------------------
(* SendRDPInput *)

(* The previous promise has settled.                                        *)
SendBatch ==
  /\ batch = <<>> /\ batches # <<>>
  /\ batch' = Head(batches)
  /\ batches' = Tail(batches)
  /\ UNCHANGED <<held, queue, pressed, down, broken>>

(* SendKeyboard and SendUnicode reach the server unless the connection is   *)
(* broken; then the call fails, the rest of its batch is dropped, and the   *)
(* view closes the session.                                                 *)
Apply(i, isDown) ==
  /\ pressed' = IF isDown THEN pressed \cup {i} ELSE pressed \ {i}
  /\ down' = IF broken THEN down ELSE IF isDown THEN down \cup {i} ELSE down \ {i}

ProcessKey ==
  /\ batch # <<>> /\ Head(batch) # ReleaseAll
  /\ Apply(Head(batch).input, Head(batch).down)
  /\ batch' = IF broken THEN <<>> ELSE Tail(batch)
  /\ UNCHANGED <<held, queue, batches, broken>>

(* Mutant of ProcessRelease: it ends with the first input.                  *)
ProcessRelease_First ==
  /\ batch # <<>> /\ Head(batch) = ReleaseAll
  /\ IF pressed = {} THEN UNCHANGED <<pressed, down>>
                     ELSE \E i \in pressed : Apply(i, FALSE)
  /\ batch' = IF broken THEN <<>> ELSE Tail(batch)
  /\ UNCHANGED <<held, queue, batches, broken>>

(* "release": every pressed input goes up, in the order of a Go map.        *)
ProcessRelease ==
  /\ batch # <<>> /\ Head(batch) = ReleaseAll
  /\ IF pressed = {}
     THEN batch' = Tail(batch) /\ UNCHANGED <<pressed, down>>
     ELSE /\ \E i \in pressed : Apply(i, FALSE)
          /\ batch' = IF broken THEN <<>> ELSE batch
  /\ UNCHANGED <<held, queue, batches, broken>>

Break ==
  /\ ~broken
  /\ broken' = TRUE
  /\ UNCHANGED <<held, queue, batches, batch, pressed, down>>

InputNext ==
  \/ \E k \in Keys : KeyDown(k) \/ KeyUp(k)
  \/ Blur
  \/ Flush
  \/ SendBatch
  \/ ProcessKey
  \/ ProcessRelease
  \/ Break

InputSpec == InputInit /\ [][InputNext]_inputVars

-----------------------------------------------------------------------------

InputTypeOK ==
  /\ held \in [Keys -> Seq(Inputs)]
  /\ queue \in Seq(Event)
  /\ batches \in Seq(Seq(Event))
  /\ batch \in Seq(Event)
  /\ pressed \in SUBSET Inputs
  /\ down \in SUBSET Inputs
  /\ broken \in BOOLEAN

(* A key that is held stands for input i.                                   *)
Holds(i) == \E k \in Keys : \E n \in 1..Len(held[k]) : held[k][n] = i

(* No key sticks on the remote desktop: when nothing is on its way any      *)
(* more, the server takes for pressed only what a key held right now stands *)
(* for; in particular nothing, after the focus was lost.  Until then, what  *)
(* it takes for pressed is on the list that a release goes through.         *)
NoKeySticks ==
  ~broken =>
    /\ down \subseteq pressed
    /\ queue = <<>> /\ batches = <<>> /\ batch = <<>> =>
         \A i \in down : Holds(i)
=============================================================================
