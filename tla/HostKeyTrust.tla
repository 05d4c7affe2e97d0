---------------------------- MODULE HostKeyTrust -----------------------------
(***************************************************************************)
(* Trust on first use of SSH host keys: buildHostKeyCallback               *)
(* (ssh-gui/app_terminal.go 56-98), approveHostKeyChannel (app.go 321-325),*)
(* the known_hosts table, and the one prompt the user interface shows      *)
(* (App.jsx 524-529, 1725-1759).  The callback parks a handshake on a      *)
(* channel of its own, published in a sync.Map under host:port; the answer *)
(* comes back with that key only.                                          *)
(***************************************************************************)
EXTENDS ConnectCalls

CONSTANTS Hosts,     \* host:port, the channel key
          HostOf,    \* the host each handshake is with
          Prints     \* key fingerprints a host may present

ASSUME HostAssumption ==
  /\ HostOf \in [Handshakes -> Hosts]
  /\ None \notin Handshakes
  /\ None \notin Prints \cup BOOLEAN

VARIABLES
  known,            \* host -> the fingerprint in known_hosts
  callback,         \* handshake -> how far its callback has come
  offered,          \* handshake -> the fingerprint its server presented
  hostKeyChannels,  \* host -> the handshake whose channel is published
  buffer,           \* handshake -> what is in its channel (capacity 1)
  prompts,          \* host-key-verify events on their way to the interface
  shown,            \* the handshake whose prompt is on screen
  answers,          \* ApproveHostKey calls in progress
  asked             \* host -> the answers the user has given for it

trustVars == <<known, callback, offered, hostKeyChannels, buffer, prompts,
               shown, answers, asked>>

(* prompt: the handshake whose prompt was answered (its host is the key     *)
(* sent back); to: the channel loaded from the map, once it has been.       *)
Answer == [prompt: Handshakes, approved: BOOLEAN, to: Handshakes \cup {None}]

TrustInit ==
  /\ known = [h \in Hosts |-> None]
  /\ callback = [a \in Handshakes |-> "idle"]
  /\ offered = [a \in Handshakes |-> None]
  /\ hostKeyChannels = [h \in Hosts |-> None]
  /\ buffer = [a \in Handshakes |-> None]
  /\ prompts = {}
  /\ shown = None
  /\ answers = {}
  /\ asked = [h \in Hosts |-> {}]

-----------------------------------------------------------------------------

CallbackGoes(a, from, to) ==
  callback[a] = from /\ callback' = [callback EXCEPT ![a] = to]

(* Mutant of CheckKnownHost: a host seen for the first time is let through. *)
CheckKnownHost_FirstUse(a, f) ==
  /\ LET stored == known[HostOf[a]] IN
       CallbackGoes(a, "idle",
                    IF stored \in {f, None} THEN "trusted" ELSE "refused")
  /\ offered' = [offered EXCEPT ![a] = f]
  /\ UNCHANGED <<known, hostKeyChannels, buffer, prompts, shown, answers, asked>>

(* GetKnownHost, and the decision made on what it returned.                 *)
CheckKnownHost(a, f) ==
  /\ LET stored == known[HostOf[a]] IN
       CallbackGoes(a, "idle", IF stored = f THEN "trusted"
                               ELSE IF stored # None THEN "refused" ELSE "unknown")
  /\ offered' = [offered EXCEPT ![a] = f]
  /\ UNCHANGED <<known, hostKeyChannels, buffer, prompts, shown, answers, asked>>

(* hostKeyChannels.Store, then the event.                                   *)
Publish(a) ==
  /\ CallbackGoes(a, "unknown", "waiting")
  /\ hostKeyChannels' = [hostKeyChannels EXCEPT ![HostOf[a]] = a]
  /\ prompts' = prompts \cup {a}
  /\ UNCHANGED <<known, offered, buffer, shown, answers, asked>>

(* The select takes the answer from the channel.                            *)
TakeAnswer(a) ==
  /\ buffer[a] # None
  /\ CallbackGoes(a, "waiting", IF buffer[a] THEN "recording" ELSE "leaving")
  /\ buffer' = [buffer EXCEPT ![a] = None]
  /\ UNCHANGED <<known, offered, hostKeyChannels, prompts, shown, answers, asked>>

(* UpsertKnownHost; the callback returns its error, if any.                 *)
Record(a) ==
  /\ \/ /\ CallbackGoes(a, "recording", "approved")
        /\ known' = [known EXCEPT ![HostOf[a]] = offered[a]]
     \/ CallbackGoes(a, "recording", "leaving") /\ UNCHANGED known
  /\ UNCHANGED <<offered, hostKeyChannels, buffer, prompts, shown, answers, asked>>

(* time.After(90s), or the context of the call is cancelled.                *)
GiveUp(a) ==
  /\ CallbackGoes(a, "waiting", "leaving")
  /\ UNCHANGED <<known, offered, hostKeyChannels, buffer, prompts, shown, answers, asked>>

(* The deferred hostKeyChannels.Delete: by key, whatever is there.          *)
Leave(a) ==
  /\ \/ CallbackGoes(a, "approved", "trusted")
     \/ CallbackGoes(a, "leaving", "refused")
  /\ hostKeyChannels' = [hostKeyChannels EXCEPT ![HostOf[a]] = None]
  /\ UNCHANGED <<known, offered, buffer, prompts, shown, answers, asked>>

(* setHostKeyPrompt: the latest event replaces the prompt on screen.        *)
ShowPrompt(a) ==
  /\ a \in prompts
  /\ prompts' = prompts \ {a}
  /\ shown' = a
  /\ UNCHANGED <<known, callback, offered, hostKeyChannels, buffer, answers, asked>>

(* A button of the prompt, or closing it: ApproveHostKey(channelKey, ...).  *)
Click(approved) ==
  /\ shown # None
  /\ answers' = answers \cup
       {[prompt |-> shown, approved |-> approved, to |-> None]}
  /\ asked' = [asked EXCEPT ![HostOf[shown]] = @ \cup {approved}]
  /\ shown' = None
  /\ UNCHANGED <<known, callback, offered, hostKeyChannels, buffer, prompts>>

(* approveHostKeyChannel loads the channel ...                              *)
AnswerLoads(n) ==
  /\ n \in answers /\ n.to = None
  /\ LET a == hostKeyChannels[HostOf[n.prompt]] IN
       answers' = (answers \ {n}) \cup
                    (IF a = None THEN {} ELSE {[n EXCEPT !.to = a]})
  /\ UNCHANGED <<known, callback, offered, hostKeyChannels, buffer, prompts, shown, asked>>

(* ... and sends on it, which blocks while the buffer is full.              *)
AnswerSends(n) ==
  /\ n \in answers /\ n.to # None
  /\ buffer[n.to] = None
  /\ buffer' = [buffer EXCEPT ![n.to] = n.approved]
  /\ answers' = answers \ {n}
  /\ UNCHANGED <<known, callback, offered, hostKeyChannels, prompts, shown, asked>>

CallbackStep(a) ==
  \/ Publish(a)
  \/ TakeAnswer(a)
  \/ Record(a)
  \/ GiveUp(a)
  \/ Leave(a)

TrustNext ==
  \/ \E a \in Handshakes, f \in Prints : CheckKnownHost(a, f)
  \/ \E a \in Handshakes : CallbackStep(a) \/ ShowPrompt(a)
  \/ \E approved \in BOOLEAN : Click(approved)
  \/ \E n \in answers : AnswerLoads(n) \/ AnswerSends(n)

TrustSpec == TrustInit /\ [][TrustNext]_trustVars

-----------------------------------------------------------------------------

TrustTypeOK ==
  /\ known \in [Hosts -> Prints \cup {None}]
  /\ callback \in [Handshakes -> {"idle", "unknown", "waiting", "recording",
                            "approved", "leaving", "trusted", "refused"}]
  /\ offered \in [Handshakes -> Prints \cup {None}]
  /\ hostKeyChannels \in [Hosts -> Handshakes \cup {None}]
  /\ buffer \in [Handshakes -> BOOLEAN \cup {None}]
  /\ prompts \in SUBSET Handshakes
  /\ shown \in Handshakes \cup {None}
  /\ answers \in SUBSET Answer
  /\ asked \in [Hosts -> SUBSET BOOLEAN]

(* An answer stays with its host: what is in a handshake's channel, or on   *)
(* its way there, was said by the user about the host of that handshake,    *)
(* and a host key is on record only after a yes for that host, however many *)
(* prompts, calls and late answers are in flight.                           *)
AnswersStayWithTheirHost ==
  /\ \A a \in Handshakes : buffer[a] # None => buffer[a] \in asked[HostOf[a]]
  /\ \A n \in answers :
       /\ n.approved \in asked[HostOf[n.prompt]]
       /\ n.to # None => HostOf[n.to] = HostOf[n.prompt]
  /\ \A h \in Hosts : known[h] # None => TRUE \in asked[h]

(* The map never leads an answer to a channel nobody will read: a published *)
(* channel belongs to a callback that has not returned.                     *)
PublishedChannelsAreAwaited ==
  \A h \in Hosts :
    LET a == hostKeyChannels[h] IN
    a # None => /\ HostOf[a] = h
                /\ callback[a] \in {"waiting", "recording", "approved", "leaving"}

(* Nobody is trusted unasked: a handshake goes past the callback only with  *)
(* a host for which the user said yes, be it in this handshake's prompt or  *)
(* in an earlier one whose key was put on record; one that was refused or   *)
(* that timed out does not become trusted by an answer that comes late.     *)
TrustWasGranted ==
  \A a \in Handshakes :
    callback[a] \in {"recording", "approved", "trusted"} => TRUE \in asked[HostOf[a]]
=============================================================================
