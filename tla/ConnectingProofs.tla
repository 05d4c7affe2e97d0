-------------------------- MODULE ConnectingProofs ---------------------------
(***************************************************************************)
(* Proofs about connecting, for any calls, keys, hosts and fingerprints:   *)
(* about the calls alone (ConnectAttempts), about the host keys alone      *)
(* (HostKeyTrust), and about their composition (Connecting), for which     *)
(* what is proved of each part still holds.                                *)
(***************************************************************************)
EXTENDS Connecting, TLAPS

(* The state holds what it is declared to hold; a requested cancel has      *)
(* happened.                                                                *)
THEOREM TypeCorrect == Spec => []TypeOK
<1>1. Init => TypeOK
  BY DEF Init, TypeOK
<1>2. TypeOK /\ [Next]_vars => TypeOK'
  <2> SUFFICES ASSUME TypeOK, [Next]_vars
               PROVE  TypeOK'
    OBVIOUS
  <2> USE KeyAssumption DEF TypeOK, ClientSteps
  <2>1. ASSUME NEW a \in Attempts, Begin(a)
        PROVE  TypeOK'
    BY <2>1 DEF Begin, Go
  <2>2. ASSUME NEW a \in Attempts, CallSteps(a)
        PROVE  TypeOK'
    <3>1. CASE HaveJumpClient(a) \/ CheckJump(a) \/ JumpReaches(a) \/ HaveClient(a)
      BY <3>1 DEF HaveJumpClient, CheckJump, JumpReaches, HaveClient, Go
    <3>2. CASE DialFails(a) \/ CheckContext(a) \/ Settle(a)
      BY <3>2 DEF DialFails, CheckContext, Settle, Go
    <3>3. CASE DeferredCancel(a) \/ ClearConnectAttempt(a)
      BY <3>3 DEF DeferredCancel, ClearConnectAttempt, Go
    <3> QED
      BY <2>2, <3>1, <3>2, <3>3 DEF CallSteps
  <2>3. ASSUME NEW k \in Keys, CancelConnect(k)
        PROVE  TypeOK'
    BY <2>3 DEF CancelConnect
  <2>4. CASE UNCHANGED vars
    BY <2>4 DEF vars
  <2> QED
    BY <2>1, <2>2, <2>3, <2>4 DEF Next
<1> QED
  BY <1>1, <1>2, PTL DEF Spec

(* A key never keeps the cancel function of a finished call, although calls *)
(* delete the key blindly: by the time a call ends, what it deletes is its  *)
(* own function or that of a call that came later.                          *)
THEOREM StoredAreLive == Spec => []StoredCancelsAreLive
<1>1. Init => StoredCancelsAreLive
  BY DEF Init, StoredCancelsAreLive
<1>2. TypeOK /\ StoredCancelsAreLive /\ [Next]_vars => StoredCancelsAreLive'
  <2> SUFFICES ASSUME TypeOK, StoredCancelsAreLive, [Next]_vars
               PROVE  StoredCancelsAreLive'
    OBVIOUS
  <2> USE KeyAssumption DEF TypeOK, StoredCancelsAreLive, InFlight
  <2>1. ASSUME NEW a \in Attempts, Begin(a)
        PROVE  StoredCancelsAreLive'
    BY <2>1 DEF Begin, Go
  <2>2. ASSUME NEW a \in Attempts,
               \/ HaveJumpClient(a) \/ CheckJump(a) \/ JumpReaches(a)
               \/ HaveClient(a) \/ DialFails(a) \/ CheckContext(a)
               \/ Settle(a) \/ DeferredCancel(a)
        PROVE  StoredCancelsAreLive'
    <3>1. /\ connectAttempts' = connectAttempts
          /\ \E to : /\ to \notin {"idle", "done"}
                     /\ step' = [step EXCEPT ![a] = to]
      BY <2>2 DEF HaveJumpClient, CheckJump, JumpReaches, HaveClient, DialFails,
         CheckContext, Settle, DeferredCancel, Go
    <3> QED
      BY <3>1
  <2>3. ASSUME NEW a \in Attempts, ClearConnectAttempt(a)
        PROVE  StoredCancelsAreLive'
    BY <2>3 DEF ClearConnectAttempt, Go
  <2>4. ASSUME NEW k \in Keys, CancelConnect(k)
        PROVE  StoredCancelsAreLive'
    BY <2>4 DEF CancelConnect
  <2>5. CASE UNCHANGED vars
    BY <2>5 DEF vars
  <2> QED
    BY <2>1, <2>2, <2>3, <2>4, <2>5 DEF Next, CallSteps
<1> QED
  BY <1>1, <1>2, TypeCorrect, PTL DEF Spec

-----------------------------------------------------------------------------

(* CanceledDialsYieldNoSession is not inductive: a requested call must be   *)
(* known to stop at the look at its context, before anything is settled.    *)
RequestedInv ==
  \A a \in requested :
    step[a] \in ClientSteps \/ outcome[a] = "error"

SettlingInv ==
  \A a \in Attempts :
    step[a] \in ClientSteps \cup {"idle", "settling"} => outcome[a] = None

(* The user's cancel wins over the handshake.                               *)
THEOREM CancelWins == Spec => []CanceledDialsYieldNoSession
<1> DEFINE Inv == RequestedInv /\ SettlingInv
<1>1. Init => Inv
  BY DEF Init, RequestedInv, SettlingInv
<1>2. TypeOK /\ Inv /\ [Next]_vars => Inv'
  <2> SUFFICES ASSUME TypeOK, RequestedInv, SettlingInv, [Next]_vars
               PROVE  RequestedInv' /\ SettlingInv'
    OBVIOUS
  <2> USE KeyAssumption DEF TypeOK, RequestedInv, SettlingInv, ClientSteps
  <2>1. ASSUME NEW a \in Attempts, Begin(a)
        PROVE  RequestedInv' /\ SettlingInv'
    BY <2>1 DEF Begin, Go
  <2>2. ASSUME NEW a \in Attempts,
               HaveJumpClient(a) \/ JumpReaches(a) \/ HaveClient(a) \/ DialFails(a)
        PROVE  RequestedInv' /\ SettlingInv'
    BY <2>2 DEF HaveJumpClient, JumpReaches, HaveClient, DialFails, Go
  <2>3. ASSUME NEW a \in Attempts, CheckJump(a) \/ CheckContext(a)
        PROVE  RequestedInv' /\ SettlingInv'
    BY <2>3 DEF CheckJump, CheckContext, Go
  <2>4. ASSUME NEW a \in Attempts, Settle(a)
        PROVE  RequestedInv' /\ SettlingInv'
    <3>1. a \notin requested
      BY <2>4 DEF Settle, Go
    <3> QED
      BY <2>4, <3>1 DEF Settle, Go
  <2>5. ASSUME NEW a \in Attempts, DeferredCancel(a) \/ ClearConnectAttempt(a)
        PROVE  RequestedInv' /\ SettlingInv'
    BY <2>5 DEF DeferredCancel, ClearConnectAttempt, Go
  <2>6. ASSUME NEW k \in Keys, CancelConnect(k)
        PROVE  RequestedInv' /\ SettlingInv'
    BY <2>6 DEF CancelConnect
  <2>7. CASE UNCHANGED vars
    BY <2>7 DEF vars
  <2> QED
    BY <2>1, <2>2, <2>3, <2>4, <2>5, <2>6, <2>7 DEF Next, CallSteps
<1>3. TypeOK /\ Inv => CanceledDialsYieldNoSession
  BY KeyAssumption DEF TypeOK, RequestedInv, SettlingInv, ClientSteps,
     CanceledDialsYieldNoSession
<1> QED
  BY <1>1, <1>2, <1>3, TypeCorrect, PTL DEF Spec

(* No attempt is aborted by another attempt beginning or ending.            *)
THEOREM AttemptsDoNotInterfere == Spec => AttemptsEndAlone
<1>1. TypeOK /\ [Next]_vars => [\A a \in canceled' \ canceled :
              step'[a] = "clearing" \/ step' = step]_vars
  <2> SUFFICES ASSUME TypeOK, Next, NEW b \in canceled' \ canceled
               PROVE  step'[b] = "clearing" \/ step' = step
    OBVIOUS
  <2> USE DEF TypeOK, Go
  <2>1. ASSUME NEW a \in Attempts, Begin(a)
        PROVE  canceled' = canceled
    BY <2>1 DEF Begin
  <2>2. ASSUME NEW a \in Attempts,
               \/ HaveJumpClient(a) \/ CheckJump(a) \/ JumpReaches(a)
               \/ HaveClient(a) \/ DialFails(a) \/ CheckContext(a)
               \/ Settle(a) \/ ClearConnectAttempt(a)
        PROVE  canceled' = canceled
    BY <2>2 DEF HaveJumpClient, CheckJump, JumpReaches, HaveClient, DialFails,
       CheckContext, Settle, ClearConnectAttempt
  <2>3. ASSUME NEW a \in Attempts, DeferredCancel(a)
        PROVE  step'[b] = "clearing"
    BY <2>3 DEF DeferredCancel
  <2>4. ASSUME NEW k \in Keys, CancelConnect(k)
        PROVE  step' = step
    BY <2>4 DEF CancelConnect
  <2> QED
    BY <2>1, <2>2, <2>3, <2>4 DEF Next, CallSteps
<1> QED
  BY <1>1, TypeCorrect, PTL DEF Spec, AttemptsEndAlone

-----------------------------------------------------------------------------

(* The three safety properties of the host keys support each other: an      *)
(* answer stays with its host because the channel it is sent on does, and   *)
(* trust was granted because the answer that granted it was given for that  *)
(* host.                                                                    *)

(* The state holds what it is declared to hold.                             *)
LEMMA TrustTypeStep == TrustTypeOK /\ [TrustNext]_trustVars => TrustTypeOK'
<1> SUFFICES ASSUME TrustTypeOK, [TrustNext]_trustVars
             PROVE  TrustTypeOK'
  OBVIOUS
<1> USE HostAssumption DEF TrustTypeOK, CallbackGoes
<1>1. ASSUME NEW a \in Handshakes, NEW f \in Prints, CheckKnownHost(a, f)
      PROVE  TrustTypeOK'
  BY <1>1 DEF CheckKnownHost
<1>2. ASSUME NEW a \in Handshakes, Publish(a)
      PROVE  TrustTypeOK'
  BY <1>2 DEF Publish
<1>3. ASSUME NEW a \in Handshakes, TakeAnswer(a)
      PROVE  TrustTypeOK'
  BY <1>3 DEF TakeAnswer
<1>4. ASSUME NEW a \in Handshakes, Record(a) \/ GiveUp(a)
      PROVE  TrustTypeOK'
  BY <1>4 DEF Record, GiveUp
<1>5. ASSUME NEW a \in Handshakes, Leave(a)
      PROVE  TrustTypeOK'
  BY <1>5 DEF Leave
<1>6. ASSUME NEW a \in Handshakes, ShowPrompt(a)
      PROVE  TrustTypeOK'
  BY <1>6 DEF ShowPrompt
<1>7. ASSUME NEW approved \in BOOLEAN, Click(approved)
      PROVE  TrustTypeOK'
  BY <1>7 DEF Click, Answer
<1>8. ASSUME NEW n \in answers, AnswerLoads(n)
      PROVE  TrustTypeOK'
  BY <1>8 DEF AnswerLoads, Answer
<1>9. ASSUME NEW n \in answers, AnswerSends(n)
      PROVE  TrustTypeOK'
  BY <1>9 DEF AnswerSends, Answer
<1>10. CASE UNCHANGED trustVars
  BY <1>10 DEF trustVars
<1> QED
  BY <1>1, <1>2, <1>3, <1>4, <1>5, <1>6, <1>7, <1>8, <1>9, <1>10 DEF TrustNext, CallbackStep

(* The state of the host key prompts is well typed.                         *)
THEOREM TrustTypeCorrect == TrustSpec => []TrustTypeOK
<1>1. TrustInit => TrustTypeOK
  BY DEF TrustInit, TrustTypeOK
<1> QED
  BY <1>1, TrustTypeStep, PTL DEF TrustSpec

-----------------------------------------------------------------------------

(* A published channel belongs to a callback that has not returned: the     *)
(* deferred delete of the last callback to publish finds its channel,      *)
(* and one that deletes the channel of another one harms only that one.     *)
LEMMA PublishedStep ==
  TrustTypeOK /\ PublishedChannelsAreAwaited /\ [TrustNext]_trustVars => PublishedChannelsAreAwaited'
<1> SUFFICES ASSUME TrustTypeOK, PublishedChannelsAreAwaited, [TrustNext]_trustVars
             PROVE  PublishedChannelsAreAwaited'
  OBVIOUS
<1> USE HostAssumption DEF TrustTypeOK, PublishedChannelsAreAwaited, CallbackGoes
<1>1. ASSUME NEW a \in Handshakes, NEW f \in Prints, CheckKnownHost(a, f)
      PROVE  PublishedChannelsAreAwaited'
  BY <1>1 DEF CheckKnownHost
<1>2. ASSUME NEW a \in Handshakes, Publish(a)
      PROVE  PublishedChannelsAreAwaited'
  BY <1>2 DEF Publish
<1>3. ASSUME NEW a \in Handshakes, TakeAnswer(a) \/ Record(a) \/ GiveUp(a)
      PROVE  PublishedChannelsAreAwaited'
  BY <1>3 DEF TakeAnswer, Record, GiveUp
<1>4. ASSUME NEW a \in Handshakes, Leave(a)
      PROVE  PublishedChannelsAreAwaited'
  BY <1>4 DEF Leave
<1>5. ASSUME \/ \E a \in Handshakes : ShowPrompt(a)
             \/ \E approved \in BOOLEAN : Click(approved)
             \/ \E n \in answers : AnswerLoads(n) \/ AnswerSends(n)
      PROVE  PublishedChannelsAreAwaited'
  BY <1>5 DEF ShowPrompt, Click, AnswerLoads, AnswerSends
<1>6. CASE UNCHANGED trustVars
  BY <1>6 DEF trustVars
<1> QED
  BY <1>1, <1>2, <1>3, <1>4, <1>5, <1>6 DEF TrustNext, CallbackStep

(* A channel on which an answer is taken is one that its check waits for.   *)
THEOREM PublishedAreAwaited == TrustSpec => []PublishedChannelsAreAwaited
<1>1. TrustInit => PublishedChannelsAreAwaited
  BY DEF TrustInit, PublishedChannelsAreAwaited
<1> QED
  BY <1>1, TrustTypeCorrect, PublishedStep, PTL DEF TrustSpec

-----------------------------------------------------------------------------

AnswerInv == AnswersStayWithTheirHost /\ TrustWasGranted

(* Every step keeps what answers and trust have in common.                  *)
LEMMA AnswerStep ==
  TrustTypeOK /\ PublishedChannelsAreAwaited /\ AnswerInv /\ [TrustNext]_trustVars => AnswerInv'
<1> SUFFICES ASSUME TrustTypeOK, PublishedChannelsAreAwaited, AnswerInv, [TrustNext]_trustVars
             PROVE  AnswerInv'
  OBVIOUS
<1> USE HostAssumption DEF TrustTypeOK, AnswerInv, AnswersStayWithTheirHost,
        TrustWasGranted, CallbackGoes
<1>1. ASSUME NEW a \in Handshakes, NEW f \in Prints, CheckKnownHost(a, f)
      PROVE  AnswerInv'
  <2>1. callback'[a] = "trusted" => known[HostOf[a]] # None
    BY <1>1 DEF CheckKnownHost
  <2> QED
    BY <1>1, <2>1 DEF CheckKnownHost
<1>2. ASSUME NEW a \in Handshakes, Publish(a) \/ GiveUp(a) \/ Leave(a) \/ ShowPrompt(a)
      PROVE  AnswerInv'
  BY <1>2 DEF Publish, GiveUp, Leave, ShowPrompt
<1>3. ASSUME NEW a \in Handshakes, TakeAnswer(a)
      PROVE  AnswerInv'
  BY <1>3 DEF TakeAnswer
<1>4. ASSUME NEW a \in Handshakes, Record(a)
      PROVE  AnswerInv'
  BY <1>4 DEF Record
<1>5. ASSUME NEW approved \in BOOLEAN, Click(approved)
      PROVE  AnswerInv'
  <2> DEFINE new == [prompt |-> shown, approved |-> approved, to |-> None]
  <2>1. /\ answers' = answers \cup {new}
        /\ \A h \in Hosts : asked[h] \subseteq asked'[h]
        /\ approved \in asked'[HostOf[shown]]
        /\ UNCHANGED <<known, callback, buffer>>
    BY <1>5 DEF Click
  <2>2. \A m \in answers' :
          /\ m.approved \in asked'[HostOf[m.prompt]]
          /\ m.to # None => HostOf[m.to] = HostOf[m.prompt]
    <3>1. \A m \in answers : HostOf[m.prompt] \in Hosts
      BY DEF Answer
    <3>2. new.approved = approved /\ new.prompt = shown /\ new.to = None
      OBVIOUS
    <3> HIDE DEF new
    <3> QED
      BY <2>1, <3>1, <3>2
  <2>3. /\ \A a \in Handshakes : buffer'[a] # None => buffer'[a] \in asked'[HostOf[a]]
        /\ \A h \in Hosts : known'[h] # None => TRUE \in asked'[h]
        /\ TrustWasGranted'
    <3> HIDE DEF new
    <3>1. \A a \in Handshakes : HostOf[a] \in Hosts
      OBVIOUS
    <3> QED
      BY <2>1, <3>1
  <2> HIDE DEF new
  <2> QED
    BY <2>2, <2>3
<1>6. ASSUME NEW n \in answers, AnswerLoads(n)
      PROVE  AnswerInv'
  <2> DEFINE a == hostKeyChannels[HostOf[n.prompt]]
  <2>1. HostOf[n.prompt] \in Hosts
    BY DEF Answer
  <2>2. a # None => HostOf[a] = HostOf[n.prompt]
    BY <2>1 DEF PublishedChannelsAreAwaited
  <2>3. /\ answers' \subseteq answers \cup {[n EXCEPT !.to = a]}
        /\ a = None => answers' \subseteq answers
        /\ UNCHANGED <<known, callback, buffer, asked>>
    BY <1>6 DEF AnswerLoads
  <2>4. LET m == [n EXCEPT !.to = a]
        IN  m.approved = n.approved /\ m.prompt = n.prompt /\ m.to = a
    BY DEF Answer
  <2> QED
    BY <2>2, <2>3, <2>4
<1>7. ASSUME NEW n \in answers, AnswerSends(n)
      PROVE  AnswerInv'
  BY <1>7 DEF AnswerSends, Answer
<1>8. CASE UNCHANGED trustVars
  BY <1>8 DEF trustVars
<1> QED
  BY <1>1, <1>2, <1>3, <1>4, <1>5, <1>6, <1>7, <1>8 DEF TrustNext, CallbackStep

(* So it holds of every state.                                              *)
LEMMA AnswerInvHolds == TrustSpec => []AnswerInv
<1>1. TrustInit => AnswerInv
  BY DEF TrustInit, AnswerInv, AnswersStayWithTheirHost, TrustWasGranted
<1> QED
  BY <1>1, TrustTypeCorrect, PublishedAreAwaited, AnswerStep, PTL DEF TrustSpec

(* What the user says about one host never reaches another, and no key is   *)
(* put on record without a yes.                                             *)
THEOREM AnswersStay == TrustSpec => []AnswersStayWithTheirHost
BY AnswerInvHolds, PTL DEF AnswerInv

(* No handshake goes past the callback without a yes for its host.          *)
THEOREM TrustIsGranted == TrustSpec => []TrustWasGranted
BY AnswerInvHolds, PTL DEF AnswerInv

-----------------------------------------------------------------------------

(* Every step of the composition is one of the calls or one of the host     *)
(* keys, by the shape of the definitions: this carries the theorems about   *)
(* the two over.                                                            *)
LEMMA CallsAndKeysStep == ConnectingSpec => Spec /\ TrustSpec
<1>1. ConnectingInit => Init /\ TrustInit
  BY DEF ConnectingInit
<1>2. [ConnectingNext]_connectingVars => [Next]_vars /\ [TrustNext]_trustVars
  <2> SUFFICES ASSUME [ConnectingNext]_connectingVars
               PROVE  [Next]_vars /\ [TrustNext]_trustVars
    OBVIOUS
  <2>1. ASSUME NEW a \in Attempts,
               \/ (Begin(a) \/ JumpReaches(a)) /\ UNCHANGED trustVars
               \/ Handshake(a) \/ AfterHandshake(a)
        PROVE  Next /\ UNCHANGED trustVars
    BY <2>1 DEF Next, CallSteps, Handshake, AfterHandshake
  <2>2. ASSUME NEW h \in Handshakes, ServerKnown(h) \/ CallbackRuns(h)
        PROVE  TrustNext /\ UNCHANGED vars
    BY <2>2 DEF TrustNext, ServerKnown, CallbackRuns
  <2>3. ASSUME NEW k \in Keys, CancelConnect(k) /\ UNCHANGED trustVars
        PROVE  Next /\ UNCHANGED trustVars
    BY <2>3 DEF Next
  <2>4. ASSUME PromptAnswered
        PROVE  TrustNext /\ UNCHANGED vars
    BY <2>4 DEF TrustNext, PromptAnswered
  <2>5. CASE UNCHANGED connectingVars
    BY <2>5 DEF connectingVars
  <2> QED
    BY <2>1, <2>2, <2>3, <2>4, <2>5 DEF ConnectingNext
<1> QED
  BY <1>1, <1>2, PTL DEF ConnectingSpec, Spec, TrustSpec

(* The composed state holds what it is declared to hold.                    *)
THEOREM ConnectingTypeCorrect == ConnectingSpec => []ConnectingTypeOK
BY CallsAndKeysStep, TypeCorrect, TrustTypeCorrect, PTL DEF ConnectingTypeOK

(* What the calls and the host keys promise alone, they promise together.   *)
THEOREM PartsKeepTheirPromises ==
  ConnectingSpec => [](/\ CanceledDialsYieldNoSession
                       /\ AnswersStayWithTheirHost
                       /\ TrustWasGranted)
BY CallsAndKeysStep, CancelWins, AnswersStay, TrustIsGranted, PTL

(* A call past a handshake that has not failed has been let past that       *)
(* host's key, and a callback never takes its nil back.                     *)
TrustedInv ==
  \A a \in Attempts :
    /\ a \in Jumping /\ step[a] \in {"jumped", "reaching", "dialing", "dialed", "settling"}
         => callback[Jump(a)] = "trusted"
    /\ step[a] = "jumping" => a \in Jumping
    /\ step[a] \in {"dialed", "settling"} => callback[Target(a)] = "trusted"
    /\ outcome[a] = "session" =>
         /\ callback[Target(a)] = "trusted"
         /\ a \in Jumping => callback[Jump(a)] = "trusted"

(* Each call has the handshakes it has.                                     *)
LEMMA HandshakesOfCalls ==
  /\ \A a \in Attempts : Target(a) \in Handshakes
  /\ \A a \in Jumping : a \in Attempts /\ Jump(a) \in Handshakes
  /\ \A a \in Attempts : \A h \in HandshakesOf(a) :
       h \in Handshakes /\ (h = Target(a) \/ (a \in Jumping /\ h = Jump(a)))
BY JumpAssumption DEF Handshakes, HandshakesOf, Jump, Target

(* No session without trust, however calls, prompts and answers interleave. *)
THEOREM SessionsTrusted == ConnectingSpec => []SessionsWereTrusted
<1>1. ConnectingInit => TrustedInv
  BY KeyAssumption DEF ConnectingInit, Init, TrustedInv
<1>2. ConnectingTypeOK /\ TrustedInv /\ [ConnectingNext]_connectingVars => TrustedInv'
  <2> SUFFICES ASSUME ConnectingTypeOK, TrustedInv, [ConnectingNext]_connectingVars
               PROVE  TrustedInv'
    OBVIOUS
  <2> USE DEF ConnectingTypeOK, TypeOK, TrustTypeOK
  <2>1. ASSUME NEW a \in Attempts,
               \/ (Begin(a) \/ JumpReaches(a)) /\ UNCHANGED trustVars
               \/ Handshake(a)
        PROVE  TrustedInv'
    <3>1. callback' = callback
      BY <2>1 DEF Handshake, trustVars
    <3>2. CASE Begin(a) \/ JumpReaches(a) \/ DialFails(a)
      BY <3>1, <3>2 DEF Begin, JumpReaches, DialFails, Go, TrustedInv
    <3>3. CASE HaveJumpClient(a) /\ callback[Jump(a)] = "trusted"
      BY <3>1, <3>3 DEF HaveJumpClient, Go, TrustedInv
    <3>4. CASE HaveClient(a) /\ callback[Target(a)] = "trusted"
      BY <3>1, <3>4 DEF HaveClient, Go, TrustedInv
    <3> QED
      BY <2>1, <3>2, <3>3, <3>4 DEF Handshake
  <2>2. ASSUME NEW a \in Attempts, AfterHandshake(a)
        PROVE  TrustedInv'
    <3>1. callback' = callback
      BY <2>2 DEF AfterHandshake, trustVars
    <3>2. CASE CheckJump(a)
      BY <3>1, <3>2 DEF CheckJump, Go, TrustedInv
    <3>3. CASE CheckContext(a) \/ Settle(a)
      BY <3>1, <3>3 DEF CheckContext, Settle, Go, TrustedInv
    <3>4. CASE DeferredCancel(a) \/ ClearConnectAttempt(a)
      BY <3>1, <3>4 DEF DeferredCancel, ClearConnectAttempt, Go, TrustedInv
    <3> QED
      BY <2>2, <3>2, <3>3, <3>4 DEF AfterHandshake
  <2>3. ASSUME NEW h \in Handshakes, ServerKnown(h) \/ CallbackRuns(h)
        PROVE  TrustedInv'
    <3>1. \A g \in Handshakes : callback[g] = "trusted" => callback'[g] = "trusted"
      BY <2>3 DEF ServerKnown, CheckKnownHost, CallbackRuns, CallbackStep, Publish,
         TakeAnswer, Record, GiveUp, Leave, CallbackGoes
    <3>2. UNCHANGED <<step, outcome>>
      BY <2>3 DEF ServerKnown, CallbackRuns, vars
    <3> QED
      BY <3>1, <3>2, HandshakesOfCalls DEF TrustedInv
  <2>4. ASSUME NEW k \in Keys, CancelConnect(k) /\ UNCHANGED trustVars
        PROVE  TrustedInv'
    BY <2>4 DEF CancelConnect, trustVars, TrustedInv
  <2>5. ASSUME PromptAnswered
        PROVE  TrustedInv'
    BY <2>5 DEF PromptAnswered, ShowPrompt, Click, AnswerLoads, AnswerSends, vars,
       TrustedInv
  <2>6. CASE UNCHANGED connectingVars
    BY <2>6 DEF connectingVars, vars, trustVars, TrustedInv
  <2> QED
    BY <2>1, <2>2, <2>3, <2>4, <2>5, <2>6 DEF ConnectingNext
<1>3. TrustedInv /\ TrustWasGranted => SessionsWereTrusted
  BY HandshakesOfCalls DEF TrustedInv, TrustWasGranted, SessionsWereTrusted
<1> QED
  BY <1>1, <1>2, <1>3, ConnectingTypeCorrect, PartsKeepTheirPromises, PTL DEF ConnectingSpec
=============================================================================
