--------------------------- MODULE InterfaceProofs ---------------------------
(***************************************************************************)
(* What holds of the parts of the screen that wait for answers, for any    *)
(* number of sessions, files, containers and calls on their way: each part *)
(* by itself, and all of them as MCInterface puts them together.           *)
(***************************************************************************)
EXTENDS MCInterface, TLAPS

(* The views *)

(* What a view knows of the calls without an answer: none is newer than the *)
(* view itself, and one that the view would still take is the latest one    *)
(* there is and, but for the tunnels, about what the view is on.            *)
Expected(q) ==
  IF hook = "tunnels" THEN q.request = request ELSE q.effect = effect

ViewOf(q) ==
  /\ q.effect <= effect /\ q.request <= request
  /\ Expected(q) => q.question = asked
  /\ Expected(q) /\ hook # "tunnels" => q.of = about
  /\ hook # "tunnels" => q.request = request
  /\ hook \in Polls /\ Expected(q) => ~timer

ViewsInv ==
  /\ hook \in Hooks
  /\ about \in Hosts \cup {None}
  /\ asked \in Nat /\ effect \in Nat /\ request \in Nat
  /\ waiting \subseteq [of: Hosts, question: Nat, effect: Nat, request: Nat]
  /\ changes \subseteq Hosts
  /\ shown # None => shown.of \in Hosts
  /\ \A q \in waiting : ViewOf(q)

(* Where each effect asks once at a time, one answer at most is expected.   *)
LEMMA ExpectedIsOne ==
  ASSUME ViewsInv, hook # "tunnels", NEW q \in waiting, NEW r \in waiting,
         Expected(q), Expected(r)
  PROVE  q = r
<1> DEFINE AnyQuestion == [of: Hosts, question: Nat, effect: Nat, request: Nat]
<1>1. q \in AnyQuestion /\ r \in AnyQuestion
  BY DEF ViewsInv
<1>2. \A x, y \in AnyQuestion :
        /\ x.of = y.of /\ x.question = y.question
        /\ x.effect = y.effect /\ x.request = y.request
        => x = y
  OBVIOUS
<1>3. /\ q.of = r.of /\ q.question = r.question
      /\ q.effect = r.effect /\ q.request = r.request
  BY DEF ViewsInv, ViewOf, Expected
<1> QED
  BY <1>1, <1>2, <1>3

(* A view that is turned to another subject expects no old answer.          *)
LEMMA RerunStep ==
  ASSUME ViewsInv, NEW s \in Hosts \cup {None}, Rerun(s),
         \/ hook = "tunnels" /\ request' = request + 2
         \/ hook # "tunnels" /\ request' = request
  PROVE  ViewsInv'
<1> DEFINE New == [of |-> s, question |-> asked + 1,
                   effect |-> effect + 1, request |-> request']
<1>1. /\ about' = s /\ effect' = effect + 1 /\ ~timer' /\ hook' = hook
      /\ request' \in Nat /\ request <= request' /\ changes' = changes
      /\ shown' = None
  BY DEF Rerun, ViewsInv
<1>2. CASE s = None
  BY <1>1, <1>2 DEF Rerun, AskAbout, ViewsInv, ViewOf, Expected
<1>3. CASE s # None
  <2>1. waiting' = waiting \cup {New} /\ asked' = asked + 1
    BY <1>1, <1>3 DEF Rerun, AskAbout
  <2>2. New \in [of: Hosts, question: Nat, effect: Nat, request: Nat]
    BY <1>1, <1>3 DEF ViewsInv
  <2>3. \A q : q = New => ViewOf(q)'
    <3>1. /\ New.of = s /\ New.question = asked + 1
          /\ New.effect = effect + 1 /\ New.request = request'
      OBVIOUS
    <3> HIDE DEF New
    <3>2. /\ New.effect <= effect' /\ New.request <= request'
          /\ New.of = about' /\ New.question = asked'
          /\ New.request = request' /\ ~timer'
      BY <1>1, <2>1, <3>1 DEF ViewsInv
    <3> QED
      BY <3>2 DEF ViewOf, Expected
  <2>4. \A q \in waiting : ViewOf(q)'
    BY <1>1, <2>1 DEF ViewOf, Expected, ViewsInv
  <2> QED
    BY <1>1, <2>1, <2>2, <2>3, <2>4 DEF ViewsInv
<1> QED
  BY <1>2, <1>3

(* Every step of the hooks keeps their invariant.                           *)
LEMMA ViewsInvStep == ViewsInv /\ [ViewsNext]_viewVars => ViewsInv'
<1> SUFFICES ASSUME ViewsInv, [ViewsNext]_viewVars
             PROVE  ViewsInv'
  OBVIOUS
<1>1. ASSUME NEW s \in Hosts \cup {None},
             TunnelsTurn(s) \/ RuntimeTurn(s) \/ ImageTurn(s) \/ PollTurn(s)
      PROVE  ViewsInv'
  BY <1>1, RerunStep DEF TunnelsTurn, RuntimeTurn, ImageTurn, PollTurn, Polls
<1>2. ASSUME NEW q \in waiting,
             TunnelsAnswer(q) \/ RuntimeAnswer(q) \/ ImageAnswer(q) \/ PollAnswer(q)
      PROVE  ViewsInv'
  <2>1. /\ UNCHANGED <<hook, about, asked, changes, effect, request>>
        /\ waiting' = waiting \ {q}
        /\ timer' => timer \/ (hook \in Polls /\ Expected(q))
        /\ shown' = shown \/ shown'.of = q.of
    <3>1. CASE TunnelsAnswer(q) \/ RuntimeAnswer(q) \/ ImageAnswer(q)
      BY <3>1 DEF TunnelsAnswer, RuntimeAnswer, ImageAnswer, Replace
    <3>2. CASE PollAnswer(q)
      <4>1. shown' = shown \/ shown' = [of |-> q.of, question |-> q.question]
        BY <3>2 DEF PollAnswer, Replace
      <4>2. shown' = shown \/ shown'.of = q.of
        BY <4>1
      <4> QED
        BY <3>2, <4>2 DEF PollAnswer, Expected, Polls
    <3> QED
      BY <1>2, <3>1, <3>2
  <2>2. hook \in Polls /\ Expected(q) => \A r \in waiting \ {q} : ~Expected(r)
    BY ExpectedIsOne DEF Polls
  <2>3. \A r \in waiting \ {q} : ViewOf(r)'
    BY <2>1, <2>2 DEF ViewsInv, ViewOf, Expected
  <2>4. shown' # None => shown'.of \in Hosts
    BY <2>1 DEF ViewsInv
  <2> QED
    BY <2>1, <2>3, <2>4 DEF ViewsInv
<1> DEFINE New == [of |-> about, question |-> asked + 1,
                   effect |-> effect, request |-> request']
<1>3. ASSUME NEW s \in Hosts, hook = "tunnels", ReloadOf(s),
             changes' \subseteq Hosts
      PROVE  ViewsInv'
  <2> DEFINE Other == [of |-> s, question |-> asked + 1,
                       effect |-> effect, request |-> request']
  <2>1. /\ waiting' = waiting \cup {Other} /\ asked' = asked + 1
        /\ request' = request + 1
        /\ UNCHANGED <<hook, about, effect, timer, shown>>
    BY <1>3, TabsAssumption DEF ReloadOf, AskAbout
  <2>2. Other \in [of: Hosts, question: Nat, effect: Nat, request: Nat]
    BY <2>1 DEF ViewsInv
  <2>3. \A q : q = Other \/ q \in waiting => ViewOf(q)'
    BY <1>3, <2>1 DEF ViewOf, Expected, ViewsInv, Polls
  <2> QED
    BY <1>3, <2>1, <2>2, <2>3 DEF ViewsInv
<1>6. CASE TunnelsReload \/ TunnelChange \/ \E s \in changes : TunnelChanged(s)
  <2>1. CASE TunnelsReload
    BY <1>3, <2>1 DEF TunnelsReload, ViewsInv
  <2>2. CASE TunnelChange
    BY <2>2 DEF TunnelChange, ViewsInv, ViewOf, Expected
  <2>3. ASSUME NEW s \in changes, TunnelChanged(s)
        PROVE  ViewsInv'
    <3>1. s \in Hosts /\ changes' \subseteq Hosts /\ hook = "tunnels"
      BY <2>3 DEF TunnelChanged, ViewsInv
    <3>2. CASE ReloadOf(s)
      BY <1>3, <3>1, <3>2
    <3>3. CASE UNCHANGED <<hook, about, asked, waiting, effect, request, timer, shown>>
      BY <3>1, <3>3 DEF ViewsInv, ViewOf, Expected
    <3> QED
      BY <2>3, <3>2, <3>3 DEF TunnelChanged
  <2> QED
    BY <1>6, <2>1, <2>2, <2>3
<1>4. CASE PollTick
  <2>1. CASE about = None
    BY <1>4, <2>1 DEF PollTick, AskAbout, ViewsInv, ViewOf, Expected
  <2>2. CASE about # None
    <3>1. /\ waiting' = waiting \cup {New} /\ asked' = asked + 1
          /\ about \in Hosts /\ timer /\ ~timer' /\ hook \in Polls
          /\ UNCHANGED <<hook, about, changes, effect, request, shown>>
      BY <1>4, <2>2 DEF PollTick, AskAbout, ViewsInv
    <3>2. New \in [of: Hosts, question: Nat, effect: Nat, request: Nat]
      BY <3>1 DEF ViewsInv
    <3>3. /\ New.of = about /\ New.question = asked + 1
          /\ New.effect = effect /\ New.request = request'
      OBVIOUS
    <3> HIDE DEF New
    <3>4. \A q \in waiting : ViewOf(q)'
      BY <3>1 DEF ViewOf, Expected, ViewsInv, Polls
    <3>5. /\ New.effect <= effect' /\ New.request <= request'
          /\ New.of = about' /\ New.question = asked'
          /\ New.request = request'
      BY <3>1, <3>3 DEF ViewsInv
    <3>6. \A q : q = New => ViewOf(q)'
      BY <3>1, <3>5 DEF ViewOf, Expected
    <3> QED
      BY <3>1, <3>2, <3>4, <3>6 DEF ViewsInv
  <2> QED
    BY <2>1, <2>2
<1>5. CASE UNCHANGED viewVars
  BY <1>5 DEF viewVars, ViewsInv, ViewOf, Expected
<1> QED
  BY <1>1, <1>2, <1>4, <1>5, <1>6 DEF ViewsNext

(* So it holds of every state.                                              *)
LEMMA ViewsInvariant == ViewsSpec => []ViewsInv
<1>1. ViewsInit => ViewsInv
  BY DEF ViewsInit, ViewsInv
<1> QED
  BY <1>1, ViewsInvStep, PTL DEF ViewsSpec

(* A monitor has one query about its session on the way, or a timer for the *)
(* next, for any sequence of tabs and however late answers come.            *)
THEOREM PollsAreAlone == ViewsSpec => []PollsDoNotOverlap
<1>1. ViewsInv => PollsDoNotOverlap
  BY ExpectedIsOne DEF ViewsInv, ViewOf, Expected, PollsDoNotOverlap, Polls
<1> QED
  BY <1>1, ViewsInvariant, PTL

(* Each of the five views implements LatestAnswer: whichever way it tells   *)
(* late answers apart, what it shows of its subject is the latest answer.   *)
(* The list of another connection's tunnels is a turn to the same subject.  *)
THEOREM ViewsImplementLatest == ViewsSpec => ViewsShowLatestAnswers
<1>1. ViewsInit => Latest!LatestInit
  BY DEF ViewsInit, Latest!LatestInit, OnScreen
<1>2. ViewsInv /\ [ViewsNext]_viewVars => [Latest!LatestNext]_(Latest!latestVars)
  <2> SUFFICES ASSUME ViewsInv, [ViewsNext]_viewVars
               PROVE  Latest!LatestNext \/ UNCHANGED Latest!latestVars
    OBVIOUS
  <2>0. about \in Hosts \cup {None}
    BY DEF ViewsInv
  <2>1. ASSUME NEW s \in Hosts \cup {None},
               TunnelsTurn(s) \/ RuntimeTurn(s) \/ ImageTurn(s) \/ PollTurn(s)
        PROVE  Latest!TurnTo(s)
    BY <2>1 DEF TunnelsTurn, RuntimeTurn, ImageTurn, PollTurn, Rerun, AskAbout,
       Latest!TurnTo, OnScreen
  <2>2. ASSUME NEW q \in waiting,
               TunnelsAnswer(q) \/ RuntimeAnswer(q) \/ ImageAnswer(q) \/ PollAnswer(q)
        PROVE  Latest!LatestNext \/ UNCHANGED Latest!latestVars
    <3>1. UNCHANGED <<hook, about, asked>>
      BY <2>2 DEF TunnelsAnswer, RuntimeAnswer, ImageAnswer, PollAnswer
    <3>2. shown' = shown \/ (Expected(q) /\ shown' = [of |-> q.of, question |-> q.question])
      BY <2>2 DEF TunnelsAnswer, RuntimeAnswer, ImageAnswer, PollAnswer, Replace,
         Expected, Polls
    <3>3. /\ q.of # None
          /\ Expected(q) => q.question = asked
          /\ Expected(q) /\ hook # "tunnels" => q.of = about
      BY TabsAssumption DEF ViewsInv, ViewOf
    <3>4. CASE shown' = shown
      BY <3>1, <3>4 DEF OnScreen, Latest!latestVars
    <3>5. CASE /\ Expected(q) /\ q.of = about
               /\ shown' = [of |-> q.of, question |-> q.question]
      <4>1. OnScreen' = [of |-> about, question |-> asked]
        BY <3>1, <3>3, <3>5 DEF OnScreen
      <4> QED
        BY <3>1, <3>3, <3>5, <4>1 DEF Latest!ShowLatest, Latest!LatestNext
    <3>6. CASE /\ Expected(q) /\ q.of # about
               /\ shown' = [of |-> q.of, question |-> q.question]
      <4>1. OnScreen' = None
        BY <3>1, <3>3, <3>6 DEF OnScreen
      <4> QED
        BY <2>0, <3>1, <4>1 DEF Latest!TurnTo, Latest!LatestNext
    <3> QED
      BY <3>2, <3>4, <3>5, <3>6
  <2>3. ASSUME NEW s \in Hosts, hook = "tunnels", ReloadOf(s)
        PROVE  Latest!LatestNext
    <3>1. OnScreen' = OnScreen /\ about' = about /\ asked' = asked + 1
      BY <2>3, TabsAssumption DEF ReloadOf, AskAbout, OnScreen
    <3>2. CASE about = None
      <4>1. OnScreen = None
        BY <2>3, <3>2, TabsAssumption DEF OnScreen, ViewsInv
      <4> QED
        BY <2>0, <3>1, <3>2, <4>1 DEF Latest!TurnTo, Latest!LatestNext
    <3>3. CASE about # None
      BY <3>1, <3>3 DEF Latest!Ask, Latest!LatestNext
    <3> QED
      BY <3>2, <3>3
  <2>4. CASE PollTick
    BY <2>4 DEF PollTick, AskAbout, Latest!Ask, Latest!LatestNext, Latest!latestVars,
       OnScreen
  <2>5. CASE UNCHANGED viewVars \/ TunnelChange
    BY <2>5 DEF viewVars, TunnelChange, Latest!latestVars, OnScreen
  <2>6. CASE TunnelsReload
    BY <2>0, <2>3, <2>6 DEF TunnelsReload
  <2>7. ASSUME NEW s \in changes, TunnelChanged(s)
        PROVE  Latest!LatestNext \/ UNCHANGED Latest!latestVars
    <3>1. s \in Hosts
      BY DEF ViewsInv
    <3> QED
      BY <2>3, <2>7, <3>1 DEF TunnelChanged, Latest!latestVars, OnScreen
  <2> QED
    BY <2>1, <2>2, <2>4, <2>5, <2>6, <2>7 DEF ViewsNext, Latest!LatestNext
<1> QED
  BY <1>1, <1>2, ViewsInvariant, PTL DEF ViewsSpec, ViewsShowLatestAnswers,
     Latest!LatestSpec

(* The counters of a view stay within their bounds: a turn asks once and    *)
(* counts two requests, a reload one.                                       *)
ViewsBounded ==
  /\ ViewsTypeOK
  /\ request <= effect + effect + asked

(* A question that is asked is well typed and counted.                      *)
LEMMA AskType ==
  ASSUME ViewsTypeOK, asked < MaxQuestions, NEW s \in Hosts \cup {None},
         effect' \in Bound, request' \in Requests, AskAbout(s)
  PROVE  /\ asked' \in Bound /\ asked' \in Nat /\ asked <= asked'
         /\ waiting' \in SUBSET ViewQuestion
<1>1. CASE s = None
  BY <1>1 DEF AskAbout, ViewsTypeOK, Bound
<1>2. CASE s # None
  <2>1. asked + 1 \in Bound
    BY QuestionsAssumption DEF ViewsTypeOK, Bound
  <2>2. [of |-> s, question |-> asked + 1,
         effect |-> effect', request |-> request'] \in ViewQuestion
    BY <1>2, <2>1 DEF ViewQuestion
  <2> QED
    BY <1>2, <2>1, <2>2 DEF AskAbout, ViewsTypeOK, Bound
<1> QED
  BY <1>1, <1>2

(* Every state of the views is well typed, and their counters are bounded.  *)
THEOREM ViewsTypeCorrect == ViewsSpec => []ViewsTypeOK
<1>1. ViewsInit => ViewsBounded
  <2>1. 0 \in Bound /\ 0 \in Requests
    BY QuestionsAssumption DEF Bound, Requests
  <2> QED
    <3> SUFFICES ASSUME ViewsInit PROVE ViewsBounded
      OBVIOUS
    <3>1. ViewsTypeOK
      BY <2>1 DEF ViewsInit, ViewsTypeOK
    <3>2. request <= effect + effect + asked
      BY DEF ViewsInit
    <3> QED BY <3>1, <3>2 DEF ViewsBounded
<1>2. ViewsBounded /\ [ViewsNext]_viewVars => ViewsBounded'
  <2> SUFFICES ASSUME ViewsBounded, [ViewsNext]_viewVars PROVE ViewsBounded'
    OBVIOUS
  <2>n. /\ MaxQuestions \in Nat /\ asked \in Nat /\ effect \in Nat /\ request \in Nat
        /\ asked <= MaxQuestions /\ effect <= MaxQuestions
        /\ request <= effect + effect + asked
    BY QuestionsAssumption DEF ViewsBounded, ViewsTypeOK, Bound, Requests
  <2>a. \A r, e, a, b \in Nat : r <= e + e + a /\ a <= b => r <= e + e + b
    OBVIOUS
  <2>t. ViewsTypeOK
    BY DEF ViewsBounded
  <2>1. ASSUME NEW s \in Hosts \cup {None}, Rerun(s),
               request' \in {request, request + 2}
        PROVE  ViewsBounded'
    <3>1. /\ about' = s /\ effect' = effect + 1 /\ asked < MaxQuestions
          /\ effect < MaxQuestions /\ hook' = hook /\ timer' = FALSE
          /\ shown' = None /\ AskAbout(s) /\ changes' = changes
      BY <2>1 DEF Rerun
    <3>2. effect' \in Bound /\ request' <= effect' + effect' + asked
      BY <2>1, <2>n, <3>1 DEF Bound
    <3>3. request' \in Requests
      BY <2>1, <2>n, <3>1, <3>2 DEF Requests
    <3>4. /\ asked' \in Bound /\ asked' \in Nat /\ asked <= asked'
          /\ waiting' \in SUBSET ViewQuestion
      BY <2>1, <2>t, <3>1, <3>2, <3>3, AskType
    <3>5. request' <= effect' + effect' + asked'
      <4>1. request' \in Nat
        BY <2>1, <2>n
      <4>2. effect' \in Nat /\ asked' \in Nat /\ asked \in Nat /\ asked <= asked'
        BY <2>n, <3>1, <3>4
      <4>3. request' <= effect' + effect' + asked
        BY <3>2
      <4> QED BY <4>1, <4>2, <4>3, <2>a
    <3> QED
      BY <2>t, <3>1, <3>2, <3>3, <3>4, <3>5, <2>1 DEF ViewsBounded, ViewsTypeOK
  <2>2. ASSUME NEW s \in Hosts \cup {None},
               TunnelsTurn(s) \/ RuntimeTurn(s) \/ ImageTurn(s) \/ PollTurn(s)
        PROVE  ViewsBounded'
    BY <2>1, <2>2 DEF TunnelsTurn, RuntimeTurn, ImageTurn, PollTurn
  <2>3. ASSUME NEW q \in waiting,
               TunnelsAnswer(q) \/ RuntimeAnswer(q) \/ ImageAnswer(q) \/ PollAnswer(q)
        PROVE  ViewsBounded'
    <3>1. /\ UNCHANGED <<hook, about, asked, changes, effect, request>>
          /\ waiting' = waiting \ {q}
          /\ timer' \in BOOLEAN
          /\ shown' \in {shown, [of |-> q.of, question |-> q.question]}
      <4>1. CASE TunnelsAnswer(q)
        BY <2>t, <4>1 DEF TunnelsAnswer, Replace, ViewsTypeOK
      <4>2. CASE RuntimeAnswer(q)
        BY <2>t, <4>2 DEF RuntimeAnswer, Replace, ViewsTypeOK
      <4>3. CASE ImageAnswer(q)
        BY <2>t, <4>3 DEF ImageAnswer, Replace, ViewsTypeOK
      <4>4. CASE PollAnswer(q)
        BY <2>t, <4>4 DEF PollAnswer, Replace, ViewsTypeOK
      <4> QED BY <2>3, <4>1, <4>2, <4>3, <4>4
    <3>2. [of |-> q.of, question |-> q.question] \in Answer
      BY <2>t DEF ViewsTypeOK, ViewQuestion, Answer
    <3> QED
      BY <2>t, <2>n, <3>1, <3>2 DEF ViewsBounded, ViewsTypeOK
  <2>4. ASSUME NEW s \in Hosts, ReloadOf(s), changes' \in SUBSET Hosts
        PROVE  ViewsBounded'
    <3>1. /\ request' = request + 1 /\ asked' = asked + 1
          /\ asked < MaxQuestions /\ AskAbout(s)
          /\ UNCHANGED <<hook, about, effect, timer, shown>>
      BY <2>4, TabsAssumption DEF ReloadOf, AskAbout
    <3>2. request' \in Requests /\ effect' \in Bound
      BY <2>t, <2>n, <3>1 DEF Requests, ViewsTypeOK
    <3>3. asked' \in Bound /\ waiting' \in SUBSET ViewQuestion
      BY <2>t, <3>1, <3>2, AskType
    <3> QED
      BY <2>t, <2>n, <2>4, <3>1, <3>2, <3>3 DEF ViewsBounded, ViewsTypeOK
  <2>7. CASE TunnelsReload \/ TunnelChange \/ \E s \in changes : TunnelChanged(s)
    <3>1. CASE TunnelsReload
      BY <2>4, <2>t, <3>1 DEF TunnelsReload, ViewsTypeOK
    <3>2. CASE TunnelChange
      BY <2>t, <2>n, <3>2 DEF TunnelChange, ViewsBounded, ViewsTypeOK
    <3>3. ASSUME NEW s \in changes, TunnelChanged(s)
          PROVE  ViewsBounded'
      <4>1. s \in Hosts /\ changes' \in SUBSET Hosts
        BY <2>t, <3>3 DEF TunnelChanged, ViewsTypeOK
      <4>2. CASE UNCHANGED <<hook, about, asked, waiting, effect, request, timer, shown>>
        BY <2>t, <2>n, <4>1, <4>2 DEF ViewsBounded, ViewsTypeOK
      <4> QED
        BY <2>4, <3>3, <4>1, <4>2 DEF TunnelChanged
    <3> QED
      BY <2>7, <3>1, <3>2, <3>3
  <2>5. CASE PollTick
    <3>1. /\ timer' = FALSE /\ asked < MaxQuestions /\ AskAbout(about)
          /\ UNCHANGED <<hook, about, changes, effect, request, shown>>
          /\ about \in Hosts \cup {None} /\ effect' \in Bound /\ request' \in Requests
      BY <2>5, <2>t DEF PollTick, ViewsTypeOK
    <3>2. /\ asked' \in Bound /\ asked' \in Nat /\ asked <= asked'
          /\ waiting' \in SUBSET ViewQuestion
      BY <2>t, <3>1, AskType
    <3>3. request' <= effect' + effect' + asked'
      <4>1. /\ request' = request /\ effect' = effect
            /\ asked' \in Nat /\ asked <= asked'
        BY <3>1, <3>2
      <4> QED BY <2>n, <4>1, <2>a
    <3> QED
      BY <2>t, <3>1, <3>2, <3>3 DEF ViewsBounded, ViewsTypeOK
  <2>6. CASE UNCHANGED viewVars
    BY <2>6 DEF viewVars, ViewsBounded, ViewsTypeOK
  <2> QED
    BY <2>2, <2>3, <2>5, <2>6, <2>7 DEF ViewsNext
<1>3. ViewsBounded => ViewsTypeOK
  BY DEF ViewsBounded
<1> QED
  BY <1>1, <1>2, <1>3, PTL DEF ViewsSpec

-----------------------------------------------------------------------------
(* The editor *)

(* A change of what the window shows keeps the types of window and calls.   *)
LEMMA RenderType ==
  ASSUME NEW e \in Editor, NEW others \in SUBSET FileCall, Render(e, others)
  PROVE  editor' \in Editor /\ fileCalls' \in SUBSET FileCall
<1>1. \A c \in FileCall : [c EXCEPT !.current = FALSE] \in FileCall
  BY DEF FileCall
<1>2. [e EXCEPT !.saving = FALSE, !.status = "idle"] \in Editor
  BY DEF Editor
<1> QED
  BY <1>1, <1>2 DEF Render

(* A call of the editor is well typed.                                      *)
LEMMA SendType ==
  ASSUME EditorTypeOK, NEW then \in {"show", "report", "close"}, NEW f \in Files,
         NEW content \in Content, NEW of \in Hosts, SendFile(then, f, content, of)
  PROVE  fileCalls' \in SUBSET FileCall
<1>1. editor.session \in Hosts
  BY DEF EditorTypeOK, Editor
<1>2. [then |-> then, host |-> editor.session, file |-> f, content |-> content,
       of |-> of, current |-> then = "report", at |-> "sent"] \in FileCall
  BY <1>1 DEF FileCall
<1> QED
  BY <1>2 DEF SendFile, EditorTypeOK

(* A closed editor is an editor.                                            *)
LEMMA ClosedType == \A e \in Editor : Closed(e) \in Editor
<1>1. 0 \in Content
  BY EditorAssumption DEF Content
<1> QED
  BY <1>1 DEF Closed, Editor

(* Every step of the editor keeps its types.                                *)
LEMMA EditorTypeStep == EditorTypeOK /\ [EditorNext]_editorVars => EditorTypeOK'
<1> SUFFICES ASSUME EditorTypeOK, [EditorNext]_editorVars
             PROVE  EditorTypeOK'
  OBVIOUS
<1>0. /\ editor \in Editor /\ fileCalls \in SUBSET FileCall
      /\ editor.file \in Files /\ editor.content \in Content /\ editor.of \in Hosts
      /\ 0 \in Content
  BY EditorAssumption DEF EditorTypeOK, Editor, Content
<1>1. ASSUME NEW h \in Hosts, EditorSession(h)
      PROVE  EditorTypeOK'
  <2>1. [editor EXCEPT !.session = h] \in Editor
    BY <1>0 DEF Editor
  <2> QED
    BY <1>0, <1>1, <2>1, RenderType DEF EditorSession, EditorTypeOK, hostVars
<1>2. ASSUME NEW f \in Files, OpenFile(f)
      PROVE  EditorTypeOK'
  <2>1. editor.session \in Hosts
    BY <1>0 DEF Editor
  <2> QED
    BY <1>0, <1>2, <2>1, SendType DEF OpenFile, EditorTypeOK, hostVars
<1>3. ASSUME NEW c \in fileCalls, HostAnswers(c)
      PROVE  EditorTypeOK'
  <2>1. /\ c \in FileCall /\ c.host \in Hosts /\ c.file \in Files /\ c.content \in Content
        /\ disk[c.host][c.file] \in Content
    BY <1>0 DEF FileCall, EditorTypeOK
  <2> DEFINE Failed == [c EXCEPT !.at = "failed"]
             Done == [c EXCEPT !.at = "done",
                        !.content = IF c.then = "show" THEN disk[c.host][c.file] ELSE @]
  <2>2. Failed \in FileCall /\ Done \in FileCall
    BY <2>1 DEF FileCall
  <2>3. Done.content \in Content
    BY <2>2 DEF FileCall
  <2>4. PICK r \in {Failed, Done} :
          /\ fileCalls' = (fileCalls \ {c}) \cup {r}
          /\ IF r.at = "failed"
             THEN UNCHANGED hostVars
             ELSE /\ disk' = [disk EXCEPT ![c.host][c.file] = r.content]
                  /\ held' = held \cup {<<c.file, r.content>>}
    BY <1>3 DEF HostAnswers
  <2>5. r \in FileCall
    BY <2>2, <2>4
  <2> HIDE DEF Failed, Done
  <2>6. r.content \in Content
    BY <2>5 DEF FileCall
  <2>7. disk' \in [Hosts -> [Files -> Content]] /\ held' \in SUBSET (Files \X Content)
    BY <2>1, <2>4, <2>6 DEF EditorTypeOK, hostVars
  <2> QED
    BY <1>3, <2>4, <2>5, <2>7 DEF HostAnswers, EditorTypeOK
<1>4. ASSUME NEW c \in fileCalls, FileArrives(c)
      PROVE  EditorTypeOK'
  <2>1. c.file \in Files /\ c.content \in Content /\ c.of \in Hosts
    BY <1>0 DEF FileCall
  <2>2. [editor EXCEPT !.open = TRUE, !.file = c.file, !.content = c.content,
                       !.modified = FALSE, !.of = c.of] \in Editor
    BY <1>0, <2>1 DEF Editor
  <2> QED
    BY <1>0, <1>4, <2>2, RenderType DEF FileArrives, EditorTypeOK, hostVars
<1>5. ASSUME NEW c \in fileCalls, ReadFails(c)
      PROVE  EditorTypeOK'
  BY <1>5 DEF ReadFails, EditorTypeOK, hostVars
<1>6. ASSUME NEW c \in fileCalls, SaveReported(c)
      PROVE  EditorTypeOK'
  <2> DEFINE Reach == IF c.at = "done" THEN AfterSave(c) ELSE editor
  <2>1. Reach \in Editor
    BY <1>0 DEF AfterSave, Editor
  <2>2. [Reach EXCEPT !.saving = FALSE, !.status = IF c.at = "done" THEN "saved" ELSE "error"]
          \in Editor
    BY <2>1 DEF Editor
  <2> HIDE DEF Reach
  <2>3. Reported(c, Reach, c.current)
    BY <1>6 DEF SaveReported, Reach
  <2> QED
    BY <1>0, <2>1, <2>2, <2>3 DEF Reported, EditorTypeOK, hostVars
<1>7. ASSUME NEW c \in fileCalls, SavedAndClosed(c)
      PROVE  EditorTypeOK'
  BY <1>0, <1>7, ClosedType, RenderType DEF SavedAndClosed, EditorTypeOK, hostVars
<1>8. CASE Type
  <2>1. edits + 1 \in Content
    BY <1>8, EditorAssumption DEF Type, EditorTypeOK, Content
  <2>2. [editor EXCEPT !.content = edits + 1, !.modified = TRUE,
                       !.status = IF editor.saving THEN @ ELSE "idle"] \in Editor
    BY <1>0, <2>1 DEF Editor
  <2> QED
    BY <1>8, <2>1, <2>2 DEF Type, EditorTypeOK, hostVars
<1>9. CASE HandleSave
  <2>1. [editor EXCEPT !.saving = TRUE, !.status = "saving"] \in Editor
    BY <1>0 DEF Editor
  <2> QED
    BY <1>0, <1>9, <2>1, SendType DEF HandleSave, EditorTypeOK, hostVars
<1>10. CASE SavedTimer \/ KeepEditing
  <2>1. /\ [editor EXCEPT !.status = "idle"] \in Editor
        /\ [editor EXCEPT !.asking = FALSE] \in Editor
    BY <1>0 DEF Editor
  <2> QED
    BY <1>10, <2>1 DEF SavedTimer, KeepEditing, EditorTypeOK, hostVars
<1>11. CASE CloseEditor \/ DiscardAndClose
  <2>1. [editor EXCEPT !.asking = TRUE] \in Editor
    BY <1>0 DEF Editor
  <2> QED
    BY <1>0, <1>11, <2>1, ClosedType, RenderType
       DEF CloseEditor, DiscardAndClose, EditorTypeOK, hostVars
<1>12. CASE SaveAndClose
  BY <1>0, <1>12, SendType DEF SaveAndClose, EditorTypeOK, hostVars
<1>13. CASE UNCHANGED editorVars
  BY <1>13 DEF editorVars, hostVars, EditorTypeOK
<1> QED
  BY <1>1, <1>2, <1>3, <1>4, <1>5, <1>6, <1>7, <1>8, <1>9, <1>10, <1>11, <1>12, <1>13
     DEF EditorNext

(* The state of the editor holds what it is declared to hold.               *)
THEOREM EditorTypeCorrect == EditorSpec => []EditorTypeOK
<1>1. EditorInit => EditorTypeOK
  BY EditorAssumption DEF EditorInit, EditorTypeOK, Editor, Content
<1> QED
  BY <1>1, EditorTypeStep, PTL DEF EditorSpec

(* A save the window waits for.                                             *)
Reporting(c) == c.then = "report" /\ c.current

(* What was saved or read is held by a host, and what the window shows as   *)
(* clean is such a content; the window says it is saving as long as it      *)
(* waits for a save, and then for one only.                                 *)
Clean(e) == e.open /\ ~e.modified => <<e.file, e.content>> \in held
DoneIsOnDisk(c) == c.at = "done" => <<c.file, c.content>> \in held

EditorInv ==
  /\ EditorTypeOK
  /\ Clean(editor)
  /\ \A c \in fileCalls : DoneIsOnDisk(c)
  /\ editor.saving <=> \E c \in fileCalls : Reporting(c)
  /\ \A c, d \in fileCalls : Reporting(c) /\ Reporting(d) => c = d

(* A change of what the window shows gives up the save it waits for, or     *)
(* goes on waiting for it.                                                  *)
LEMMA RenderStep ==
  ASSUME EditorInv, EditorTypeOK', NEW e \in Editor, NEW others \in SUBSET fileCalls,
         Render(e, others), held' = held, Clean(e), e.saving = editor.saving,
         \A c \in fileCalls \ others : ~Reporting(c)
  PROVE  EditorInv'
<1>0. others \in SUBSET FileCall
  BY DEF EditorInv, EditorTypeOK
<1>1. CASE editor' = e /\ fileCalls' = others
  BY <1>1 DEF EditorInv, Clean, DoneIsOnDisk, Reporting
<1>2. CASE /\ editor' = [e EXCEPT !.saving = FALSE, !.status = "idle"]
           /\ fileCalls' = {[c EXCEPT !.current = FALSE] : c \in others}
  <2>1. \A c \in FileCall :
           /\ [c EXCEPT !.current = FALSE].at = c.at
           /\ [c EXCEPT !.current = FALSE].file = c.file
           /\ [c EXCEPT !.current = FALSE].content = c.content
           /\ ~[c EXCEPT !.current = FALSE].current
    BY DEF FileCall
  <2>2. ASSUME NEW d \in fileCalls'
        PROVE  ~Reporting(d) /\ (d.at = "done" => <<d.file, d.content>> \in held')
    <3>1. PICK c \in others : d = [c EXCEPT !.current = FALSE]
      BY <1>2
    <3>2. /\ d.at = c.at /\ d.file = c.file /\ d.content = c.content /\ ~d.current
          /\ DoneIsOnDisk(c)
      BY <1>0, <2>1, <3>1 DEF EditorInv
    <3> HIDE <3>1
    <3> QED
      BY <3>2 DEF Reporting, DoneIsOnDisk
  <2>3. /\ editor'.open = e.open /\ editor'.modified = e.modified
        /\ editor'.file = e.file /\ editor'.content = e.content /\ ~editor'.saving
    BY <1>2 DEF Editor
  <2> QED
    BY <2>2, <2>3 DEF EditorInv, Clean, Reporting, DoneIsOnDisk
<1> QED
  BY <1>1, <1>2 DEF Render

(* Every step of the editor keeps its invariant.                            *)
LEMMA EditorInvStep == EditorInv /\ [EditorNext]_editorVars => EditorInv'
<1> SUFFICES ASSUME EditorInv, [EditorNext]_editorVars
             PROVE  EditorInv'
  OBVIOUS
<1>0. /\ EditorTypeOK' /\ EditorTypeOK
      /\ editor \in Editor /\ fileCalls \in SUBSET FileCall
  BY EditorTypeStep DEF EditorInv, EditorTypeOK
<1>1. ASSUME NEW h \in Hosts, EditorSession(h)
      PROVE  EditorInv'
  <2> DEFINE e == [editor EXCEPT !.session = h]
  <2>1. /\ e \in Editor /\ e.open = editor.open /\ e.modified = editor.modified
        /\ e.file = editor.file /\ e.content = editor.content /\ e.saving = editor.saving
    BY <1>0 DEF Editor
  <2>2. Clean(e)
    BY <2>1 DEF EditorInv, Clean
  <2> QED
    BY <1>0, <1>1, <2>1, <2>2, RenderStep DEF EditorSession, hostVars
<1>2. ASSUME NEW then \in {"show", "close"}, NEW f \in Files, NEW content \in Content,
             NEW of \in Hosts, SendFile(then, f, content, of),
             UNCHANGED <<editor, held>>
      PROVE  EditorInv'
  <2> DEFINE c == [then |-> then, host |-> editor.session, file |-> f,
                   content |-> content, of |-> of, current |-> then = "report",
                   at |-> "sent"]
  <2>1. c.then # "report" /\ c.at = "sent"
    OBVIOUS
  <2>2. fileCalls' = fileCalls \cup {c}
    BY <1>2 DEF SendFile
  <2> HIDE DEF c
  <2> QED
    BY <1>0, <1>2, <2>1, <2>2 DEF EditorInv, Clean, DoneIsOnDisk, Reporting
<1>3. ASSUME NEW c \in fileCalls, HostAnswers(c)
      PROVE  EditorInv'
  <2> DEFINE Failed == [c EXCEPT !.at = "failed"]
             Done == [c EXCEPT !.at = "done",
                        !.content = IF c.then = "show" THEN disk[c.host][c.file] ELSE @]
  <2>1. /\ Failed.then = c.then /\ Failed.current = c.current /\ Failed.at = "failed"
        /\ Done.then = c.then /\ Done.current = c.current /\ Done.at = "done"
        /\ Done.file = c.file
    BY <1>0 DEF FileCall
  <2>2. PICK r \in {Failed, Done} :
          /\ fileCalls' = (fileCalls \ {c}) \cup {r}
          /\ IF r.at = "failed"
             THEN UNCHANGED hostVars
             ELSE /\ disk' = [disk EXCEPT ![c.host][c.file] = r.content]
                  /\ held' = held \cup {<<c.file, r.content>>}
    BY <1>3 DEF HostAnswers
  <2> HIDE DEF Failed, Done
  <2>3. held \subseteq held' /\ DoneIsOnDisk(r)'
    BY <2>1, <2>2 DEF DoneIsOnDisk, hostVars
  <2>4. Reporting(r) <=> Reporting(c)
    BY <2>1, <2>2 DEF Reporting
  <2>5. editor' = editor
    BY <1>3 DEF HostAnswers
  <2>6. \A d \in fileCalls' : d = r \/ d \in fileCalls \ {c}
    BY <2>2
  <2>7. Clean(editor)' /\ \A d \in fileCalls' : DoneIsOnDisk(d)'
    BY <2>3, <2>5, <2>6 DEF EditorInv, Clean, DoneIsOnDisk
  <2>8. editor'.saving <=> \E d \in fileCalls' : Reporting(d)
    BY <2>2, <2>4, <2>5, <2>6 DEF EditorInv
  <2>9. \A d, x \in fileCalls' : Reporting(d) /\ Reporting(x) => d = x
    BY <2>4, <2>6 DEF EditorInv
  <2> QED
    BY <1>0, <2>7, <2>8, <2>9 DEF EditorInv, Reporting
<1>4. ASSUME NEW c \in fileCalls, FileArrives(c)
      PROVE  EditorInv'
  <2> DEFINE e == [editor EXCEPT !.open = TRUE, !.file = c.file, !.content = c.content,
                                 !.modified = FALSE, !.of = c.of]
  <2>1. /\ e \in Editor /\ e.file = c.file /\ e.content = c.content
        /\ e.saving = editor.saving
    BY <1>0 DEF Editor, FileCall
  <2>2. Clean(e)
    BY <1>4, <2>1 DEF FileArrives, EditorInv, DoneIsOnDisk, Clean
  <2>3. ~Reporting(c)
    BY <1>4 DEF FileArrives, Reporting
  <2>4. Render(e, fileCalls \ {c}) /\ held' = held
    BY <1>4 DEF FileArrives, hostVars
  <2> HIDE DEF e
  <2> QED
    BY <1>0, <2>1, <2>2, <2>3, <2>4, RenderStep
<1>5. ASSUME NEW c \in fileCalls, ReadFails(c)
      PROVE  EditorInv'
  BY <1>0, <1>5 DEF ReadFails, hostVars, EditorInv, Clean, DoneIsOnDisk, Reporting
<1>6. ASSUME NEW c \in fileCalls, SaveReported(c)
      PROVE  EditorInv'
  <2> DEFINE e == IF c.at = "done" THEN AfterSave(c) ELSE editor
             free == [e EXCEPT !.saving = FALSE,
                               !.status = IF c.at = "done" THEN "saved" ELSE "error"]
  <2>1. /\ e \in Editor /\ e.open = editor.open /\ e.file = editor.file
        /\ e.content = editor.content /\ e.saving = editor.saving
        /\ ~e.modified => \/ ~editor.modified
                          \/ c.at = "done" /\ editor.file = c.file
                               /\ editor.content = c.content
    BY <1>0 DEF AfterSave, Editor
  <2>2. Clean(e)
    BY <2>1 DEF EditorInv, Clean, DoneIsOnDisk
  <2>3. /\ c.then = "report" /\ held' = held /\ fileCalls' = fileCalls \ {c}
        /\ editor' = IF c.current THEN free ELSE e
    BY <1>6 DEF SaveReported, Reported, hostVars
  <2> HIDE DEF e
  <2>4. /\ free.open = e.open /\ free.modified = e.modified
        /\ free.file = e.file /\ free.content = e.content /\ free.saving = FALSE
    BY <2>1 DEF Editor
  <2> HIDE DEF free
  <2>5. Clean(editor)' /\ \A d \in fileCalls' : DoneIsOnDisk(d)'
    BY <2>2, <2>3, <2>4 DEF Clean, EditorInv, DoneIsOnDisk
  <2>6. CASE c.current
    <3>1. Reporting(c) /\ \A d \in fileCalls' : ~Reporting(d)
      BY <2>3, <2>6 DEF Reporting, EditorInv
    <3> QED
      BY <1>0, <2>3, <2>4, <2>5, <2>6, <3>1 DEF EditorInv, Reporting
  <2>7. CASE ~c.current
    BY <1>0, <2>1, <2>3, <2>5, <2>7 DEF EditorInv, Reporting
  <2> QED
    BY <2>6, <2>7
<1>7. ASSUME NEW e \in {editor, Closed(editor)}, NEW others \in SUBSET fileCalls,
             Render(e, others), held' = held, \A c \in fileCalls \ others : ~Reporting(c)
      PROVE  EditorInv'
  <2>1. /\ ~Closed(editor).open /\ Closed(editor).saving = editor.saving
        /\ Closed(editor) \in Editor
    BY <1>0, ClosedType DEF Closed, Editor
  <2>2. e \in Editor /\ Clean(e) /\ e.saving = editor.saving
    BY <1>0, <2>1 DEF Clean, EditorInv
  <2> QED
    BY <1>0, <1>7, <2>2, RenderStep
<1>8. ASSUME NEW c \in fileCalls, SavedAndClosed(c)
      PROVE  EditorInv'
  <2>1. ~Reporting(c)
    BY <1>8 DEF SavedAndClosed, Reporting
  <2> QED
    BY <1>7, <1>8, <2>1 DEF SavedAndClosed, hostVars
<1>9. CASE Type
  <2>1. /\ editor'.saving = editor.saving /\ editor'.modified
        /\ fileCalls' = fileCalls /\ held' = held
    BY <1>0, <1>9 DEF Type, hostVars, Editor
  <2> QED
    BY <1>0, <2>1 DEF EditorInv, Clean, DoneIsOnDisk, Reporting
<1>10. CASE HandleSave
  <2> DEFINE c == [then |-> "report", host |-> editor.session, file |-> editor.file,
                   content |-> editor.content, of |-> editor.of,
                   current |-> "report" = "report", at |-> "sent"]
  <2>1. Reporting(c) /\ c.at = "sent"
    BY DEF Reporting
  <2>2. fileCalls' = fileCalls \cup {c} /\ held' = held /\ ~editor.saving
    BY <1>10 DEF HandleSave, SendFile, hostVars, CanSave
  <2> HIDE DEF c
  <2>3. /\ editor'.saving = TRUE /\ editor'.open = editor.open
        /\ editor'.modified = editor.modified /\ editor'.file = editor.file
        /\ editor'.content = editor.content
    BY <1>0, <1>10 DEF HandleSave, Editor
  <2>4. \A d \in fileCalls : ~Reporting(d)
    BY <2>2 DEF EditorInv
  <2> QED
    BY <1>0, <2>1, <2>2, <2>3, <2>4 DEF EditorInv, Clean, DoneIsOnDisk, Reporting
<1>11. CASE SavedTimer \/ KeepEditing
  <2>1. /\ editor'.saving = editor.saving /\ editor'.open = editor.open
        /\ editor'.modified = editor.modified /\ editor'.file = editor.file
        /\ editor'.content = editor.content
        /\ fileCalls' = fileCalls /\ held' = held
    BY <1>0, <1>11 DEF SavedTimer, KeepEditing, hostVars, Editor
  <2> QED
    BY <1>0, <2>1 DEF EditorInv, Clean, DoneIsOnDisk, Reporting
<1>12. CASE CloseEditor \/ DiscardAndClose
  <2> DEFINE e == [editor EXCEPT !.asking = TRUE]
  <2>1. /\ e \in Editor /\ e.open = editor.open /\ e.modified = editor.modified
        /\ e.file = editor.file /\ e.content = editor.content /\ e.saving = editor.saving
    BY <1>0 DEF Editor
  <2>2. Clean(e)
    BY <2>1 DEF EditorInv, Clean
  <2> QED
    BY <1>0, <1>7, <1>12, <2>1, <2>2, RenderStep DEF CloseEditor, DiscardAndClose, hostVars
<1>13. CASE UNCHANGED editorVars
  BY <1>13, <1>0 DEF editorVars, hostVars, EditorInv, Clean, DoneIsOnDisk, Reporting
<1>14. /\ editor.file \in Files /\ editor.content \in Content /\ 0 \in Content
       /\ editor.session \in Hosts /\ editor.of \in Hosts
  BY <1>0, EditorAssumption DEF Editor, Content
<1>15. ASSUME NEW f \in Files, OpenFile(f)
       PROVE  EditorInv'
  BY <1>2, <1>14, <1>15 DEF OpenFile, hostVars
<1>16. CASE SaveAndClose
  BY <1>2, <1>14, <1>16 DEF SaveAndClose, hostVars
<1> QED
  BY <1>1, <1>3, <1>4, <1>5, <1>6, <1>8, <1>9, <1>10, <1>11, <1>12, <1>13, <1>15, <1>16
     DEF EditorNext

(* So it holds of every state.                                              *)
LEMMA EditorInvariant == EditorSpec => []EditorInv
<1>1. EditorInit => EditorInv
  <2> SUFFICES ASSUME EditorInit PROVE EditorInv
    OBVIOUS
  <2>1. EditorTypeOK
    BY EditorAssumption DEF EditorInit, EditorTypeOK, Editor, Content
  <2>2. fileCalls = {} /\ editor.open = FALSE /\ editor.saving = FALSE
    BY DEF EditorInit
  <2> QED
    BY <2>1, <2>2 DEF EditorInv, Clean
<1> QED
  BY <1>1, EditorInvStep, PTL DEF EditorSpec

(* Typed text never looks saved that no host received, for any number of    *)
(* sessions, files and calls on their way.                                  *)
THEOREM CleanAreSaved == EditorSpec => []CleanEditorsWereSaved
<1>1. EditorInv => CleanEditorsWereSaved
  BY DEF EditorInv, Clean, CleanEditorsWereSaved
<1> QED
  BY <1>1, EditorInvariant, PTL

(* The window waits for one save at a time, exactly while it says so.       *)
THEOREM SavesAreAlone == EditorSpec => []SavesDoNotOverlap
<1>1. EditorInv => SavesDoNotOverlap
  BY DEF EditorInv, Reporting, SavesDoNotOverlap
<1> QED
  BY <1>1, EditorInvariant, PTL

(* The status of the window says that it is saving only while its flag      *)
(* does, which disables the button.                                         *)
StatusIsTrue == editor.status = "saving" => editor.saving

(* Every state of the editor has that.                                      *)
LEMMA StatusInvariant == EditorSpec => []StatusIsTrue
<1>1. EditorInit => StatusIsTrue
  BY DEF EditorInit, StatusIsTrue
<1>2. EditorTypeOK /\ StatusIsTrue /\ [EditorNext]_editorVars => StatusIsTrue'
  <2> SUFFICES ASSUME EditorTypeOK, editor \in Editor, StatusIsTrue, EditorNext
               PROVE  StatusIsTrue'
    BY DEF EditorTypeOK, StatusIsTrue, editorVars
  <2>1. ASSUME NEW e \in Editor, NEW others, Render(e, others),
               e.status = editor.status, e.saving = editor.saving
        PROVE  StatusIsTrue'
    BY <2>1 DEF Render, StatusIsTrue, Editor
  <2>2. ASSUME NEW h \in Hosts, EditorSession(h) PROVE StatusIsTrue'
    <3> DEFINE e == [editor EXCEPT !.session = h]
    <3>1. e \in Editor /\ e.status = editor.status /\ e.saving = editor.saving
      BY DEF Editor
    <3> QED BY <2>1, <2>2, <3>1 DEF EditorSession
  <2>3. ASSUME NEW c \in fileCalls, FileArrives(c) PROVE StatusIsTrue'
    <3> DEFINE e == [editor EXCEPT !.open = TRUE, !.file = c.file, !.content = c.content,
                                   !.modified = FALSE, !.of = c.of]
    <3>1. e \in Editor /\ e.status = editor.status /\ e.saving = editor.saving
      BY DEF EditorTypeOK, Editor, FileCall
    <3>2. Render(e, fileCalls \ {c}) BY <2>3 DEF FileArrives
    <3> HIDE DEF e
    <3> QED BY <2>1, <3>1, <3>2
  <2>4. ASSUME NEW e \in {editor, Closed(editor), [editor EXCEPT !.asking = TRUE]},
               NEW others, Render(e, others)
        PROVE  StatusIsTrue'
    <3>1. e \in Editor BY ClosedType DEF Editor
    <3>2. e.status = editor.status /\ e.saving = editor.saving BY DEF Closed, Editor
    <3> QED BY <2>1, <2>4, <3>1, <3>2
  <2>5. ASSUME CloseEditor \/ DiscardAndClose \/ \E c \in fileCalls : SavedAndClosed(c)
        PROVE  StatusIsTrue'
    BY <2>4, <2>5 DEF CloseEditor, DiscardAndClose, SavedAndClosed
  <2>6. ASSUME NEW c \in fileCalls, SaveReported(c) PROVE StatusIsTrue'
    <3> DEFINE e == IF c.at = "done" THEN AfterSave(c) ELSE editor
    <3>1. e \in Editor /\ e.status = editor.status /\ e.saving = editor.saving
      BY DEF AfterSave, Editor
    <3>2. editor' = IF c.current
                    THEN [e EXCEPT !.saving = FALSE,
                                   !.status = IF c.at = "done" THEN "saved" ELSE "error"]
                    ELSE e
      BY <2>6 DEF SaveReported, Reported
    <3> HIDE DEF e
    <3> QED BY <3>1, <3>2 DEF StatusIsTrue, Editor
  <2>7. ASSUME Type \/ HandleSave \/ SavedTimer \/ KeepEditing PROVE StatusIsTrue'
    BY <2>7 DEF Type, HandleSave, SavedTimer, KeepEditing, StatusIsTrue, Editor
  <2>8. ASSUME editor' = editor PROVE StatusIsTrue'
    BY <2>8 DEF StatusIsTrue
  <2> QED
    BY <2>2, <2>3, <2>5, <2>6, <2>7, <2>8
    DEF EditorNext, OpenFile, HostAnswers, ReadFails, SaveAndClose
<1> QED
  BY <1>1, <1>2, EditorTypeCorrect, PTL DEF EditorSpec

-----------------------------------------------------------------------------
(* The tree of remote files *)

(* The invariant of the tree: what a session's tree opens with, it listed.  *)
TreeInv ==
  /\ TreeTypeOK
  /\ tree.session = None => tree.menu = None /\ tree.target = None /\ tree.prompt = None
  /\ RememberedPathsWereListed

(* A call of the tree joins the others.                                     *)
LEMMA SendTreeCall ==
  ASSUME TreeTypeOK, NEW c \in TreeCall, SendCall(c)
  PROVE  treeCalls' \in SUBSET TreeCall
BY DEF TreeTypeOK, SendCall

(* A call about the session shown is well typed.                            *)
LEMMA CallType ==
  ASSUME TreeTypeOK, tree.session # None,
         NEW op \in {"list", "delete", "rename", "create"}, NEW d \in Dirs,
         NEW item \in {Sub, File, Root}
  PROVE  Call(op, d, item) \in TreeCall
BY DEF TreeTypeOK, Tree, Call, TreeCall

(* Every state of the tree is well typed, and the directory a session's     *)
(* tree opens with is one it has listed.                                    *)
LEMMA TreeInvStep == TreeInv /\ [TreeNext]_treeVars => TreeInv'
<1> SUFFICES ASSUME TreeInv, [TreeNext]_treeVars PROVE TreeInv'
  OBVIOUS
<1>t. /\ TreeTypeOK
      /\ tree.session = None => tree.menu = None /\ tree.target = None /\ tree.prompt = None
      /\ \A h \in Hosts : remembered[h] # None => remembered[h] \in listed[h]
  BY DEF TreeInv, RememberedPathsWereListed
<1>n. /\ None \notin {Sub, File} /\ Root \in Dirs /\ Sub \in Dirs
  BY TreeAssumption DEF Dirs
<1> DEFINE Shut == tree.menu = None /\ tree.target = None /\ tree.prompt = None
<1>1. ASSUME tree' \in Tree, treeCalls' \in SUBSET TreeCall,
             tree'.session = None => Shut',
             UNCHANGED <<remembered, listed>>
      PROVE  TreeInv'
  BY <1>1 DEF TreeInv, TreeTypeOK, RememberedPathsWereListed
<1>2. ASSUME NEW t \in Tree, tree' = t, Local,
             t.session = None => Shut'
      PROVE  TreeInv'
  BY <1>t, <1>1, <1>2 DEF Local, TreeTypeOK
<1>3. \A h \in Hosts \cup {None} : Fresh(h) \in Tree
  BY <1>n DEF Fresh, Tree
<1>4. ASSUME NEW h \in Hosts, ShowSession(h) PROVE TreeInv'
  <2>1. InitialPath(h) \in Dirs
    BY <1>t, <1>n DEF InitialPath, TreeTypeOK
  <2>2. tree' \in Tree
    <3>1. CASE tree.session = None
      BY <1>3, <1>4, <3>1 DEF ShowSession
    <3>2. CASE tree.session # None
      BY <1>t, <1>4, <3>2 DEF ShowSession, TreeTypeOK, Tree
    <3> QED BY <3>1, <3>2
  <2>3. [Call("list", InitialPath(h), Root) EXCEPT !.host = h] \in TreeCall
    BY <2>1 DEF Call, TreeCall
  <2>4. tree'.session = h /\ h # None
    BY <1>t, <1>4, TabsAssumption DEF ShowSession, Fresh, TreeTypeOK, Tree
  <2> QED
    BY <1>t, <1>1, <1>4, <2>2, <2>3, <2>4, SendTreeCall DEF ShowSession
<1>5. CASE LeaveTree
  <2>1. {[c EXCEPT !.mounted = FALSE] : c \in treeCalls} \in SUBSET TreeCall
    BY <1>t DEF TreeTypeOK, TreeCall
  <2> QED
    BY <1>1, <1>3, <1>5, <2>1 DEF LeaveTree, Fresh
<1>6. ASSUME NEW d \in Dirs, Load(d) PROVE TreeInv'
  <2>1. Call("list", d, Root) \in TreeCall
    BY <1>t, <1>6, CallType DEF Load, Uncovered
  <2> QED
    BY <1>t, <1>1, <1>6, <2>1, SendTreeCall DEF Load, TreeTypeOK
<1>7. ASSUME NEW c \in treeCalls, Listed(c) PROVE TreeInv'
  <2>1. c \in TreeCall /\ c.host \in Hosts /\ c.dir \in Dirs
    BY <1>t DEF TreeTypeOK, TreeCall
  <2>2. tree' \in Tree
    <3>1. Items(c.dir) \in {{Sub, File}, {}}
      BY DEF Items
    <3>2. [tree EXCEPT !.path = c.dir, !.files = Items(c.dir)] \in Tree
      BY <1>t, <2>1, <3>1 DEF TreeTypeOK, Tree
    <3> QED BY <1>t, <1>7, <3>2 DEF Listed, TreeTypeOK
  <2>3. /\ remembered' = [remembered EXCEPT ![c.host] = c.dir]
        /\ listed' = [listed EXCEPT ![c.host] = listed[c.host] \cup {c.dir}]
        /\ treeCalls' = treeCalls \ {c}
    BY <1>7 DEF Listed, Remember
  <2>4. TreeTypeOK' /\ (tree'.session = None => Shut')
    BY <1>t, <1>7, <2>1, <2>2, <2>3 DEF Listed, TreeTypeOK, Tree
  <2>5. ASSUME NEW h \in Hosts, remembered'[h] # None
        PROVE  remembered'[h] \in listed'[h]
    BY <1>t, <2>1, <2>3, <2>5 DEF TreeTypeOK
  <2> QED
    BY <2>4, <2>5 DEF TreeInv, RememberedPathsWereListed
<1>8. ASSUME NEW c \in treeCalls, ListFails(c) PROVE TreeInv'
  BY <1>t, <1>1, <1>8 DEF ListFails, TreeTypeOK
<1>9. ASSUME NEW c \in treeCalls, ThenRefresh(c)
      PROVE  treeCalls' \in SUBSET TreeCall
  <2>1. [c EXCEPT !.op = "list", !.item = Root] \in TreeCall
    BY <1>t DEF TreeTypeOK, TreeCall
  <2> QED BY <1>t, <1>9, <2>1 DEF ThenRefresh, TreeTypeOK
<1>10. ASSUME NEW c \in treeCalls, DeleteEnds(c) PROVE TreeInv'
  <2>1. tree' \in Tree
    BY <1>t, <1>10 DEF DeleteEnds, TreeTypeOK, Tree
  <2> QED BY <1>1, <1>9, <1>t, <1>10, <2>1 DEF DeleteEnds, TreeTypeOK, Tree
<1>11. ASSUME NEW c \in treeCalls, PromptEnds(c) PROVE TreeInv'
  <2>1. tree' \in Tree
    BY <1>t, <1>11 DEF PromptEnds, TreeTypeOK, Tree
  <2>2. treeCalls' \in SUBSET TreeCall
    BY <1>t, <1>9, <1>11 DEF PromptEnds, TreeTypeOK
  <2> QED BY <1>1, <1>t, <1>11, <2>1, <2>2 DEF PromptEnds, TreeTypeOK, Tree
<1>12. ASSUME NEW item \in {Root, Sub, File}, OpenMenu(item) PROVE TreeInv'
  BY <1>t, <1>2, <1>12 DEF OpenMenu, Uncovered, TreeTypeOK, Tree
<1>13. CASE CloseMenu
  BY <1>t, <1>2, <1>13 DEF CloseMenu, TreeTypeOK, Tree
<1>14. ASSUME NEW row, Choose(row) PROVE TreeInv'
  <2>1. tree.menu \in {Root, Sub, File} /\ (row = "delete" => tree.menu \in {Sub, File})
    BY <1>t, <1>14 DEF Choose, Offers, TreeTypeOK, Tree
  <2> DEFINE target == IF row = "delete" THEN tree.menu ELSE tree.target
             prompt == IF row = "rename" THEN tree.menu
                       ELSE IF row = "new folder" THEN Root ELSE tree.prompt
  <2>2. target \in {Sub, File, None} /\ prompt \in {Root, Sub, File, None}
    BY <1>t, <2>1 DEF TreeTypeOK, Tree
  <2>3. /\ tree' = [tree EXCEPT !.menu = None, !.target = target, !.prompt = prompt]
        /\ Local
    BY <1>14 DEF Choose
  <2> HIDE DEF target, prompt
  <2>4. [tree EXCEPT !.menu = None, !.target = target, !.prompt = prompt] \in Tree
    BY <1>t, <2>2 DEF TreeTypeOK, Tree
  <2>5. tree.session # None
    BY <1>t, <1>14 DEF Choose
  <2> QED BY <1>t, <1>2, <2>3, <2>4, <2>5 DEF TreeTypeOK, Tree
<1>15. CASE ConfirmDelete
  <2>1. tree.session # None /\ tree.target \in {Sub, File} /\ tree.path \in Dirs
    BY <1>t, <1>15 DEF ConfirmDelete, CanDelete, TreeTypeOK, Tree
  <2>2. Call("delete", tree.path, tree.target) \in TreeCall
    BY <1>t, <2>1, CallType
  <2>3. treeCalls' \in SUBSET TreeCall
    BY <1>t, <1>15, <2>2, SendTreeCall DEF ConfirmDelete
  <2> QED
    BY <1>t, <1>1, <1>15, <2>1, <2>3 DEF ConfirmDelete, TreeTypeOK, Tree
<1>18. CASE ConfirmPrompt
  <2>1. tree.session # None /\ tree.prompt \in {Sub, File, Root} /\ tree.path \in Dirs
    BY <1>t, <1>18 DEF ConfirmPrompt, TreeTypeOK, Tree
  <2>2. Call(IF tree.prompt = Root THEN "create" ELSE "rename", tree.path, tree.prompt)
          \in TreeCall
    BY <1>t, <2>1, CallType
  <2>3. treeCalls' \in SUBSET TreeCall
    BY <1>t, <1>18, <2>2, SendTreeCall DEF ConfirmPrompt
  <2> QED
    BY <1>t, <1>1, <1>18, <2>1, <2>3 DEF ConfirmPrompt, TreeTypeOK, Tree
<1>16. CASE CancelDelete \/ CancelPrompt
  BY <1>t, <1>2, <1>16 DEF CancelDelete, CancelPrompt, TreeTypeOK, Tree
<1>17. CASE UNCHANGED treeVars
  BY <1>t, <1>1, <1>17 DEF treeVars, TreeTypeOK
<1> QED
  BY <1>4, <1>5, <1>6, <1>7, <1>8, <1>10, <1>11, <1>12, <1>13, <1>14, <1>15,
     <1>16, <1>17, <1>18 DEF TreeNext

(* Every state of the tree is well typed, and it opens where its session    *)
(* was.                                                                     *)
LEMMA TreeInvariant == TreeSpec => []TreeInv
<1>1. TreeInit => TreeInv
  <2>1. Root \in Dirs
    BY DEF Dirs
  <2> QED
    BY <2>1 DEF TreeInit, TreeInv, TreeTypeOK, RememberedPathsWereListed, Fresh, Tree
<1> QED
  BY <1>1, TreeInvStep, PTL DEF TreeSpec

(* Every state of the tree is well typed: its calls, its prompt and the     *)
(* path it keeps for each session.                                          *)
THEOREM TreeTypeCorrect == TreeSpec => []TreeTypeOK
<1>1. TreeInv => TreeTypeOK
  BY DEF TreeInv
<1> QED
  BY <1>1, TreeInvariant, PTL

(* The path that is kept for a session, and with which its tree opens when  *)
(* the user comes back to it, is one that a call of that session has        *)
(* listed, for any number of sessions whose answers come late.              *)
THEOREM RememberedWereListed == TreeSpec => []RememberedPathsWereListed
<1>1. TreeInv => RememberedPathsWereListed
  BY DEF TreeInv
<1> QED
  BY <1>1, TreeInvariant, PTL

(* A deletion the dialog on screen waits for.                               *)
Deletes(c) == c.op = "delete" /\ c.mounted

(* The dialog of a deletion is locked as long as it waits for one, and for  *)
(* one only; without a session nothing is waited for.                       *)
DialogInv ==
  /\ tree.deleting <=> \E c \in treeCalls : Deletes(c)
  /\ \A c, d \in treeCalls : Deletes(c) /\ Deletes(d) => c = d
  /\ tree.session = None => ~tree.deleting

(* Every state of the tree has that.                                        *)
LEMMA DialogInvariant == TreeSpec => []DialogInv
<1>1. TreeInit => DialogInv
  BY DEF TreeInit, DialogInv, Fresh
<1>2. TreeInv /\ TreeInv' /\ DialogInv /\ [TreeNext]_treeVars => DialogInv'
  <2> SUFFICES ASSUME TreeInv, TreeInv', DialogInv, [TreeNext]_treeVars PROVE DialogInv'
    OBVIOUS
  <2>t. tree \in Tree /\ treeCalls \in SUBSET TreeCall
    BY DEF TreeInv, TreeTypeOK
  <2>1. ASSUME tree'.deleting = tree.deleting,
               tree'.session = None => tree.session = None,
               \A c : Deletes(c) => (c \in treeCalls' <=> c \in treeCalls)
        PROVE  DialogInv'
    BY <2>1 DEF DialogInv, Deletes
  <2>2. ASSUME NEW c, SendCall(c), ~Deletes(c)
        PROVE  \A d : Deletes(d) => (d \in treeCalls' <=> d \in treeCalls)
    BY <2>2 DEF SendCall
  <2>3. ASSUME NEW c \in treeCalls, ThenRefresh(c), ~Deletes(c)
        PROVE  \A d : Deletes(d) => (d \in treeCalls' <=> d \in treeCalls)
    <3>1. ~Deletes([c EXCEPT !.op = "list", !.item = Root])
      BY <2>t DEF Deletes, TreeCall
    <3> QED BY <2>3, <3>1 DEF ThenRefresh
  <2>4. ASSUME NEW h \in Hosts, ShowSession(h) PROVE DialogInv'
    <3>1. ~Deletes([Call("list", InitialPath(h), Root) EXCEPT !.host = h])
      BY DEF Call, Deletes
    <3>2. tree'.deleting = tree.deleting /\ tree'.session = h
      BY <2>t, <2>4 DEF ShowSession, Fresh, Tree, DialogInv
    <3> QED BY <2>1, <2>2, <2>4, <3>1, <3>2, TabsAssumption DEF ShowSession
  <2>5. CASE LeaveTree
    <3>1. \A c \in treeCalls' : ~Deletes(c)
      BY <2>t, <2>5 DEF LeaveTree, Deletes, TreeCall
    <3>2. ~tree'.deleting
      BY <2>5 DEF LeaveTree, Fresh
    <3> QED BY <3>1, <3>2 DEF DialogInv, Deletes
  <2>6. ASSUME NEW d \in Dirs, Load(d) PROVE DialogInv'
    <3>1. ~Deletes(Call("list", d, Root)) BY DEF Call, Deletes
    <3> QED BY <2>1, <2>2, <2>6, <3>1 DEF Load
  <2>7. ASSUME NEW c \in treeCalls, Listed(c) \/ ListFails(c) PROVE DialogInv'
    <3>1. ~Deletes(c) BY <2>7 DEF Listed, ListFails, Deletes
    <3>2. tree'.deleting = tree.deleting /\ tree'.session = tree.session
      BY <2>t, <2>7 DEF Listed, ListFails, Tree
    <3>3. treeCalls' = treeCalls \ {c} BY <2>7 DEF Listed, ListFails
    <3> QED BY <2>1, <3>1, <3>2, <3>3
  <2>8. ASSUME NEW c \in treeCalls, DeleteEnds(c) PROVE DialogInv'
    <3>1. CASE c.mounted
      <4>1. Deletes(c) /\ ~Deletes([c EXCEPT !.op = "list", !.item = Root])
        BY <2>t, <2>8, <3>1 DEF DeleteEnds, Deletes, TreeCall
      <4>2. \A d \in treeCalls' : ~Deletes(d)
        BY <2>8, <4>1 DEF DeleteEnds, ThenRefresh, DialogInv
      <4>3. ~tree'.deleting
        BY <2>t, <2>8, <3>1 DEF DeleteEnds, Tree
      <4> QED BY <4>2, <4>3 DEF DialogInv, Deletes
    <3>2. CASE ~c.mounted
      <4>1. ~Deletes(c) /\ tree' = tree
        BY <2>8, <3>2 DEF DeleteEnds, Deletes
      <4> QED BY <2>1, <2>3, <2>8, <4>1 DEF DeleteEnds
    <3> QED BY <3>1, <3>2
  <2>9. ASSUME NEW c \in treeCalls, PromptEnds(c) PROVE DialogInv'
    <3>1. ~Deletes(c) BY <2>9 DEF PromptEnds, Deletes
    <3>2. tree'.deleting = tree.deleting /\ tree'.session = tree.session
      BY <2>t, <2>9 DEF PromptEnds, Tree
    <3>3. \A d : Deletes(d) => (d \in treeCalls' <=> d \in treeCalls)
      BY <2>3, <2>9, <3>1 DEF PromptEnds
    <3> QED BY <2>1, <3>2, <3>3
  <2>10. CASE ConfirmDelete
    <3> DEFINE c == Call("delete", tree.path, tree.target)
    <3>1. Deletes(c) /\ treeCalls' = treeCalls \cup {c}
      BY <2>10 DEF ConfirmDelete, SendCall, Call, Deletes
    <3>2. \A d \in treeCalls : ~Deletes(d)
      BY <2>10 DEF ConfirmDelete, CanDelete, DialogInv
    <3>3. tree'.deleting /\ tree'.session = tree.session /\ tree.session # None
      BY <2>t, <2>10 DEF ConfirmDelete, CanDelete, Tree, TreeInv
    <3> HIDE DEF c
    <3> QED BY <3>1, <3>2, <3>3 DEF DialogInv, Deletes
  <2>11. CASE ConfirmPrompt
    <3>1. ~Deletes(Call(IF tree.prompt = Root THEN "create" ELSE "rename", tree.path,
                        tree.prompt))
      BY DEF Call, Deletes
    <3> QED BY <2>1, <2>2, <2>11, <3>1 DEF ConfirmPrompt
  <2>12. ASSUME Local, tree'.deleting = tree.deleting, tree'.session = tree.session
         PROVE  DialogInv'
    BY <2>1, <2>12 DEF Local
  <2>13. ASSUME NEW item, OpenMenu(item) PROVE DialogInv'
    BY <2>t, <2>12, <2>13 DEF OpenMenu, Tree
  <2>14. ASSUME NEW row, Choose(row) PROVE DialogInv'
    BY <2>t, <2>12, <2>14 DEF Choose, Tree
  <2>15. CASE CloseMenu \/ CancelDelete \/ CancelPrompt
    BY <2>t, <2>12, <2>15 DEF CloseMenu, CancelDelete, CancelPrompt, Tree
  <2>16. CASE UNCHANGED treeVars
    BY <2>1, <2>16 DEF treeVars
  <2> QED
    BY <2>4, <2>5, <2>6, <2>7, <2>8, <2>9, <2>10, <2>11, <2>13, <2>14, <2>15, <2>16
    DEF TreeNext
<1> QED
  BY <1>1, <1>2, TreeInvariant, PTL DEF TreeSpec

(* The dialog of a deletion that cannot be cancelled any more waits for one *)
(* call of its own tree, which will unlock it; no answer leaves it locked   *)
(* with nothing to wait for, and none it does not wait for unlocks it.      *)
THEOREM LockedDialogsWait ==
  TreeSpec => [](tree.deleting <=> \E c \in treeCalls : c.op = "delete" /\ c.mounted)
<1>1. DialogInv => (tree.deleting <=> \E c \in treeCalls : c.op = "delete" /\ c.mounted)
  BY DEF DialogInv, Deletes
<1> QED BY <1>1, DialogInvariant, PTL

-----------------------------------------------------------------------------
(* The lists of the panel *)

(* A panel that is on no session waits for nothing.                         *)
ListsInv ==
  /\ PanelTypeOK
  /\ panel.session = None => listCalls = {} /\ ~panel.sudo /\ ~panel.docker

(* The calls for lists of a session are calls.                              *)
LEMMA FetchesType ==
  \A h \in Hosts, lists \in SUBSET Lists : Fetches(h, lists) \in SUBSET ListCall
BY DEF Fetches, ListCall

(* What a tab shows are lists.                                              *)
LEMMA ListsOfType == \A tab : ListsOf(tab) \in SUBSET Lists
BY DEF ListsOf, Lists

(* Whatever the panel turns to, it asks about the session it turns to.      *)
LEMMA ShowStep ==
  ASSUME ListsInv, NEW p \in Panel, p.session # None,
         NEW m \in Tabs \cup {Console}, ShowThen(p, m)
  PROVE  ListsInv'
<1> DEFINE q == FollowMobile(p)
<1>1. q \in Panel /\ q.session = p.session /\ p.session \in Hosts
  <2>1. VisibleTabs(p) \subseteq Tabs
    BY DEF VisibleTabs
  <2> QED BY <2>1 DEF FollowMobile, Panel
<1> HIDE DEF q
<1>2. Empty \in [Lists -> Hosts \cup {None}]
  BY DEF Empty
<1>3. /\ [q EXCEPT !.shown = Empty, !.mobile = m] \in Panel
      /\ [q EXCEPT !.mobile = m] \in Panel
  BY <1>1, <1>2 DEF Panel
<1>4. Fetches(q.session, ListsOf(ActiveTab(q))) \in SUBSET ListCall
  BY <1>1, FetchesType, ListsOfType
<1>5. /\ panel' \in {[q EXCEPT !.shown = Empty, !.mobile = m], [q EXCEPT !.mobile = m]}
      /\ listCalls' \in {listCalls, listCalls \cup Fetches(q.session, ListsOf(ActiveTab(q)))}
  BY DEF ShowThen, q
<1>6. panel'.session # None
  BY <1>1, <1>5 DEF Panel
<1> QED
  BY <1>3, <1>4, <1>5, <1>6 DEF ListsInv, PanelTypeOK

(* A call for a list of the session shown joins the others.                 *)
LEMMA AskStep ==
  ASSUME ListsInv, NEW l \in Lists, panel.session # None, Ask(Polled(l))
  PROVE  listCalls' \in SUBSET ListCall
<1>1. panel.session \in Hosts
  BY DEF ListsInv, PanelTypeOK, Panel
<1>2. Polled(l) \in SUBSET ListCall
  BY <1>1, FetchesType DEF Polled
<1> QED
  BY <1>2 DEF Ask, ListsInv, PanelTypeOK

(* Every step of the panel keeps its invariant.                             *)
LEMMA ListsInvStep == ListsInv /\ [PanelNext]_panelVars => ListsInv'
<1> SUFFICES ASSUME ListsInv, [PanelNext]_panelVars PROVE ListsInv'
  OBVIOUS
<1>t. panel \in Panel /\ listCalls \in SUBSET ListCall
  BY DEF ListsInv, PanelTypeOK
<1>c. Console \in Tabs \cup {Console} /\ panel.mobile \in Tabs \cup {Console}
  BY <1>t DEF Panel
<1>1. ASSUME NEW h \in Hosts, PanelSession(h) PROVE ListsInv'
  <2>1. /\ [panel EXCEPT !.session = h, !.docker = FALSE] \in Panel
        /\ [panel EXCEPT !.session = h, !.docker = FALSE].session = h
        /\ h # None
    BY <1>t, TabsAssumption DEF Panel
  <2> QED
    BY <1>1, <1>c, <2>1, ShowStep DEF PanelSession
<1>2. CASE LeavePanel
  <2>1. PICK view \in Tabs \cup {Console} :
          panel' = [Unmounted(panel) EXCEPT !.mobile = view]
    BY <1>2 DEF LeavePanel, VisibleTabs
  <2>2. Empty \in [Lists -> Hosts \cup {None}]
    BY DEF Empty
  <2>3. panel' \in Panel /\ ~panel'.sudo /\ ~panel'.docker
    BY <1>t, <2>1, <2>2, PanelAssumption DEF Unmounted, Panel, Sizes
  <2> QED
    BY <1>2, <2>3 DEF LeavePanel, ListsInv, PanelTypeOK
<1>3. CASE RuntimeFound \/ RuntimeLost
  <2>1. PICK b \in BOOLEAN : Show([panel EXCEPT !.docker = b])
    BY <1>3 DEF RuntimeFound, RuntimeLost
  <2>2. CASE panel.session # None
    <3>1. /\ [panel EXCEPT !.docker = b] \in Panel
          /\ [panel EXCEPT !.docker = b].session # None
          /\ [panel EXCEPT !.docker = b].mobile \in Tabs \cup {Console}
      BY <1>t, <2>2 DEF Panel
    <3> QED BY <2>1, <3>1, ShowStep DEF Show
  <2>3. panel.session # None
    BY <1>3 DEF RuntimeFound, RuntimeLost, ListsInv
  <2> QED BY <2>2, <2>3
<1>4. ASSUME NEW tab, SelectTab(tab) PROVE ListsInv'
  <2> DEFINE p == [panel EXCEPT !.selected = tab,
                                !.size = IF @ = "collapsed" THEN "docked" ELSE @]
  <2>1. /\ p \in Panel /\ p.session = panel.session
        /\ p.mobile \in Tabs \cup {Console}
    BY <1>t, <1>4 DEF SelectTab, VisibleTabs, Panel, Sizes
  <2>2. panel.session # None /\ Show(p)
    BY <1>4 DEF SelectTab, Reachable
  <2> HIDE DEF p
  <2> QED BY <2>1, <2>2, ShowStep DEF Show
<1>5. ASSUME NEW tab, SelectMobile(tab) PROVE ListsInv'
  <2> DEFINE p == [panel EXCEPT !.mobile = tab]
  <2>1. /\ p \in Panel /\ p.session = panel.session
        /\ p.mobile \in Tabs \cup {Console}
    BY <1>t, <1>5 DEF SelectMobile, VisibleTabs, Panel
  <2>2. panel.session # None /\ Show(p)
    BY <1>5 DEF SelectMobile, Reachable
  <2> HIDE DEF p
  <2> QED BY <2>1, <2>2, ShowStep DEF Show
<1>6. ASSUME NEW to \in Sizes, Resize(to) PROVE ListsInv'
  <2> DEFINE p == [panel EXCEPT !.size = to]
  <2>1. /\ p \in Panel /\ p.session = panel.session
        /\ p.mobile \in Tabs \cup {Console}
    BY <1>t, <1>6 DEF Panel
  <2>2. panel.session # None /\ Show(p)
    BY <1>6 DEF Resize, Reachable
  <2> HIDE DEF p
  <2> QED BY <2>1, <2>2, ShowStep DEF Show
<1>7. ASSUME NEW l \in Lists, Poll(l) PROVE ListsInv'
  <2>1. panel.session # None /\ Ask(Polled(l)) /\ UNCHANGED panel
    BY <1>7 DEF Poll, IsOpen
  <2> QED
    BY <1>7, <2>1, AskStep DEF ListsInv, PanelTypeOK
<1>8. ASSUME NEW c \in listCalls, Arrives(c) PROVE ListsInv'
  <2>1. c \in ListCall /\ panel.session # None
    BY <1>t, <1>8 DEF ListsInv
  <2>2. ASSUME NEW p \in Panel, p.session = panel.session, Answered(c, p)
        PROVE  ListsInv'
    BY <1>t, <2>1, <2>2 DEF Answered, ListsInv, PanelTypeOK
  <2>3. ASSUME NEW h \in Hosts \cup {None}, NEW l \in Lists
        PROVE  /\ [panel EXCEPT !.shown[l] = h] \in Panel
               /\ [panel EXCEPT !.shown[l] = h].session = panel.session
    BY <1>t DEF Panel
  <2>4. CASE ListArrives(c)
    BY <2>1, <2>2, <2>3, <2>4 DEF ListArrives, ListCall
  <2>5. CASE StatsArrive(c)
    <3>1. "stats" \in Lists /\ panel.shown["stats"] \in Hosts \cup {None}
      BY <1>t DEF Panel, Lists
    <3> QED BY <2>1, <2>2, <2>3, <2>5, <3>1 DEF StatsArrive, ListCall
  <2>6. CASE KeepList(c)
    BY <1>t, <2>2, <2>6 DEF KeepList
  <2>7. CASE VMsFail(c)
    <3>1. "vms" \in Lists
      BY DEF Lists
    <3> QED BY <2>2, <2>3, <2>7, <3>1 DEF VMsFail
  <2>8. CASE ContainersFail(c)
    <3>1. \A b \in BOOLEAN : /\ [panel EXCEPT !.sudo = b] \in Panel
                             /\ [panel EXCEPT !.sudo = b].session = panel.session
      BY <1>t DEF Panel
    <3>2. panel.sudo \in BOOLEAN
      BY <1>t DEF Panel
    <3> QED BY <2>2, <2>8, <3>1, <3>2 DEF ContainersFail
  <2> QED
    BY <1>8, <2>4, <2>5, <2>6, <2>7, <2>8 DEF Arrives
<1>9. CASE SubmitSudo
  <2>1. panel.session # None /\ "containers" \in Lists
    BY <1>9 DEF SubmitSudo, ListsInv, Lists
  <2>2. panel' \in Panel /\ panel'.session # None
    BY <1>t, <1>9, <2>1 DEF SubmitSudo, Panel
  <2> QED
    BY <1>9, <2>1, <2>2, AskStep DEF SubmitSudo, ListsInv, PanelTypeOK
<1>10. CASE CancelSudo
  <2>1. /\ panel' \in Panel /\ panel'.session = panel.session
        /\ panel'.docker = panel.docker /\ ~panel'.sudo
    BY <1>t, <1>10 DEF CancelSudo, Panel
  <2> QED
    BY <1>10, <2>1 DEF CancelSudo, ListsInv, PanelTypeOK
<1>11. CASE UNCHANGED panelVars
  BY <1>11 DEF panelVars, ListsInv, PanelTypeOK
<1> QED
  BY <1>1, <1>2, <1>3, <1>4, <1>5, <1>6, <1>7, <1>8, <1>9, <1>10, <1>11
  DEF PanelNext

(* Every state of the panel's lists is well typed: it asks and shows only   *)
(* for sessions there are.                                                  *)
THEOREM PanelTypeCorrect == PanelSpec => []PanelTypeOK
<1>1. PanelInit => ListsInv
  <2>1. Empty \in [Lists -> Hosts \cup {None}]
    BY DEF Empty
  <2> QED
    <3> SUFFICES ASSUME PanelInit PROVE ListsInv
      OBVIOUS
    <3>1. PICK b \in BOOLEAN :
            panel = [phone |-> b, session |-> None, docker |-> FALSE,
                     selected |-> "transfers", mobile |-> Console,
                     size |-> "collapsed", shown |-> Empty, sudo |-> FALSE]
      BY DEF PanelInit
    <3>2. panel \in Panel
      BY <2>1, <3>1, PanelAssumption DEF Panel, Sizes
    <3>3. listCalls = {} /\ ~panel.sudo /\ ~panel.docker
      BY <3>1 DEF PanelInit
    <3> QED BY <3>2, <3>3 DEF ListsInv, PanelTypeOK
<1>2. ListsInv => PanelTypeOK
  BY DEF ListsInv
<1> QED
  BY <1>1, <1>2, ListsInvStep, PTL DEF PanelSpec

-----------------------------------------------------------------------------
(* The rows of the Docker tab *)

(* Only a list is about all the rows.                                       *)
RowsInv ==
  /\ RowsTypeOK
  /\ \A call \in rowCalls : call.op # "list" => call.row \in Rows

(* Every step of the container list keeps its invariant.                    *)
LEMMA RowsInvStep == RowsInv /\ [RowsNext]_rowVars => RowsInv'
<1> SUFFICES ASSUME RowsInv, [RowsNext]_rowVars PROVE RowsInv'
  OBVIOUS
<1> USE DEF RowsInv, RowsTypeOK
<1>0. List \in RowCall /\ List.op = "list"
  BY DEF List, RowCall
<1>1. CASE AskRows
  BY <1>0, <1>1 DEF AskRows, SendRow
<1>2. ASSUME NEW c \in Rows, RowFlips(c) PROVE RowsInv'
  BY <1>2 DEF RowFlips
<1>3. ASSUME NEW c \in Rows, ToggleRow(c) \/ RestartRow(c) PROVE RowsInv'
  <2>1. PICK op \in {"start", "stop", "restart"} :
          SendRow([List EXCEPT !.op = op, !.row = c])
    BY <1>3 DEF ToggleRow, RestartRow
  <2>2. /\ [List EXCEPT !.op = op, !.row = c] \in RowCall
        /\ [List EXCEPT !.op = op, !.row = c].row = c
    BY DEF List, RowCall
  <2>3. UNCHANGED <<up, rowsUp, rowsListed>>
    BY <1>3 DEF ToggleRow, RestartRow
  <2> QED BY <2>1, <2>2, <2>3 DEF SendRow
<1>4. ASSUME NEW call \in rowCalls, RowsRead(call) PROVE RowsInv'
  <2>1. /\ [call EXCEPT !.at = "read", !.up = up] \in RowCall
        /\ [call EXCEPT !.at = "read", !.up = up].op = "list"
    BY <1>4 DEF RowsRead, RowCall
  <2> QED BY <1>4, <2>1 DEF RowsRead, TurnCall
<1>5. ASSUME NEW call \in rowCalls, RowsArrive(call) PROVE RowsInv'
  <2>1. call.up \in SUBSET Rows
    BY DEF RowCall
  <2> QED BY <1>5, <2>1 DEF RowsArrive, TurnCall
<1>6. ASSUME NEW call \in rowCalls, RowsFail(call) PROVE RowsInv'
  BY <1>6 DEF RowsFail, TurnCall
<1>7. ASSUME NEW call \in rowCalls, RowActs(call) PROVE RowsInv'
  <2>1. call.row \in Rows
    BY <1>7 DEF RowActs
  <2>2. up' \in SUBSET Rows
    BY <1>7, <2>1 DEF RowActs
  <2>3. rowCalls' \subseteq rowCalls \cup {List} /\ UNCHANGED <<rowsUp, rowsListed>>
    BY <1>7 DEF RowActs, TurnCall
  <2> QED BY <1>0, <2>2, <2>3
<1>8. CASE UNCHANGED rowVars
  BY <1>8 DEF rowVars
<1> QED
  BY <1>1, <1>2, <1>3, <1>4, <1>5, <1>6, <1>7, <1>8 DEF RowsNext

(* Every state of the container list is well typed; this needs that the     *)
(* list call is one of its calls.                                           *)
THEOREM RowsTypeCorrect == RowsSpec => []RowsTypeOK
<1>1. RowsInit => RowsInv
  BY DEF RowsInit, RowsInv, RowsTypeOK, RowCall, List
<1>2. RowsInv => RowsTypeOK
  BY DEF RowsInv
<1> QED
  BY <1>1, <1>2, RowsInvStep, PTL DEF RowsSpec

-----------------------------------------------------------------------------
(* The Docker explorer *)

(* Every state of the Docker explorer is well typed: its window, what the   *)
(* host holds and what is asked before it is removed.                       *)
THEOREM ExplorerTypeCorrect == ExplorerSpec => []ExplorerTypeOK
<1>1. ExplorerInit => ExplorerTypeOK
  BY DEF ExplorerInit, ExplorerTypeOK, Window, Work, Question, Snapshot,
         NothingListed, NoQuestion, Reading, Idle
<1>2. ExplorerTypeOK /\ [ExplorerNext]_explorerVars => ExplorerTypeOK'
  <2> SUFFICES ASSUME ExplorerTypeOK, [ExplorerNext]_explorerVars
               PROVE  ExplorerTypeOK'
    OBVIOUS
  <2>t. /\ things \in SUBSET Things /\ exist \in SUBSET Containers
        /\ uses \in [Containers -> SUBSET Things] /\ running \in SUBSET exist
        /\ window \in Window /\ work \in Work
    BY DEF ExplorerTypeOK
  <2>w. ASSUME NEW w \in Window, NEW v \in Work, window' = w, work' = v,
               UNCHANGED dockerVars
        PROVE  ExplorerTypeOK'
    BY <2>t, <2>w DEF ExplorerTypeOK, dockerVars
  <2>i. Idle \in Work /\ Reading \in Work
    BY DEF Idle, Reading, Work
  <2>d. \A left \in SUBSET Things : [Idle EXCEPT !.at = "delete", !.things = left] \in Work
    BY DEF Idle, Work
  <2>l. \A action \in StackActions : [Idle EXCEPT !.at = "look", !.action = action] \in Work
    BY DEF Idle, Work
  <2>s. SelectedThings \in SUBSET Things /\ Selectable \in SUBSET Things
    BY <2>t DEF SelectedThings, Selectable, Visible, Window, Snapshot
  <2>1. ASSUME NEW c \in Containers, OthersAct(c) PROVE ExplorerTypeOK'
    <3>1. exist' \in SUBSET Containers /\ running' \in SUBSET exist'
      BY <2>t, <2>1 DEF OthersAct
    <3>2. uses' \in [Containers -> SUBSET Things]
      BY <2>t, <2>1 DEF OthersAct
    <3> QED BY <2>t, <2>1, <3>1, <3>2 DEF OthersAct, ExplorerTypeOK
  <2>2. CASE ToggleUnused
    <3>1. [window EXCEPT !.unused = ~window.unused] \in Window
      BY <2>t DEF Window
    <3> QED BY <2>t, <2>w, <2>2, <3>1 DEF ToggleUnused
  <2>3. ASSUME NEW t \in SUBSET Things
        PROVE  [window EXCEPT !.selected = t] \in Window
    BY <2>t DEF Window
  <2>4. ASSUME NEW t \in Things, Toggle(t) PROVE ExplorerTypeOK'
    <3>1. PICK u \in SUBSET Things : window' = [window EXCEPT !.selected = u]
      <4>1. (IF t \in window.selected THEN window.selected \ {t}
                                      ELSE window.selected \cup {t}) \in SUBSET Things
        BY <2>t DEF Window
      <4> QED BY <2>4, <4>1 DEF Toggle
    <3> QED BY <2>t, <2>w, <2>3, <2>4, <3>1 DEF Toggle
  <2>5. CASE ToggleAll
    <3>1. PICK u \in SUBSET Things : window' = [window EXCEPT !.selected = u]
      <4>1. (IF Selectable \subseteq window.selected THEN window.selected \ Selectable
                ELSE window.selected \cup Selectable) \in SUBSET Things
        BY <2>t, <2>s DEF Window
      <4> QED BY <2>5, <4>1 DEF ToggleAll
    <3> QED BY <2>t, <2>w, <2>3, <2>5, <3>1 DEF ToggleAll
  <2>6. ASSUME NEW q \in Question
        PROVE  [window EXCEPT !.asking = q] \in Window
    BY <2>t DEF Window
  <2>7. ASSUME NEW set \in SUBSET Things, RequestDelete(set) PROVE ExplorerTypeOK'
    <3>1. [things |-> set, action |-> "none"] \in Question
      BY DEF Question
    <3> QED BY <2>t, <2>w, <2>6, <2>7, <3>1 DEF RequestDelete
  <2>8. ASSUME NEW action \in StackActions, StackAction(action) PROVE ExplorerTypeOK'
    <3>1. [things |-> {}, action |-> action] \in Question
      BY DEF Question
    <3>2. window' \in Window
      BY <2>t, <2>6, <2>8, <3>1 DEF StackAction
    <3>3. work' \in Work
      BY <2>t, <2>l, <2>8 DEF StackAction, Control
    <3> QED BY <2>w, <2>8, <3>2, <3>3 DEF StackAction
  <2>n. NoQuestion \in Question
    BY DEF NoQuestion, Question
  <2>9. CASE CloseConfirm
    BY <2>t, <2>n, <2>w, <2>6, <2>9 DEF CloseConfirm
  <2>10. CASE Confirm
    <3>1. /\ window.asking.things \in SUBSET Things
          /\ window.asking.action \in StackActions \cup {"none"}
      BY <2>t DEF Window, Question
    <3>2. work' \in Work
      BY <2>d, <2>l, <2>10, <3>1 DEF Confirm, Control
    <3> QED BY <2>n, <2>w, <2>6, <2>10, <3>2 DEF Confirm
  <2>11. CASE Refresh
    BY <2>t, <2>i, <2>w, <2>11 DEF Refresh
  <2>12. \A left \in SUBSET Things : NextDelete(left) => work' \in Work
    BY <2>i, <2>d DEF NextDelete
  <2>13. ASSUME NEW t \in Things, CheckReferences(t) PROVE ExplorerTypeOK'
    <3>1. [work EXCEPT !.at = "remove", !.checked = {t}] \in Work
      BY <2>t DEF Work
    <3>2. work.things \ {t} \in SUBSET Things
      BY <2>t DEF Work
    <3>3. work' \in Work
      BY <2>12, <2>13, <3>1, <3>2 DEF CheckReferences
    <3> QED BY <2>t, <2>w, <2>13, <3>3 DEF CheckReferences
  <2>14. ASSUME NEW t \in Things, RemoveThing(t) PROVE ExplorerTypeOK'
    <3>1. work.things \ {t} \in SUBSET Things
      BY <2>t DEF Work
    <3>2. work' \in Work /\ things' \in SUBSET Things
      BY <2>t, <2>12, <2>14, <3>1 DEF RemoveThing
    <3> QED BY <2>t, <2>14, <3>2 DEF RemoveThing, ExplorerTypeOK
  <2>15. ASSUME NEW left \in SUBSET Containers, NextControl(left) PROVE work' \in Work
    <3>1. [work EXCEPT !.at = "control", !.containers = left] \in Work
      BY <2>t DEF Work
    <3> QED BY <2>i, <2>15, <3>1 DEF NextControl
  <2>16. CASE LookAtStack
    <3>1. {c \in Stack \cap exist : work.action = "start" <=> c \notin running}
            \in SUBSET Containers
      BY <2>t
    <3>2. work' \in Work
      BY <2>i, <2>15, <2>16, <3>1 DEF LookAtStack
    <3> QED BY <2>t, <2>w, <2>16, <3>2 DEF LookAtStack
  <2>17. ASSUME NEW c \in Containers, ControlContainer(c) PROVE ExplorerTypeOK'
    <3>1. work.containers \ {c} \in SUBSET Containers
      BY <2>t DEF Work
    <3>2. work' \in Work
      BY <2>15, <2>17, <3>1 DEF ControlContainer
    <3>3. running' \in SUBSET exist
      BY <2>t, <2>17 DEF ControlContainer
    <3> QED BY <2>t, <2>17, <3>2, <3>3 DEF ControlContainer, ExplorerTypeOK
  <2>18. CASE SnapshotArrives
    <3>1. Used \in SUBSET Things
      BY <2>t DEF Used
    <3> DEFINE l == [things |-> things, used |-> Used,
                     down |-> (Stack \cap exist) \ running # {},
                     active |-> Stack \cap running # {}]
    <3>2. l \in Snapshot
      BY <2>t, <3>1 DEF Snapshot
    <3>3. window' = [window EXCEPT !.list = l, !.selected = {}]
      BY <2>18 DEF SnapshotArrives
    <3> HIDE DEF l
    <3>4. window' \in Window
      BY <2>t, <3>2, <3>3 DEF Window
    <3> QED BY <2>i, <2>w, <2>18, <3>4 DEF SnapshotArrives
  <2>19. CASE SnapshotFails
    BY <2>t, <2>i, <2>w, <2>19 DEF SnapshotFails
  <2>20. CASE UNCHANGED explorerVars
    BY <2>20 DEF explorerVars, ExplorerTypeOK
  <2> QED
    BY <2>1, <2>2, <2>4, <2>5, <2>7, <2>8, <2>9, <2>10, <2>11, <2>13, <2>14,
       <2>16, <2>17, <2>18, <2>19, <2>20 DEF ExplorerNext, Works
<1> QED
  BY <1>1, <1>2, PTL DEF ExplorerSpec

(* Whoever waits has no dialog open, what was checked is for this deletion, *)
(* and what is asked about or left to delete is in the list, unused.        *)
DeletionInv ==
  /\ Busy => window.asking = NoQuestion
  /\ work.at \notin {"delete", "remove"} => work.things = {} /\ work.checked = {}
  /\ DeletionsFollowTheList

(* Neither a question nor a deletion outlives the list it was made from,    *)
(* for any things and containers (mutate and its lock, DockerExplorer.jsx). *)
THEOREM DeletionsAreListed == ExplorerSpec => []DeletionsFollowTheList
<1> DEFINE Offered == window.list.things \ window.list.used
<1>1. ExplorerInit => DeletionInv
  BY DEF ExplorerInit, DeletionInv, DeletionsFollowTheList, NoQuestion, Reading, Idle
<1>2. ExplorerTypeOK /\ DeletionInv /\ [ExplorerNext]_explorerVars => DeletionInv'
  <2> SUFFICES ASSUME window \in Window, work \in Work, DeletionInv, [ExplorerNext]_explorerVars
               PROVE  DeletionInv'
    BY DEF ExplorerTypeOK
  <2>1. ASSUME work' = work, window'.asking = window.asking, window'.list = window.list
        PROVE  DeletionInv'
    BY <2>1 DEF DeletionInv, DeletionsFollowTheList, Busy
  <2>2. ASSUME work'.things = {}, work'.checked = {}, window'.asking = NoQuestion
        PROVE  DeletionInv'
    BY <2>2 DEF DeletionInv, DeletionsFollowTheList, NoQuestion
  <2>3. ASSUME work'.things \subseteq Offered, work'.checked \subseteq Offered,
               work'.at \in {"delete", "remove"},
               window'.asking = NoQuestion, window'.list = window.list
        PROVE  DeletionInv'
    BY <2>3 DEF DeletionInv, DeletionsFollowTheList, NoQuestion
  <2>4. ASSUME NEW left \in SUBSET Offered, NextDelete(left),
               window.asking = NoQuestion, window' = window
        PROVE  DeletionInv'
    BY <2>2, <2>3, <2>4 DEF NextDelete, Reading, Idle
  <2>5. ASSUME NEW left, NextControl(left), work.at \in {"look", "control"}, window' = window
        PROVE  DeletionInv'
    <3>1. window.asking = NoQuestion /\ work.things = {} /\ work.checked = {}
      BY <2>5 DEF DeletionInv, Busy
    <3> QED
      BY <2>2, <2>5, <3>1 DEF NextControl, Reading, Idle, Work
  <2>6. ASSUME NEW c \in Containers, OthersAct(c) PROVE DeletionInv'
    BY <2>1, <2>6 DEF OthersAct
  <2>7. ASSUME NEW c \in Containers, ControlContainer(c) PROVE DeletionInv'
    BY <2>5, <2>7 DEF ControlContainer
  <2>8. ASSUME NEW t \in Things, Toggle(t) PROVE DeletionInv'
    BY <2>1, <2>8 DEF Toggle, Window
  <2>9. CASE ToggleUnused \/ ToggleAll
    BY <2>1, <2>9 DEF ToggleUnused, ToggleAll, Window
  <2>10. ASSUME NEW set \in SUBSET Things, RequestDelete(set) PROVE DeletionInv'
    <3>1. set \subseteq Offered
      BY <2>10 DEF RequestDelete, SelectedThings, Selectable, Visible
    <3>2. window'.asking.things = set /\ window'.list = window.list /\ work' = work /\ ~Busy
      BY <2>10 DEF RequestDelete, Window
    <3> QED
      BY <3>1, <3>2 DEF DeletionInv, DeletionsFollowTheList, Busy
  <2>11. ASSUME NEW action \in StackActions, StackAction(action) PROVE DeletionInv'
    <3>1. CASE Control(action) /\ window' = window
      BY <2>2, <2>11, <3>1 DEF StackAction, Control, Idle, Clickable
    <3>2. CASE work' = work /\ window' = [window EXCEPT !.asking = [things |-> {}, action |-> action]]
      <4>1. window'.asking.things = {} /\ window'.list = window.list /\ ~Busy
        BY <2>11, <3>2 DEF StackAction, Window
      <4> QED
        BY <3>2, <4>1 DEF DeletionInv, DeletionsFollowTheList, Busy
    <3> QED
      BY <2>11, <3>1, <3>2 DEF StackAction
  <2>12. CASE CloseConfirm
    <3>1. window'.asking = NoQuestion /\ window'.list = window.list /\ work' = work
      BY <2>12 DEF CloseConfirm, Window
    <3> QED
      BY <3>1 DEF DeletionInv, DeletionsFollowTheList, Busy, NoQuestion
  <2>13. CASE Confirm
    <3>1. window'.asking = NoQuestion /\ window'.list = window.list
      BY <2>13 DEF Confirm, Window
    <3>2. CASE window.asking.action # "none"
      BY <2>2, <2>13, <3>1, <3>2 DEF Confirm, Control, Idle
    <3>3. CASE window.asking.action = "none"
      <4>1. /\ work'.at = "delete" /\ work'.things = window.asking.things
            /\ work'.checked = {}
        BY <2>13, <3>3 DEF Confirm, Idle
      <4> QED
        BY <2>3, <3>1, <4>1 DEF DeletionInv, DeletionsFollowTheList
    <3> QED
      BY <3>2, <3>3
  <2>14. CASE Refresh
    BY <2>2, <2>14 DEF Refresh, Clickable, Reading, Idle
  <2>15. ASSUME work.at \in {"delete", "remove"}
         PROVE  /\ window.asking = NoQuestion
                /\ \A t : work.things \ {t} \in SUBSET Offered
                /\ work.things \subseteq Offered
    BY <2>15 DEF DeletionInv, DeletionsFollowTheList, Busy
  <2>16. ASSUME NEW t \in Things, CheckReferences(t) PROVE DeletionInv'
    <3>1. CASE work' = [work EXCEPT !.at = "remove", !.checked = {t}]
      <4>1. work'.at = "remove" /\ work'.things = work.things /\ work'.checked = {t}
        BY <3>1 DEF Work
      <4> QED
        BY <2>3, <2>15, <2>16, <4>1 DEF CheckReferences
    <3> QED
      BY <2>4, <2>15, <2>16, <3>1 DEF CheckReferences
  <2>17. ASSUME NEW t \in Things, RemoveThing(t) PROVE DeletionInv'
    BY <2>4, <2>15, <2>17 DEF RemoveThing
  <2>18. CASE LookAtStack
    <3>1. window.asking = NoQuestion
      BY <2>18 DEF LookAtStack, DeletionInv, Busy
    <3> QED
      BY <2>2, <2>5, <2>18, <3>1 DEF LookAtStack, Reading, Idle
  <2>19. CASE SnapshotArrives \/ SnapshotFails
    <3>1. window.asking = NoQuestion
      BY <2>19 DEF SnapshotArrives, SnapshotFails, DeletionInv, Busy
    <3>2. window'.asking = NoQuestion
      BY <2>19, <3>1 DEF SnapshotArrives, SnapshotFails, Window
    <3> QED
      BY <2>2, <2>19, <3>2 DEF SnapshotArrives, SnapshotFails, Idle
  <2>20. CASE UNCHANGED explorerVars
    BY <2>1, <2>20 DEF explorerVars
  <2> QED
    BY <2>6, <2>7, <2>8, <2>9, <2>10, <2>11, <2>12, <2>13, <2>14, <2>16, <2>17,
       <2>18, <2>19, <2>20 DEF ExplorerNext, Works
<1>3. DeletionInv => DeletionsFollowTheList
  BY DEF DeletionInv
<1> QED
  BY <1>1, <1>2, <1>3, ExplorerTypeCorrect, PTL DEF ExplorerSpec

(* What the explorer is at has something left to do, and so has what it     *)
(* asks for.                                                                *)
WorkIsLeft ==
  /\ work.at \in {"delete", "remove"} => work.things # {}
  /\ work.at = "remove" => \E t \in work.things : work.checked = {t}
  /\ work.at = "control" => work.containers # {}
QuestionsName ==
  window.asking # NoQuestion /\ window.asking.action = "none" => window.asking.things # {}

(* Every state of the explorer has that.                                    *)
LEMMA WorkInvariant == ExplorerSpec => [](WorkIsLeft /\ QuestionsName)
<1>1. ExplorerInit => WorkIsLeft /\ QuestionsName
  BY DEF ExplorerInit, WorkIsLeft, QuestionsName, Reading, Idle
<1>2. ExplorerTypeOK /\ WorkIsLeft /\ QuestionsName /\ [ExplorerNext]_explorerVars
        => WorkIsLeft' /\ QuestionsName'
  <2> SUFFICES ASSUME window \in Window, work \in Work, WorkIsLeft, QuestionsName,
                      [ExplorerNext]_explorerVars
               PROVE  WorkIsLeft' /\ QuestionsName'
    BY DEF ExplorerTypeOK
  <2>1. ASSUME work' = work PROVE WorkIsLeft'
    BY <2>1 DEF WorkIsLeft
  <2>2. ASSUME window'.asking = window.asking PROVE QuestionsName'
    BY <2>2 DEF QuestionsName
  <2>3. ASSUME NEW left, NextDelete(left) PROVE WorkIsLeft'
    BY <2>3 DEF NextDelete, WorkIsLeft, Reading, Idle
  <2>4. ASSUME NEW left, NextControl(left) PROVE WorkIsLeft'
    BY <2>4 DEF NextControl, WorkIsLeft, Reading, Idle, Work
  <2>5. ASSUME NEW action, Control(action) PROVE WorkIsLeft'
    BY <2>5 DEF Control, WorkIsLeft, Idle
  <2>6. ASSUME work' \in {Idle, Reading} PROVE WorkIsLeft'
    BY <2>6 DEF WorkIsLeft, Idle, Reading
  <2>7. ASSUME NEW c \in Containers, OthersAct(c) \/ ControlContainer(c)
        PROVE  WorkIsLeft' /\ QuestionsName'
    BY <2>1, <2>2, <2>4, <2>7 DEF OthersAct, ControlContainer
  <2>8. ASSUME NEW t \in Things, Toggle(t) PROVE WorkIsLeft' /\ QuestionsName'
    BY <2>1, <2>2, <2>8 DEF Toggle, Window
  <2>9. CASE ToggleUnused \/ ToggleAll
    BY <2>1, <2>2, <2>9 DEF ToggleUnused, ToggleAll, Window
  <2>10. ASSUME NEW set \in SUBSET Things, RequestDelete(set)
         PROVE  WorkIsLeft' /\ QuestionsName'
    <3>1. set # {} BY <2>10 DEF RequestDelete
    <3>2. window'.asking = [things |-> set, action |-> "none"] /\ work' = work
      BY <2>10 DEF RequestDelete, Window
    <3> QED BY <2>1, <3>1, <3>2 DEF QuestionsName
  <2>11. ASSUME NEW action \in StackActions, StackAction(action)
         PROVE  WorkIsLeft' /\ QuestionsName'
    <3>1. WorkIsLeft' BY <2>1, <2>5, <2>11 DEF StackAction
    <3>2. \/ window' = window
          \/ window'.asking = [things |-> {}, action |-> action] /\ action # "none"
      BY <2>11 DEF StackAction, StackActions, Window
    <3> QED BY <3>1, <3>2 DEF QuestionsName
  <2>12. CASE CloseConfirm \/ Confirm
    <3>1. window'.asking = NoQuestion
      BY <2>12 DEF CloseConfirm, Confirm, Window
    <3>2. WorkIsLeft'
      <4>1. CASE CloseConfirm BY <2>1, <4>1 DEF CloseConfirm
      <4>2. CASE Confirm /\ window.asking.action # "none"
        BY <2>5, <4>2 DEF Confirm
      <4>3. CASE Confirm /\ window.asking.action = "none"
        BY <4>3 DEF Confirm, QuestionsName, WorkIsLeft, Idle
      <4> QED BY <2>12, <4>1, <4>2, <4>3
    <3> QED BY <3>1, <3>2 DEF QuestionsName
  <2>13. CASE Refresh
    BY <2>2, <2>6, <2>13 DEF Refresh
  <2>14. ASSUME NEW t \in Things, CheckReferences(t) \/ RemoveThing(t)
         PROVE  WorkIsLeft' /\ QuestionsName'
    <3>1. work' = [work EXCEPT !.at = "remove", !.checked = {t}] /\ t \in work.things => WorkIsLeft'
      BY DEF WorkIsLeft, Work
    <3> QED BY <2>2, <2>3, <2>14, <3>1 DEF CheckReferences, RemoveThing
  <2>15. CASE LookAtStack
    BY <2>2, <2>4, <2>6, <2>15 DEF LookAtStack
  <2>16. CASE SnapshotArrives \/ SnapshotFails
    BY <2>2, <2>6, <2>16 DEF SnapshotArrives, SnapshotFails, Window
  <2>17. CASE UNCHANGED explorerVars
    BY <2>1, <2>2, <2>17 DEF explorerVars
  <2> QED
    BY <2>7, <2>8, <2>9, <2>10, <2>11, <2>12, <2>13, <2>14, <2>15, <2>16, <2>17
    DEF ExplorerNext, Works
<1> QED
  BY <1>1, <1>2, ExplorerTypeCorrect, PTL DEF ExplorerSpec

(* While the buttons of the explorer are disabled, a call is on its way:    *)
(* a snapshot, a look at the stack, or the turn of a thing or container     *)
(* that is left, whichever of them failed before.                           *)
THEOREM BusyExplorersWork ==
  ExplorerSpec =>
    [](Busy => \/ work.at \in {"read", "look"}
               \/ work.at = "delete" /\ \E t \in Things : t \in work.things
               \/ work.at = "remove" /\ \E t \in Things : t \in work.checked
               \/ work.at = "control" /\ \E c \in Containers : c \in work.containers)
<1>1. ExplorerTypeOK /\ WorkIsLeft =>
        (Busy => \/ work.at \in {"read", "look"}
                 \/ work.at = "delete" /\ \E t \in Things : t \in work.things
                 \/ work.at = "remove" /\ \E t \in Things : t \in work.checked
                 \/ work.at = "control" /\ \E c \in Containers : c \in work.containers)
  BY DEF ExplorerTypeOK, Work, WorkIsLeft, Busy
<1> QED BY <1>1, ExplorerTypeCorrect, WorkInvariant, PTL

-----------------------------------------------------------------------------
(* All parts together *)

(* A part that is not the one explored stands still, so whatever holds of   *)
(* the behaviours of each part holds of the interface.                      *)
THEOREM PartsBehave ==
  InterfaceSpec => /\ ViewsSpec /\ TreeSpec /\ EditorSpec
                   /\ PanelSpec /\ RowsSpec /\ ExplorerSpec
<1>1. InterfaceInit => /\ ViewsInit /\ TreeInit /\ EditorInit
                       /\ PanelInit /\ RowsInit /\ ExplorerInit
  BY DEF InterfaceInit
<1>2. [InterfaceNext]_interfaceVars =>
        /\ [ViewsNext]_viewVars /\ [TreeNext]_treeVars /\ [EditorNext]_editorVars
        /\ [PanelNext]_panelVars /\ [RowsNext]_rowVars /\ [ExplorerNext]_explorerVars
  BY DEF InterfaceNext, Only, interfaceVars
<1> QED
  BY <1>1, <1>2, PTL
  DEF InterfaceSpec, ViewsSpec, TreeSpec, EditorSpec, PanelSpec, RowsSpec, ExplorerSpec

(* Every state of the interface is well typed, for any sessions, files,     *)
(* containers and images and any bounds.                                    *)
THEOREM InterfaceTypeCorrect == InterfaceSpec => []InterfaceTypeOK
<1>1. ViewsTypeOK /\ TreeTypeOK /\ EditorTypeOK /\ PanelTypeOK /\ RowsTypeOK /\ ExplorerTypeOK
        => InterfaceTypeOK
  BY DEF InterfaceTypeOK
<1> QED
  BY <1>1, PartsBehave, ViewsTypeCorrect, TreeTypeCorrect, EditorTypeCorrect,
     PanelTypeCorrect, RowsTypeCorrect, ExplorerTypeCorrect, PTL

(* What the run of the interface checks on two sessions holds of any        *)
(* number: a tree opens where its session has been, an editor without a     *)
(* mark holds what is on the disk, the views show only latest answers and   *)
(* the explorer deletes nothing but what its list shows without a container.*)
THEOREM InterfaceSafe ==
  InterfaceSpec => /\ []RememberedPathsWereListed
                   /\ []CleanEditorsWereSaved
                   /\ ViewsShowLatestAnswers
                   /\ []DeletionsFollowTheList
BY PartsBehave, RememberedWereListed, CleanAreSaved, ViewsImplementLatest,
   DeletionsAreListed, PTL

(* What the interface locks, it locks while a call is on its way whose      *)
(* answer unlocks it: the dialog of a deletion waits for a deletion of its  *)
(* own tree, the editor that says it is saving for a save of what it shows, *)
(* and the explorer for its host.  Liveness adds that the answer comes.     *)
LocksWait ==
  /\ tree.deleting => \E c \in treeCalls : c.op = "delete" /\ c.mounted
  /\ editor.status = "saving" => \E c \in fileCalls : c.then = "report" /\ c.current
  /\ Busy => \/ work.at \in {"read", "look"}
             \/ work.at \in {"delete", "remove"} /\ work.things # {}
             \/ work.at = "control" /\ work.containers # {}

(* No step of the interface leaves a lock behind with nothing to wait for,  *)
(* for any sessions, files, containers and images and any bounds.           *)
THEOREM LocksHaveReasons == InterfaceSpec => []LocksWait
<1>1. DialogInv /\ EditorInv /\ StatusIsTrue /\ ExplorerTypeOK /\ WorkIsLeft => LocksWait
  BY DEF DialogInv, Deletes, EditorInv, Reporting, StatusIsTrue, ExplorerTypeOK, Work,
         WorkIsLeft, Busy, LocksWait
<1> QED
  BY <1>1, PartsBehave, DialogInvariant, EditorInvariant, StatusInvariant,
     ExplorerTypeCorrect, WorkInvariant, PTL
=============================================================================
