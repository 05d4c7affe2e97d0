---------------------------- MODULE SessionViews ----------------------------
(***************************************************************************)
(* The parts of the screen that guard themselves against answers that come *)
(* late: the tunnels of a connection (hooks/useTunnels.js), whether a host *)
(* has a container runtime (hooks/useContainerRuntime.js), the resources   *)
(* of a host on a desktop and on a phone (components/ResourceBar.jsx and   *)
(* MobileResources.jsx) and an image of a Markdown preview                 *)
(* (editor/RemoteMarkdownImage.jsx).  They use three ways to tell a late   *)
(* answer from the one they wait for, and all must do as LatestAnswer says.*)
(* A behaviour is that of one part, named by hook.  A render and its       *)
(* effects are one step, a connection or an image stands for its host, and *)
(* leaving the screen is turning to None.                                  *)
(***************************************************************************)
EXTENDS Naturals, SshTabs

CONSTANT MaxQuestions   \* bound on the questions and on the effects run

ASSUME QuestionsAssumption == MaxQuestions \in Nat \ {0}

VARIABLES
  hook,      \* the part of the screen this behaviour is about
  about,     \* the props its effect depends on
  asked,     \* the calls made so far
  waiting,   \* the calls without an answer, a set of ViewQuestion
  changes,   \* connections one of whose tunnels is being changed
  effect,    \* the runs of its effect so far: a closure's own flag is
             \* lowered when the next one runs
  request,   \* request.current of useTunnels
  timer,     \* has the poll set its next setTimeout?
  shown      \* the answer in its state, or None

viewVars == <<hook, about, asked, waiting, changes, effect, request, timer, shown>>

Bound == 0..MaxQuestions
Requests == 0..(3 * MaxQuestions)
ViewQuestion == [of: Hosts, question: Bound, effect: Bound, request: Requests]
Answer == [of: Hosts, question: Bound]
Polls == {"resource bar", "phone resources"}
Hooks == {"tunnels", "runtime", "image"} \cup Polls

ViewsInit ==
  /\ hook \in Hooks
  /\ about = None
  /\ asked = 0
  /\ waiting = {}
  /\ changes = {}
  /\ effect = 0
  /\ request = 0
  /\ timer = FALSE
  /\ shown = None

-----------------------------------------------------------------------------

(* A call about the subject of a closure.                                   *)
AskAbout(s) ==
  IF s = None
  THEN UNCHANGED <<asked, waiting>>
  ELSE /\ asked' = asked + 1
       /\ waiting' = waiting \cup {[of |-> s, question |-> asked + 1,
                                    effect |-> effect', request |-> request']}

(* The dependencies of the effect change: its cleanup runs, it forgets what *)
(* it showed and asks again.                                                *)
Rerun(s) ==
  /\ s # about
  /\ effect < MaxQuestions /\ asked < MaxQuestions
  /\ about' = s
  /\ effect' = effect + 1
  /\ timer' = FALSE
  /\ shown' = None
  /\ AskAbout(s)
  /\ UNCHANGED <<hook, changes>>

Replace(q, current) ==
  shown' = IF current THEN [of |-> q.of, question |-> q.question] ELSE shown

(* useTunnels: the cleanup counts a request and reload another one.         *)
TunnelsTurn(s) ==
  /\ hook = "tunnels"
  /\ request' = request + 2
  /\ Rerun(s)

(* A closure's reload asks about the connection it was made for, and counts *)
(* a request of the counter that all of them share.                         *)
ReloadOf(s) ==
  /\ asked < MaxQuestions
  /\ request' = request + 1
  /\ UNCHANGED <<hook, about, effect, timer, shown>>
  /\ AskAbout(s)

(* A tunnels-changed event, the button, or the tab of the tunnels.          *)
TunnelsReload ==
  /\ hook = "tunnels" /\ about # None
  /\ ReloadOf(about)
  /\ UNCHANGED changes

(* handleSaveTunnel, handleToggleTunnel and confirmDeleteTunnel of the      *)
(* bottom panel await their call; it may have turned before they go on.     *)
TunnelChange ==
  /\ hook = "tunnels" /\ about # None
  /\ changes' = changes \cup {about}
  /\ UNCHANGED <<hook, about, asked, waiting, effect, request, timer, shown>>

(* They reload with the closure of the render that they began in, unless    *)
(* the call has failed.                                                     *)
TunnelChanged(s) ==
  /\ hook = "tunnels"
  /\ changes' = changes \ {s}
  /\ \/ ReloadOf(s)
     \/ UNCHANGED <<hook, about, asked, waiting, effect, request, timer, shown>>

(* Mutant of TunnelsAnswer: any answer about the connection will do.        *)
TunnelsAnswer_AnyRequest(q) ==
  /\ hook = "tunnels"
  /\ waiting' = waiting \ {q}
  /\ Replace(q, q.of = about) \/ UNCHANGED shown
  /\ UNCHANGED <<hook, about, asked, changes, effect, request, timer>>

(* An error leaves the list as it is.                                       *)
TunnelsAnswer(q) ==
  /\ hook = "tunnels"
  /\ waiting' = waiting \ {q}
  /\ Replace(q, q.request = request) \/ UNCHANGED shown
  /\ UNCHANGED <<hook, about, asked, changes, effect, request, timer>>

RuntimeTurn(s) ==
  /\ hook = "runtime"
  /\ UNCHANGED request
  /\ Rerun(s)

RuntimeAnswer(q) ==
  /\ hook = "runtime"
  /\ waiting' = waiting \ {q}
  /\ Replace(q, q.effect = effect) \/ UNCHANGED shown
  /\ UNCHANGED <<hook, about, asked, changes, effect, request, timer>>

(* RemoteMarkdownImage; an image that is not remote is shown without a call *)
(* and is not modelled.                                                     *)
ImageTurn(s) ==
  /\ hook = "image"
  /\ UNCHANGED request
  /\ Rerun(s)

ImageAnswer(q) ==
  /\ hook = "image"
  /\ waiting' = waiting \ {q}
  /\ Replace(q, q.effect = effect) \/ UNCHANGED shown
  /\ UNCHANGED <<hook, about, asked, changes, effect, request, timer>>

-----------------------------------------------------------------------------
(* The polls of the resources: the next query is set when one has ended *)

PollTurn(s) ==
  /\ hook \in Polls
  /\ UNCHANGED request
  /\ Rerun(s)

(* A sample, or an error that keeps the last one.                           *)
PollAnswer(q) ==
  /\ hook \in Polls
  /\ waiting' = waiting \ {q}
  /\ Replace(q, q.effect = effect) \/ UNCHANGED shown
  /\ timer' = (timer \/ q.effect = effect)
  /\ UNCHANGED <<hook, about, asked, changes, effect, request>>

PollTick ==
  /\ hook \in Polls /\ timer /\ asked < MaxQuestions
  /\ timer' = FALSE
  /\ UNCHANGED <<hook, about, changes, effect, request, shown>>
  /\ AskAbout(about)

ViewsNext ==
  \/ \E s \in Hosts \cup {None} :
       TunnelsTurn(s) \/ RuntimeTurn(s) \/ ImageTurn(s) \/ PollTurn(s)
  \/ \E q \in waiting :
       TunnelsAnswer(q) \/ RuntimeAnswer(q) \/ ImageAnswer(q) \/ PollAnswer(q)
  \/ TunnelsReload
  \/ TunnelChange
  \/ \E s \in changes : TunnelChanged(s)
  \/ PollTick

ViewsSpec == ViewsInit /\ [][ViewsNext]_viewVars

-----------------------------------------------------------------------------

ViewsTypeOK ==
  /\ hook \in Hooks
  /\ about \in Hosts \cup {None}
  /\ asked \in Bound
  /\ waiting \in SUBSET ViewQuestion
  /\ changes \in SUBSET Hosts
  /\ effect \in Bound
  /\ request \in Requests
  /\ timer \in BOOLEAN
  /\ shown \in Answer \cup {None}

(* What a part shows of its subject.  After a change of a tunnel the bottom *)
(* panel reloads the list of the connection that it was on when the change  *)
(* began, and shows it even if it has turned since; that list counts here   *)
(* as nothing shown of the connection it is on.                             *)
OnScreen ==
  IF hook = "tunnels" /\ shown # None /\ shown.of # about THEN None ELSE shown

(* Whatever the way a part tells late answers apart, what it shows of its   *)
(* subject answers the question that was its latest when the answer came:   *)
(* switching tabs, reloading and slow hosts never bring back older data,    *)
(* and, but for the list of tunnels, never put one host's data under        *)
(* another's name.                                                          *)
Latest == INSTANCE LatestAnswer
  WITH Subject <- Hosts, about <- about, asked <- asked, shown <- OnScreen
ViewsShowLatestAnswers == Latest!LatestSpec

(* docs/resource-monitor-details.md: the monitor "no superpone consultas y  *)
(* descarta respuestas de sesiones que ya no estan activas".  A monitor has *)
(* one query about its session on the way, or a timer for the next, never   *)
(* both and never two.                                                      *)
PollsDoNotOverlap ==
  hook \in Polls =>
    \A q \in waiting : q.effect = effect =>
      ~timer /\ \A other \in waiting : other.effect = effect => other = q
=============================================================================
