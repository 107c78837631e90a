----------------------------- MODULE ExtensionUI -----------------------------
(***************************************************************************)
(* What extensions ask of the user in the terminal UI: UIProtocol and      *)
(* GrantBroker (src/internal/extensions/ui_protocol.go, grant_broker.go),  *)
(* the goroutine that reads an extension's messages (client.go,            *)
(* supervisor.go), the channels to the UI thread (src/cmd/stell/tui.go)    *)
(* and the overlays on which the user answers (src/internal/tui).          *)
(*                                                                         *)
(* The UI thread takes one message or one key per step.  Of an overlay     *)
(* only its mode, whose text it shows and the request that keys answer     *)
(* are kept.                                                               *)
(***************************************************************************)
EXTENDS Naturals, Sequences, FiniteSets

CONSTANTS Exts,    \* extension processes
          Reqs,    \* UI requests, each with an id of its own
          Kinds,   \* kinds of the requests that extensions make
          Grants,  \* requests for permissions
          None,
          Cap,     \* room of uiCh and of the goroutine that waits for it
          GrantCap,\* room of grantCh, likewise
          Depth    \* bound on the overlays that the user opens over others

\* A question; news that need no answer of the user; a panel of the extension's own,
\* as an overlay or in place of the editor.
ASSUME KindsAssumption == Kinds \subseteq {"ask", "inform", "panel", "inline"}
ASSUME NoneAssumption ==
  None \notin Exts \cup Reqs \cup Grants \cup {"ask", "inform", "panel", "inline"}
ASSUME CapAssumption == Cap \in Nat /\ GrantCap \in Nat /\ Depth \in Nat

VARIABLES
  kind,     \* kind of each request
  owner,    \* the extension that each request comes from
  stage,    \* where each call of UIProtocol.Request stands
  pending,  \* UIProtocol.pending: whose channel is stored under the id
  answered, \* whose channel under the id holds an answer
  reader,   \* what the reading goroutine of each extension waits for
  sessions, \* CustomSessionManager.sessions
  uiCh,     \* requests on their way to the UI thread
  asker,    \* the extension that each grant is asked for by, None for a /reload
  gstage,   \* where each call of GrantBroker.Request stands
  gpending, \* GrantBroker.pending
  ganswer,  \* what the channel of a grant request holds
  grantCh,  \* grant requests on their way to the UI thread
  uiThread, \* the grant that a /reload on the UI thread waits for
  screen,   \* the overlay shown
  stack,    \* Model.overlayStack
  grantReq, \* Model.grantReq
  replaced, \* Model.extReplaceEditor is not empty
  yes       \* history: grants to which the user said yes

ext == <<kind, owner, stage, pending, answered, reader, sessions, uiCh>>
broker == <<asker, gstage, gpending, ganswer, grantCh, uiThread>>
display == <<screen, stack, grantReq, replaced>>
vars == <<ext, broker, display, yes>>

Panels == {r \in Reqs : kind[r] \in {"panel", "inline"}}

Frames == [mode: {"none", "list", "session", "confirm", "at", "ui", "grant"},
           shown: Reqs \cup Grants \cup {None},
           ui: Reqs \cup {None}]

Blank == [mode |-> "none", shown |-> None, ui |-> None]

\* Model.overlayActive.
Active(s) == s.mode # "none" \/ s.shown # None

\* A key reaches the UI thread while an overlay of one of these modes is shown.
Key(modes) == uiThread = None /\ screen.mode \in modes

\* An overlay with a request of an extension, and the request that its keys answer.
UIKey(kinds) == Key({"ui"}) /\ screen.ui # None /\ kind[screen.ui] \in kinds

Init ==
  /\ kind = [r \in Reqs |-> None] /\ owner = [r \in Reqs |-> None]
  /\ stage = [r \in Reqs |-> "new"]
  /\ pending = [r \in Reqs |-> "none"]
  /\ answered = [r \in Reqs |-> {}]
  /\ reader = [e \in Exts |-> None]
  /\ sessions = {} /\ uiCh = <<>>
  /\ asker = [g \in Grants |-> None]
  /\ gstage = [g \in Grants |-> "new"]
  /\ gpending = {} /\ ganswer = [g \in Grants |-> "none"]
  /\ grantCh = <<>> /\ uiThread = None
  /\ screen = Blank /\ stack = <<>> /\ grantReq = None /\ replaced = FALSE
  /\ yes = {}

-----------------------------------------------------------------------------
(* The extension's side of a UI request.                                   *)

Goto(r, from, to) == stage[r] = from /\ stage' = [stage EXCEPT ![r] = to]

\* UIProtocol.Respond: the answer goes to the channel stored under the id, if any.
Respond(r) ==
  /\ answered' = IF pending[r] = "none" THEN answered
                 ELSE [answered EXCEPT ![r] = @ \cup {pending[r]}]
  /\ pending' = [pending EXCEPT ![r] = "none"]

\* The emitter drops what does not fit.
EmitUI(r, painted) ==
  uiCh' = IF Len(uiCh) < Cap THEN Append(uiCh, [req |-> r, paint |-> painted]) ELSE uiCh

Received(r, e, k) ==
  /\ reader[e] = None
  /\ Goto(r, "new", "called")
  /\ kind' = [kind EXCEPT ![r] = k] /\ owner' = [owner EXCEPT ![r] = e]
  /\ UNCHANGED <<pending, answered, uiCh, broker, display, yes>>

\* A request to the host: the reading goroutine of the extension waits for the answer.
HostRequest(r, e, k) ==
  /\ k \in {"ask", "inform"}
  /\ Received(r, e, k)
  /\ reader' = [reader EXCEPT ![e] = r]
  /\ UNCHANGED sessions

\* A notification: a question or a panel gets a goroutine of its own, news do not.
Notification(r, e, k) ==
  /\ Received(r, e, k)
  /\ reader' = IF k = "inform" THEN [reader EXCEPT ![e] = r] ELSE reader
  /\ sessions' = IF k \in {"panel", "inline"} THEN sessions \cup {r} ELSE sessions

Register(r) ==
  /\ Goto(r, "called", "registered")
  /\ pending' = [pending EXCEPT ![r] = "own"]
  /\ UNCHANGED <<kind, owner, answered, reader, sessions, uiCh, broker, display, yes>>

Emit(r) ==
  /\ Goto(r, "registered", "waiting")
  /\ EmitUI(r, FALSE)
  /\ UNCHANGED <<kind, owner, pending, answered, reader, sessions, broker, display, yes>>

Return(r) ==
  /\ Goto(r, "waiting", "over")
  /\ "own" \in answered[r]
  /\ reader' = IF reader[owner[r]] = r /\ r \notin Panels
               THEN [reader EXCEPT ![owner[r]] = None] ELSE reader
  /\ UNCHANGED <<kind, owner, pending, answered, sessions, uiCh, broker, display, yes>>

\* custom/paint: a request under the id of the panel, made by the reading goroutine.
Paint(r) ==
  /\ r \in Panels /\ stage[r] # "new"
  /\ reader[owner[r]] = None
  /\ reader' = [reader EXCEPT ![owner[r]] = r]
  /\ pending' = [pending EXCEPT ![r] = "paint"]
  /\ EmitUI(r, TRUE)
  /\ UNCHANGED <<kind, owner, stage, answered, sessions, broker, display, yes>>

PaintReturns(r) ==
  /\ r \in Panels /\ "paint" \in answered[r]
  /\ answered' = [answered EXCEPT ![r] = @ \ {"paint"}]
  /\ reader' = [reader EXCEPT ![owner[r]] = None]
  /\ UNCHANGED <<kind, owner, stage, pending, sessions, uiCh, broker, display, yes>>

\* custom/done.
Done(r) ==
  /\ r \in Panels /\ stage[r] # "new"
  /\ reader[owner[r]] = None
  /\ sessions' = sessions \ {r}
  /\ Respond(r)
  /\ UNCHANGED <<kind, owner, stage, reader, uiCh, broker, display, yes>>

RequestStep(r) == Register(r) \/ Emit(r) \/ Return(r) \/ PaintReturns(r)

-----------------------------------------------------------------------------
(* Grants.                                                                 *)

Grant(g, from, to) == gstage[g] = from /\ gstage' = [gstage EXCEPT ![g] = to]

\* An extension asks to run a command; its reading goroutine waits.
GrantByExtension(g, e) ==
  /\ reader[e] = None
  /\ Grant(g, "new", "emitting")
  /\ gpending' = gpending \cup {g}
  /\ reader' = [reader EXCEPT ![e] = g]
  /\ asker' = [asker EXCEPT ![g] = e]
  /\ UNCHANGED <<kind, owner, stage, pending, answered, sessions, uiCh, ganswer, grantCh, uiThread, display, yes>>

\* /reload, typed where Enter reaches the editor, starts an extension that needs
\* permissions: the UI thread waits.
GrantByReload(g) ==
  /\ Key({"none", "ui", "grant"}) /\ ~UIKey({"panel", "inline"})
  /\ Grant(g, "new", "emitting")
  /\ gpending' = gpending \cup {g}
  /\ uiThread' = g
  /\ UNCHANGED <<ext, asker, ganswer, grantCh, display, yes>>

\* The emitter of grants waits for room.
EmitGrant(g) ==
  /\ Grant(g, "emitting", "waiting")
  /\ Len(grantCh) < GrantCap
  /\ grantCh' = Append(grantCh, g)
  /\ UNCHANGED <<ext, asker, gpending, ganswer, uiThread, display, yes>>

\* GrantBroker.Request returns to whoever asked.
GrantReturns(g) ==
  /\ reader' = IF asker[g] = None THEN reader ELSE [reader EXCEPT ![asker[g]] = None]
  /\ uiThread' = IF asker[g] = None THEN None ELSE uiThread
  /\ UNCHANGED <<kind, owner, stage, pending, answered, sessions, uiCh, asker, ganswer, grantCh, display, yes>>

GrantAnswered(g) ==
  /\ ganswer[g] # "none"
  /\ Grant(g, "waiting", ganswer[g])
  /\ UNCHANGED gpending
  /\ GrantReturns(g)

\* Mutant: a request that nobody answers is granted.
GrantTimeoutGrants(g) ==
  /\ Grant(g, "waiting", "granted")
  /\ gpending' = gpending \ {g}
  /\ GrantReturns(g)

\* Mutant: only an answer ends the wait.
GrantNoTimeout(g) ==
  /\ ganswer[g] # "none"
  /\ Grant(g, "waiting", "denied")
  /\ gpending' = gpending \ {g}
  /\ GrantReturns(g)

\* The five minutes are over, or the context is cancelled, and cleanup; an answer that
\* is there as well may lose.
GrantTimeout(g) ==
  /\ Grant(g, "waiting", "denied")
  /\ gpending' = gpending \ {g}
  /\ GrantReturns(g)

GrantStep(g) == EmitGrant(g) \/ GrantAnswered(g) \/ GrantTimeout(g)

-----------------------------------------------------------------------------
(* The stack of overlays.                                                  *)

\* pushOverlayFrame over the overlay s.
Push(s, frame) ==
  /\ stack' = IF Active(s) THEN Append(stack, s) ELSE stack
  /\ screen' = frame

\* closeOverlay, popOverlayFrame.
Close ==
  IF stack = <<>> THEN screen' = Blank /\ UNCHANGED stack
  ELSE screen' = stack[Len(stack)] /\ stack' = SubSeq(stack, 1, Len(stack) - 1)

-----------------------------------------------------------------------------
(* Messages to the UI thread.                                              *)

Take(isPaint, kinds) ==
  /\ uiThread = None
  /\ uiCh # <<>> /\ Head(uiCh).paint = isPaint /\ kind[Head(uiCh).req] \in kinds
  /\ uiCh' = Tail(uiCh)
  /\ UNCHANGED <<kind, owner, stage, reader, sessions, broker, grantReq, yes>>

\* handleFireForgetUI.
TakeInform ==
  /\ Take(FALSE, {"inform"})
  /\ Respond(Head(uiCh).req)
  /\ UNCHANGED <<screen, stack, replaced>>

\* uiOverlay is set before the overlay that is shown is saved.
TakeDialog ==
  /\ Take(FALSE, {"ask", "panel"})
  /\ LET r == Head(uiCh).req
     IN  Push([screen EXCEPT !.ui = r], [mode |-> "ui", shown |-> r, ui |-> r])
  /\ UNCHANGED <<pending, answered, replaced>>

TakeInline ==
  /\ Take(FALSE, {"inline"})
  /\ screen' = [screen EXCEPT !.ui = Head(uiCh).req]
  /\ replaced' = TRUE
  /\ UNCHANGED <<pending, answered, stack>>

\* customPaint: the panel that keys go to is drawn again; nothing is answered.
TakePaint ==
  /\ Take(TRUE, {"panel", "inline"})
  /\ LET r == Head(uiCh).req
     IN  screen' = IF screen.ui = r THEN [screen EXCEPT !.shown = r] ELSE screen
  /\ UNCHANGED <<pending, answered, stack, replaced>>

TakeUI == TakeInform \/ TakeDialog \/ TakeInline \/ TakePaint

\* openGrantOverlay: grantReq is not part of the frame.
TakeGrant ==
  /\ uiThread = None /\ grantCh # <<>>
  /\ grantCh' = Tail(grantCh)
  /\ grantReq' = Head(grantCh)
  /\ Push(screen, [mode |-> "grant", shown |-> Head(grantCh), ui |-> None])
  /\ UNCHANGED <<ext, asker, gstage, gpending, ganswer, uiThread, replaced, yes>>

-----------------------------------------------------------------------------
(* Keys.                                                                   *)

\* y, n, enter or Esc; respondUI.
AnswerAsk ==
  /\ UIKey({"ask"})
  /\ Respond(screen.ui)
  /\ Close
  /\ UNCHANGED <<kind, owner, stage, reader, sessions, uiCh, broker, grantReq, replaced, yes>>

\* Mutant: the session of the panel stays open.
LeavePanelOpen ==
  /\ UIKey({"panel", "inline"})
  /\ replaced' = FALSE
  /\ Respond(screen.ui)
  /\ Close
  /\ UNCHANGED <<kind, owner, stage, reader, sessions, uiCh, broker, grantReq, yes>>

\* Esc on a panel; every other key goes to the extension.
LeavePanel ==
  /\ UIKey({"panel", "inline"})
  /\ sessions' = sessions \ {screen.ui}
  /\ replaced' = FALSE
  /\ Respond(screen.ui)
  /\ Close
  /\ UNCHANGED <<kind, owner, stage, reader, uiCh, broker, grantReq, yes>>

\* The cursor or the input of a question: what keys answer is drawn again.
Redraw ==
  /\ UIKey({"ask"})
  /\ screen' = [screen EXCEPT !.shown = screen.ui]
  /\ UNCHANGED <<ext, broker, stack, grantReq, replaced, yes>>

\* respondGrant, GrantBroker.Respond.
AnswerGrant(granted) ==
  /\ Key({"grant"})
  /\ LET inTime == gpending \cap {grantReq}
     IN  /\ gpending' = gpending \ inTime
         /\ ganswer' = [g \in Grants |-> IF g \in inTime THEN granted ELSE ganswer[g]]
         /\ yes' = IF granted = "granted" THEN yes \cup ({grantReq} \ {None}) ELSE yes
  /\ grantReq' = None
  /\ Close
  /\ UNCHANGED <<ext, asker, gstage, grantCh, uiThread, replaced>>

\* A key that the overlay does not take opens the tree, the sessions, the settings ...
OpenList ==
  /\ Key({"none", "list", "session", "at", "ui", "grant"})
  /\ ~UIKey({"panel", "inline"})
  /\ Len(stack) < Depth
  /\ \E mode \in {"list", "session"} : Push(screen, [Blank EXCEPT !.mode = mode])
  /\ UNCHANGED <<ext, broker, grantReq, replaced, yes>>

\* ... and Esc or Enter closes it; also what a paint has drawn without an overlay.
CloseList ==
  /\ \/ Key({"list", "session"})
     \/ Key({"none"}) /\ Active(screen)
     \/ Key({"ui"}) /\ screen.ui = None
  /\ Close
  /\ UNCHANGED <<ext, broker, grantReq, replaced, yes>>

ConfirmDelete ==
  /\ Key({"session"})
  /\ Push(screen, [Blank EXCEPT !.mode = "confirm"])
  /\ UNCHANGED <<ext, broker, grantReq, replaced, yes>>

ConfirmNo ==
  /\ Key({"confirm"})
  /\ Close
  /\ UNCHANGED <<ext, broker, grantReq, replaced, yes>>

\* Mutant: what lies below the confirmation stays on the stack.
ConfirmYesKeepsStack ==
  /\ Key({"confirm"})
  /\ screen' \in {Blank, [Blank EXCEPT !.mode = "session"]}
  /\ UNCHANGED <<ext, broker, stack, grantReq, replaced, yes>>

\* clearOverlayState: the whole stack goes.  The sessions are opened again when one
\* was deleted.
ConfirmYes ==
  /\ Key({"confirm"})
  /\ stack' = <<>>
  /\ screen' \in {Blank, [Blank EXCEPT !.mode = "session"]}
  /\ UNCHANGED <<ext, broker, grantReq, replaced, yes>>

\* "@" reaches the editor, whose file picker takes the place of the overlay.
TypeAt ==
  /\ Key({"none", "session", "ui", "grant"})
  /\ ~UIKey({"panel", "inline"})
  /\ screen' = [screen EXCEPT !.mode = "at", !.shown = None]
  /\ UNCHANGED <<ext, broker, stack, grantReq, replaced, yes>>

LeaveAt ==
  /\ Key({"at"})
  /\ Close
  /\ UNCHANGED <<ext, broker, grantReq, replaced, yes>>

\* Esc when only the editor is replaced.
RestoreEditor ==
  /\ Key({"none"}) /\ ~Active(screen)
  /\ replaced /\ replaced' = FALSE
  /\ UNCHANGED <<ext, broker, screen, stack, grantReq, yes>>

UserStep ==
  \/ AnswerAsk \/ LeavePanel \/ Redraw
  \/ \E granted \in {"granted", "denied"} : AnswerGrant(granted)
  \/ OpenList \/ CloseList \/ ConfirmDelete \/ ConfirmNo \/ ConfirmYes
  \/ TypeAt \/ LeaveAt \/ RestoreEditor

-----------------------------------------------------------------------------
Next ==
  \/ \E r \in Reqs : \/ \E e \in Exts, k \in Kinds : HostRequest(r, e, k) \/ Notification(r, e, k)
                     \/ RequestStep(r) \/ Paint(r) \/ Done(r)
  \/ \E g \in Grants : \/ \E e \in Exts : GrantByExtension(g, e)
                       \/ GrantByReload(g) \/ GrantStep(g)
  \/ TakeUI \/ TakeGrant
  \/ UserStep

Spec == Init /\ [][Next]_vars

\* Goroutines and the UI thread are scheduled and timers fire.  The user owes nothing.
Fairness ==
  /\ \A r \in Reqs : WF_vars(RequestStep(r))
  /\ \A g \in Grants : WF_vars(GrantStep(g))
  /\ WF_vars(TakeUI) /\ WF_vars(TakeGrant)

FairSpec == Spec /\ Fairness

-----------------------------------------------------------------------------
(* Properties.                                                             *)

\* A reading goroutine waits for the answer to r.
Waits(r) == \E e \in Exts : reader[e] = r

ExtType ==
  /\ kind \in [Reqs -> Kinds \cup {None}] /\ owner \in [Reqs -> Exts \cup {None}]
  /\ stage \in [Reqs -> {"new", "called", "registered", "waiting", "over"}]
  /\ pending \in [Reqs -> {"none", "own", "paint"}]
  /\ answered \in [Reqs -> SUBSET {"own", "paint"}]
  /\ reader \in [Exts -> Reqs \cup Grants \cup {None}]
  /\ sessions \in SUBSET Panels

Messages == [req: Reqs, paint: BOOLEAN]

ChannelType == uiCh \in Seq(Messages) /\ Len(uiCh) <= Cap

BrokerType ==
  /\ asker \in [Grants -> Exts \cup {None}]
  /\ gstage \in [Grants -> {"new", "emitting", "waiting", "granted", "denied"}]
  /\ gpending \in SUBSET Grants
  /\ ganswer \in [Grants -> {"none", "granted", "denied"}]
  /\ grantCh \in Seq(Grants) /\ Len(grantCh) <= GrantCap
  /\ uiThread \in Grants \cup {None}

DisplayType ==
  /\ screen \in Frames /\ stack \in Seq(Frames)
  /\ grantReq \in Grants \cup {None}
  /\ replaced \in BOOLEAN /\ yes \in SUBSET Grants

TypeOK == ExtType /\ ChannelType /\ BrokerType /\ DisplayType

\* Nothing is buried: when no overlay is shown, none waits below; the user can always
\* get at every overlay that was pushed aside and not dropped.
NothingBuried == ~Active(screen) => stack = <<>>

\* A panel whose request is answered takes no further paint or key: however its end by
\* the extension and the Esc of the user race, its session is closed by then.
AnsweredPanelIsClosed == \A r \in Panels : "own" \in answered[r] => r \notin sessions

\* Overlays may be shuffled and answers late, but a permission is given only to an
\* extension for whose request the UI reported a yes.
GrantsNeedYes == \A g \in Grants : gstage[g] = "granted" => g \in yes

\* News that got into the channel come back to their extension without the user's
\* help, also when a /reload keeps the UI thread for the length of a grant's timeout.
InformsReturn ==
  \A r \in Reqs :
    kind[r] = "inform" /\ [req |-> r, paint |-> FALSE] \in {uiCh[i] : i \in DOMAIN uiCh}
      ~> stage[r] = "over"

\* Every request for a permission ends, whatever became of the overlay that asked.
GrantsEnd == \A g \in Grants : gstage[g] # "new" ~> gstage[g] \in {"granted", "denied"}

\* overlay_stack.go:22, "snapshot of the state restored on pop when the frame becomes
\* the top one again": what is shown is what the keys answer.
ShownIsAnswered == screen.mode = "ui" => screen.shown = screen.ui

\* ui_overlay.go:214, customPaint is "handled as a fire-and-forget update": the goroutine
\* that passed a paint on gets back to reading, whatever the user does.
PaintForgotten ==
  \A r \in Reqs : r \in Panels /\ Waits(r) ~> ~Waits(r)

\* What an extension waits for comes to an end without a key being pressed.
AskersReturn == InformsReturn /\ GrantsEnd
=============================================================================
