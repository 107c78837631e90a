-------------------------- MODULE ExtensionUIProofs --------------------------
(***************************************************************************)
(* Proofs about ExtensionUI, for any number of extensions, requests and    *)
(* grants, any capacity of the channels and any depth of overlays.         *)
(***************************************************************************)
EXTENDS ExtensionUI, SequenceTheorems, TLAPS

\* The steps by who takes them.
ExtensionStep ==
  \E r \in Reqs : \/ \E e \in Exts, k \in Kinds : HostRequest(r, e, k) \/ Notification(r, e, k)
                  \/ RequestStep(r) \/ Paint(r) \/ Done(r)

BrokerStep ==
  \E g \in Grants : \/ \E e \in Exts : GrantByExtension(g, e)
                    \/ GrantByReload(g) \/ GrantStep(g)

-----------------------------------------------------------------------------
(* Overlays.                                                               *)

\* An overlay that was pushed aside is one that was shown.
StackedShown == \A i \in DOMAIN stack : Active(stack[i])

OverlayInv == DisplayType /\ StackedShown /\ NothingBuried

\* Opening an overlay over the shown one preserves the invariant.
LEMMA PushKeeps ==
  ASSUME NEW s \in Frames, NEW frame \in Frames, OverlayInv, Active(s) <=> Active(screen),
         Active(frame), Push(s, frame)
  PROVE  screen' \in Frames /\ stack' \in Seq(Frames) /\ StackedShown' /\ NothingBuried'
<1>1. screen' = frame /\ screen' \in Frames /\ NothingBuried'
  BY DEF Push, NothingBuried, Active
<1>2. CASE Active(s)
  <2>1. stack' = Append(stack, s) /\ stack \in Seq(Frames)
    BY <1>2 DEF Push, OverlayInv, DisplayType
  <2>2. /\ stack' \in Seq(Frames) /\ DOMAIN stack' = 1..(Len(stack) + 1)
        /\ \A i \in 1..Len(stack) : stack'[i] = stack[i]
        /\ stack'[Len(stack) + 1] = s
        /\ DOMAIN stack = 1..Len(stack) /\ Len(stack) \in Nat
    BY <2>1
  <2>3. \A i \in 1..(Len(stack) + 1) : i \in 1..Len(stack) \/ i = Len(stack) + 1
    BY <2>2
  <2>4. StackedShown'
    BY <1>2, <2>2, <2>3 DEF OverlayInv, StackedShown, Active
  <2>5. QED BY <1>1, <2>2, <2>4
<1>3. CASE ~Active(s)
  BY <1>1, <1>3 DEF Push, OverlayInv, DisplayType, StackedShown, Active
<1>4. QED BY <1>2, <1>3

\* So does closing it: what comes up is an overlay, or nothing is left.
LEMMA CloseKeeps ==
  ASSUME OverlayInv, Close
  PROVE  screen' \in Frames /\ stack' \in Seq(Frames) /\ StackedShown' /\ NothingBuried'
<1>1. stack \in Seq(Frames) /\ Len(stack) \in Nat /\ DOMAIN stack = 1..Len(stack)
  BY DEF OverlayInv, DisplayType
<1>2. CASE stack = <<>>
  <2>1. Blank \in Frames
    BY DEF Blank, Frames
  <2>2. QED BY <1>1, <1>2, <2>1 DEF Close, OverlayInv, StackedShown, NothingBuried, Active
<1>3. CASE stack # <<>>
  <2>1. Len(stack) \in DOMAIN stack
    BY <1>1, <1>3, EmptySeq
  <2>2. screen' = stack[Len(stack)] /\ stack' = SubSeq(stack, 1, Len(stack) - 1)
    BY <1>3 DEF Close
  <2>3. screen' \in Frames /\ Active(screen')
    BY <1>1, <2>1, <2>2 DEF OverlayInv, StackedShown
  <2>4. /\ stack' \in Seq(Frames) /\ DOMAIN stack' = 1..(Len(stack) - 1)
        /\ \A i \in 1..(Len(stack) - 1) : stack'[i] = stack[i]
    BY <1>1, <2>1, <2>2
  <2>5. StackedShown'
    BY <1>1, <2>4 DEF OverlayInv, StackedShown, Active
  <2>6. NothingBuried'
    BY <2>3 DEF NothingBuried, Active
  <2>7. QED BY <2>3, <2>4, <2>5, <2>6
<1>4. QED BY <1>2, <1>3

-----------------------------------------------------------------------------
(* The channels to the UI thread.                                          *)

\* What the emitters put into the channels, and what the UI thread takes out, keeps
\* them typed and within their capacity.
LEMMA ChannelTyped ==
  ASSUME ChannelType, [Next]_vars
  PROVE  ChannelType'
<1> USE CapAssumption
<1>1. ASSUME NEW r \in Reqs, NEW painted \in BOOLEAN, EmitUI(r, painted)
      PROVE  ChannelType'
  <2> DEFINE msg == [req |-> r, paint |-> painted]
  <2>1. msg \in Messages
    BY DEF Messages
  <2>2. Append(uiCh, msg) \in Seq(Messages) /\ Len(Append(uiCh, msg)) = Len(uiCh) + 1
    BY <2>1, AppendProperties DEF ChannelType
  <2>3. uiCh' = IF Len(uiCh) < Cap THEN Append(uiCh, msg) ELSE uiCh
    BY <1>1 DEF EmitUI
  <2>4. QED BY <2>2, <2>3 DEF ChannelType
<1>2. ASSUME uiCh # <<>>, uiCh' = Tail(uiCh)
      PROVE  ChannelType'
  BY <1>2, HeadTailProperties, EmptySeq DEF ChannelType
<1>3. ASSUME UNCHANGED uiCh
      PROVE  ChannelType'
  BY <1>3 DEF ChannelType
<1>4. CASE ExtensionStep
  BY <1>1, <1>3, <1>4 DEF ExtensionStep, HostRequest, Notification, Received, RequestStep,
     Register, Emit, Return, PaintReturns, Paint, Done
<1>5. CASE TakeUI
  BY <1>2, <1>5 DEF TakeUI, TakeInform, TakeDialog, TakeInline, TakePaint, Take
<1>6. CASE BrokerStep \/ TakeGrant
  BY <1>3, <1>6 DEF BrokerStep, GrantByExtension, GrantByReload, GrantStep, EmitGrant,
     GrantAnswered, GrantTimeout, GrantReturns, TakeGrant, ext
<1>7. CASE UserStep
  BY <1>3, <1>7 DEF UserStep, AnswerAsk, LeavePanel, Redraw, AnswerGrant, OpenList, CloseList,
     ConfirmDelete, ConfirmNo, ConfirmYes, TypeAt, LeaveAt, RestoreEditor, ext
<1>8. CASE UNCHANGED vars
  BY <1>3, <1>8 DEF vars, ext
<1>9. QED BY <1>4, <1>5, <1>6, <1>7, <1>8 DEF Next, ExtensionStep, BrokerStep

\* Likewise for the state of the broker.
LEMMA BrokerTyped ==
  ASSUME BrokerType, [Next]_vars
  PROVE  BrokerType'
<1> USE CapAssumption
<1>1. ASSUME UNCHANGED broker
      PROVE  BrokerType'
  BY <1>1 DEF BrokerType, broker
<1>2. CASE BrokerStep
  <2>1. PICK g \in Grants : \/ \E e \in Exts : GrantByExtension(g, e)
                            \/ GrantByReload(g) \/ GrantStep(g)
    BY <1>2 DEF BrokerStep
  <2>2. CASE \E e \in Exts : GrantByExtension(g, e)
    BY <2>2 DEF GrantByExtension, Grant, BrokerType
  <2>3. CASE GrantByReload(g)
    BY <2>3 DEF GrantByReload, Grant, BrokerType
  <2>4. CASE EmitGrant(g)
    <3>1. Append(grantCh, g) \in Seq(Grants) /\ Len(Append(grantCh, g)) = Len(grantCh) + 1
      BY AppendProperties DEF BrokerType
    <3>2. QED BY <2>4, <3>1 DEF EmitGrant, Grant, BrokerType
  <2>5. CASE GrantAnswered(g)
    BY <2>5 DEF GrantAnswered, GrantReturns, Grant, BrokerType
  <2>6. CASE GrantTimeout(g)
    BY <2>6 DEF GrantTimeout, GrantReturns, Grant, BrokerType
  <2>7. QED BY <2>1, <2>2, <2>3, <2>4, <2>5, <2>6 DEF GrantStep
<1>3. CASE TakeGrant
  <2>1. Tail(grantCh) \in Seq(Grants) /\ Len(Tail(grantCh)) = Len(grantCh) - 1
    BY <1>3, HeadTailProperties DEF TakeGrant, BrokerType
  <2>2. QED BY <1>3, <2>1 DEF TakeGrant, BrokerType
<1>4. CASE \E granted \in {"granted", "denied"} : AnswerGrant(granted)
  BY <1>4 DEF AnswerGrant, BrokerType
<1>5. CASE ExtensionStep \/ TakeUI
  BY <1>1, <1>5 DEF ExtensionStep, HostRequest, Notification, Received, RequestStep,
     Register, Emit, Return, PaintReturns, Paint, Done,
     TakeUI, TakeInform, TakeDialog, TakeInline, TakePaint, Take
<1>6. CASE AnswerAsk \/ LeavePanel \/ Redraw \/ OpenList \/ CloseList \/ ConfirmDelete
           \/ ConfirmNo \/ ConfirmYes \/ TypeAt \/ LeaveAt \/ RestoreEditor \/ UNCHANGED vars
  BY <1>1, <1>6 DEF AnswerAsk, LeavePanel, Redraw, OpenList, CloseList,
     ConfirmDelete, ConfirmNo, ConfirmYes, TypeAt, LeaveAt, RestoreEditor, vars
<1>7. QED BY <1>2, <1>3, <1>4, <1>5, <1>6 DEF Next, ExtensionStep, BrokerStep, UserStep

-----------------------------------------------------------------------------
(* The stack of overlays under every step.                                 *)

LEMMA OverlayKept ==
  ASSUME ChannelType, BrokerType, OverlayInv, [Next]_vars
  PROVE  OverlayInv'
<1> USE NoneAssumption
<1> DEFINE Kept == screen' \in Frames /\ stack' \in Seq(Frames) /\ StackedShown' /\ NothingBuried'
<1>0. screen \in Frames /\ stack \in Seq(Frames)
  BY DEF OverlayInv, DisplayType
<1>1. ASSUME UNCHANGED <<screen, stack>>
      PROVE  Kept
  BY <1>1, <1>0 DEF OverlayInv, StackedShown, NothingBuried, Active
<1>2. ASSUME UNCHANGED stack, screen' \in Frames, Active(screen) => Active(screen')
      PROVE  Kept
  BY <1>2, <1>0 DEF OverlayInv, StackedShown, NothingBuried, Active
<1>3. ASSUME NEW frame \in Frames, Active(frame), Push(screen, frame)
      PROVE  Kept
  BY <1>3, <1>0, PushKeeps
<1>4. Blank \in Frames /\ \A mode \in {"list", "session", "confirm"} :
                            [Blank EXCEPT !.mode = mode] \in Frames
                            /\ Active([Blank EXCEPT !.mode = mode])
  BY DEF Blank, Frames, Active
<1>5. CASE ExtensionStep
  BY <1>1, <1>5, <1>0 DEF ExtensionStep, HostRequest, Notification, Received, RequestStep,
     Register, Emit, Return, PaintReturns, Paint, Done, display, OverlayInv, DisplayType
<1>6. CASE BrokerStep
  BY <1>1, <1>6, <1>0 DEF BrokerStep, GrantByExtension, GrantByReload, GrantStep, EmitGrant,
     GrantAnswered, GrantTimeout, GrantReturns, display, OverlayInv, DisplayType
<1>7. CASE TakeUI
  <2>1. Head(uiCh).req \in Reqs
    <3>1. uiCh \in Seq(Messages) /\ uiCh # <<>>
      BY <1>7 DEF ChannelType, TakeUI, TakeInform, TakeDialog, TakeInline, TakePaint, Take
    <3>2. Head(uiCh) \in Messages
      BY <3>1
    <3>3. QED BY <3>2 DEF Messages
  <2>2. CASE TakeInform
    BY <1>1, <2>2 DEF TakeInform, Take, OverlayInv, DisplayType
  <2>3. CASE TakeDialog
    <3> DEFINE s == [screen EXCEPT !.ui = Head(uiCh).req]
               frame == [mode |-> "ui", shown |-> Head(uiCh).req, ui |-> Head(uiCh).req]
    <3>1. s \in Frames /\ frame \in Frames /\ (Active(s) <=> Active(screen)) /\ Active(frame)
      BY <1>0, <2>1 DEF Frames, Active
    <3>2. Push(s, frame)
      BY <2>3 DEF TakeDialog
    <3>3. Kept
      BY <3>1, <3>2, PushKeeps
    <3>4. QED BY <2>3, <3>3 DEF TakeDialog, Take, OverlayInv, DisplayType
  <2>4. CASE TakeInline
    <3>1. screen' \in Frames /\ (Active(screen) => Active(screen'))
      BY <1>0, <2>1, <2>4 DEF TakeInline, Frames, Active
    <3>2. Kept
      BY <1>2, <2>4, <3>1 DEF TakeInline
    <3>3. QED BY <2>4, <3>2 DEF TakeInline, Take, OverlayInv, DisplayType
  <2>5. CASE TakePaint
    <3>1. screen' \in Frames /\ (Active(screen) => Active(screen'))
      BY <1>0, <2>1, <2>5 DEF TakePaint, Frames, Active
    <3>2. Kept
      BY <1>2, <2>5, <3>1 DEF TakePaint
    <3>3. QED BY <2>5, <3>2 DEF TakePaint, Take, OverlayInv, DisplayType
  <2>6. QED BY <1>7, <2>2, <2>3, <2>4, <2>5 DEF TakeUI
<1>8. CASE TakeGrant
  <2>1. Head(grantCh) \in Grants
    BY <1>8, HeadTailProperties DEF BrokerType, TakeGrant
  <2>2. /\ [mode |-> "grant", shown |-> Head(grantCh), ui |-> None] \in Frames
        /\ Active([mode |-> "grant", shown |-> Head(grantCh), ui |-> None])
    BY <2>1 DEF Frames, Active
  <2>3. Kept
    BY <1>3, <1>8, <2>2 DEF TakeGrant
  <2>4. QED BY <1>8, <2>1, <2>3 DEF TakeGrant, OverlayInv, DisplayType
<1>9. CASE \/ AnswerAsk \/ LeavePanel \/ CloseList \/ ConfirmNo \/ LeaveAt
           \/ \E granted \in {"granted", "denied"} : AnswerGrant(granted)
  <2>1. Close
    BY <1>9 DEF AnswerAsk, LeavePanel, CloseList, ConfirmNo, LeaveAt, AnswerGrant
  <2>2. Kept
    BY <2>1, CloseKeeps
  <2>3. grantReq' \in Grants \cup {None} /\ replaced' \in BOOLEAN /\ yes' \in SUBSET Grants
    BY <1>9 DEF AnswerAsk, LeavePanel, CloseList, ConfirmNo, LeaveAt, AnswerGrant, OverlayInv, DisplayType
  <2>4. QED BY <2>2, <2>3 DEF OverlayInv, DisplayType
<1>10. CASE OpenList \/ ConfirmDelete
  <2>1. Kept
    BY <1>3, <1>4, <1>10 DEF OpenList, ConfirmDelete
  <2>2. QED BY <1>10, <2>1 DEF OpenList, ConfirmDelete, OverlayInv, DisplayType
<1>11. CASE Redraw \/ TypeAt
  <2>1. screen' \in Frames /\ (Active(screen) => Active(screen'))
    BY <1>0, <1>11 DEF Redraw, TypeAt, UIKey, Key, Frames, Active
  <2>2. Kept
    BY <1>2, <1>11, <2>1 DEF Redraw, TypeAt
  <2>3. QED BY <1>11, <2>2 DEF Redraw, TypeAt, OverlayInv, DisplayType
<1>12. CASE ConfirmYes
  <2>1. screen' \in Frames /\ stack' = <<>>
    BY <1>4, <1>12 DEF ConfirmYes
  <2>2. Kept
    BY <2>1 DEF StackedShown, NothingBuried, Active
  <2>3. QED BY <1>12, <2>2 DEF ConfirmYes, OverlayInv, DisplayType
<1>13. CASE RestoreEditor \/ UNCHANGED vars
  BY <1>1, <1>13 DEF RestoreEditor, vars, display, OverlayInv, DisplayType
<1>14. QED BY <1>5, <1>6, <1>7, <1>8, <1>9, <1>10, <1>11, <1>12, <1>13
          DEF Next, ExtensionStep, BrokerStep, UserStep

-----------------------------------------------------------------------------
(* Requests and panels.                                                    *)

\* A request that was not made has no kind, no channel and no answer.
FreshUntouched ==
  \A r \in Reqs : stage[r] = "new" => kind[r] = None /\ pending[r] = "none" /\ answered[r] = {}

RequestInv == ExtType /\ FreshUntouched /\ AnsweredPanelIsClosed

\* An answer concerns one request, and only when a channel is stored for it.
LEMMA RespondEffect ==
  ASSUME RequestInv, NEW r \in Reqs, Respond(r)
  PROVE  /\ pending' \in [Reqs -> {"none", "own", "paint"}]
         /\ answered' \in [Reqs -> SUBSET {"own", "paint"}]
         /\ \A q \in Reqs : q # r => pending'[q] = pending[q] /\ answered'[q] = answered[q]
         /\ stage[r] = "new" => pending'[r] = "none" /\ answered'[r] = {}
<1>1. pending \in [Reqs -> {"none", "own", "paint"}] /\ answered \in [Reqs -> SUBSET {"own", "paint"}]
  BY DEF RequestInv, ExtType
<1>2. stage[r] = "new" => pending[r] = "none" /\ answered[r] = {}
  BY DEF RequestInv, FreshUntouched
<1>3. pending' = [pending EXCEPT ![r] = "none"]
  BY DEF Respond
<1>4. CASE pending[r] = "none"
  BY <1>1, <1>2, <1>3, <1>4 DEF Respond
<1>5. CASE pending[r] # "none"
  <2>1. answered' = [answered EXCEPT ![r] = @ \cup {pending[r]}]
    BY <1>5 DEF Respond
  <2>2. QED BY <1>1, <1>2, <1>3, <1>5, <2>1
<1>6. QED BY <1>4, <1>5

\* A step of the UI thread that answers a request, when that request is no panel or its
\* session is closed by the same step, preserves the invariant.
LEMMA AnswerKeeps ==
  ASSUME RequestInv, NEW r \in Reqs, Respond(r), UNCHANGED <<kind, owner, stage>>,
         reader' \in [Exts -> Reqs \cup Grants \cup {None}],
         sessions' \subseteq sessions, r \notin Panels \/ r \notin sessions'
  PROVE  RequestInv'
<1>1. ExtType'
  BY RespondEffect DEF RequestInv, ExtType, Panels
<1>2. FreshUntouched'
  <2> SUFFICES ASSUME NEW q \in Reqs, stage'[q] = "new"
               PROVE  kind'[q] = None /\ pending'[q] = "none" /\ answered'[q] = {}
    BY DEF FreshUntouched
  <2>1. CASE q = r
    BY <2>1, RespondEffect DEF RequestInv, FreshUntouched
  <2>2. CASE q # r
    BY <2>2, RespondEffect DEF RequestInv, FreshUntouched
  <2>3. QED BY <2>1, <2>2
<1>3. AnsweredPanelIsClosed'
  <2> SUFFICES ASSUME NEW q \in Panels', "own" \in answered'[q]
               PROVE  q \notin sessions'
    BY DEF AnsweredPanelIsClosed
  <2>1. q \in Panels /\ q \in Reqs
    BY DEF Panels
  <2>2. CASE q = r
    BY <2>1, <2>2
  <2>3. CASE q # r
    BY <2>1, <2>3, RespondEffect DEF RequestInv, AnsweredPanelIsClosed
  <2>4. QED BY <2>2, <2>3
<1>4. QED BY <1>1, <1>2, <1>3 DEF RequestInv

\* A request that arrives preserves it, whether or not it opens the session of a panel.
LEMMA ReceivedKeeps ==
  ASSUME RequestInv, NEW r \in Reqs, NEW e \in Exts, NEW k \in Kinds, Received(r, e, k),
         reader' \in [Exts -> Reqs \cup Grants \cup {None}],
         \/ sessions' = sessions
         \/ sessions' = sessions \cup {r} /\ k \in {"panel", "inline"}
  PROVE  RequestInv'
<1> USE KindsAssumption, NoneAssumption
<1>1. /\ kind' = [kind EXCEPT ![r] = k] /\ owner' = [owner EXCEPT ![r] = e]
      /\ stage' = [stage EXCEPT ![r] = "called"] /\ stage[r] = "new"
      /\ pending' = pending /\ answered' = answered
  BY DEF Received, Goto
<1>2. kind[r] = None /\ answered[r] = {}
  BY <1>1 DEF RequestInv, FreshUntouched
<1>3. Panels \subseteq Panels' /\ (k \in {"panel", "inline"} => r \in Panels')
  BY <1>1, <1>2 DEF RequestInv, ExtType, Panels
<1>4. ExtType'
  BY <1>1, <1>3 DEF RequestInv, ExtType
<1>5. FreshUntouched'
  BY <1>1 DEF RequestInv, ExtType, FreshUntouched
<1>6. AnsweredPanelIsClosed'
  <2> SUFFICES ASSUME NEW q \in Panels', "own" \in answered'[q]
               PROVE  q \notin sessions'
    BY DEF AnsweredPanelIsClosed
  <2>1. q # r
    BY <1>1, <1>2
  <2>2. q \in Panels
    BY <1>1, <2>1 DEF Panels, RequestInv, ExtType
  <2>3. q \notin sessions
    BY <1>1, <2>2 DEF RequestInv, AnsweredPanelIsClosed
  <2>4. QED BY <2>1, <2>3
<1>7. QED BY <1>4, <1>5, <1>6 DEF RequestInv

LEMMA RequestKept ==
  ASSUME ChannelType, DisplayType, RequestInv, [Next]_vars
  PROVE  RequestInv'
<1> USE NoneAssumption
<1>0. /\ stage \in [Reqs -> {"new", "called", "registered", "waiting", "over"}]
      /\ owner \in [Reqs -> Exts \cup {None}]
      /\ pending \in [Reqs -> {"none", "own", "paint"}]
      /\ answered \in [Reqs -> SUBSET {"own", "paint"}]
      /\ reader \in [Exts -> Reqs \cup Grants \cup {None}]
  BY DEF RequestInv, ExtType
<1>1. ASSUME UNCHANGED <<kind, owner, stage, pending, answered, sessions>>,
             reader' \in [Exts -> Reqs \cup Grants \cup {None}]
      PROVE  RequestInv'
  BY <1>1 DEF RequestInv, ExtType, FreshUntouched, AnsweredPanelIsClosed, Panels
<1>2. ASSUME NEW r \in Reqs, NEW e \in Exts, NEW k \in Kinds, HostRequest(r, e, k)
      PROVE  RequestInv'
  <2>1. reader' \in [Exts -> Reqs \cup Grants \cup {None}]
    BY <1>0, <1>2 DEF HostRequest
  <2>2. QED BY <1>2, <2>1, ReceivedKeeps DEF HostRequest
<1>3. ASSUME NEW r \in Reqs, NEW e \in Exts, NEW k \in Kinds, Notification(r, e, k)
      PROVE  RequestInv'
  <2>1. reader' \in [Exts -> Reqs \cup Grants \cup {None}]
    BY <1>0, <1>3 DEF Notification
  <2>2. \/ sessions' = sessions
        \/ sessions' = sessions \cup {r} /\ k \in {"panel", "inline"}
    BY <1>3 DEF Notification
  <2>3. QED BY <1>3, <2>1, <2>2, ReceivedKeeps DEF Notification
<1>4. ASSUME NEW r \in Reqs, Register(r)
      PROVE  RequestInv'
  <2>1. ExtType'
    BY <1>0, <1>4 DEF Register, Goto, RequestInv, ExtType, Panels
  <2>2. FreshUntouched'
    BY <1>0, <1>4 DEF Register, Goto, RequestInv, FreshUntouched
  <2>3. AnsweredPanelIsClosed'
    BY <1>4 DEF Register, RequestInv, AnsweredPanelIsClosed, Panels
  <2>4. QED BY <2>1, <2>2, <2>3 DEF RequestInv
<1>5. ASSUME NEW r \in Reqs, Emit(r) \/ Return(r)
      PROVE  RequestInv'
  <2>1. reader' \in [Exts -> Reqs \cup Grants \cup {None}]
    BY <1>0, <1>5 DEF Emit, Return
  <2>2. ExtType'
    BY <1>0, <1>5, <2>1 DEF Emit, Return, Goto, RequestInv, ExtType, Panels
  <2>3. FreshUntouched'
    BY <1>0, <1>5 DEF Emit, Return, Goto, RequestInv, FreshUntouched
  <2>4. AnsweredPanelIsClosed'
    BY <1>5 DEF Emit, Return, RequestInv, AnsweredPanelIsClosed, Panels
  <2>5. QED BY <2>2, <2>3, <2>4 DEF RequestInv
<1>6. ASSUME NEW r \in Reqs, PaintReturns(r)
      PROVE  RequestInv'
  <2>1. answered' = [answered EXCEPT ![r] = @ \ {"paint"}]
    BY <1>6 DEF PaintReturns
  <2>2. /\ answered' \in [Reqs -> SUBSET {"own", "paint"}]
        /\ \A q \in Reqs : answered'[q] \subseteq answered[q]
    BY <1>0, <2>1
  <2>3. ExtType'
    BY <1>0, <1>6, <2>2 DEF PaintReturns, RequestInv, ExtType, Panels
  <2>4. FreshUntouched'
    BY <1>6, <2>2 DEF PaintReturns, RequestInv, FreshUntouched
  <2>5. AnsweredPanelIsClosed'
    BY <1>6, <2>2 DEF PaintReturns, RequestInv, AnsweredPanelIsClosed, Panels
  <2>6. QED BY <2>3, <2>4, <2>5 DEF RequestInv
<1>7. ASSUME NEW r \in Reqs, Paint(r)
      PROVE  RequestInv'
  <2>1. ExtType'
    BY <1>0, <1>7 DEF Paint, RequestInv, ExtType, Panels
  <2>2. FreshUntouched'
    BY <1>0, <1>7 DEF Paint, RequestInv, FreshUntouched
  <2>3. AnsweredPanelIsClosed'
    BY <1>7 DEF Paint, RequestInv, AnsweredPanelIsClosed, Panels
  <2>4. QED BY <2>1, <2>2, <2>3 DEF RequestInv
<1>8. ASSUME NEW r \in Reqs, Done(r)
      PROVE  RequestInv'
  BY <1>0, <1>8, AnswerKeeps DEF Done
<1>9. CASE ExtensionStep
  BY <1>2, <1>3, <1>4, <1>5, <1>6, <1>7, <1>8, <1>9 DEF ExtensionStep, RequestStep
<1>10. CASE BrokerStep
  <2>1. UNCHANGED <<kind, owner, stage, pending, answered, sessions>>
    BY <1>10 DEF BrokerStep, GrantByExtension, GrantByReload, GrantStep, EmitGrant,
       GrantAnswered, GrantTimeout, GrantReturns, ext
  <2>2. reader' \in [Exts -> Reqs \cup Grants \cup {None}]
    BY <1>0, <1>10 DEF BrokerStep, GrantByExtension, GrantByReload, GrantStep, EmitGrant,
       GrantAnswered, GrantTimeout, GrantReturns, ext
  <2>3. QED BY <1>1, <2>1, <2>2
<1>11. CASE TakeInform
  <2>1. uiCh \in Seq(Messages) /\ uiCh # <<>> /\ kind[Head(uiCh).req] = "inform"
    BY <1>11 DEF ChannelType, TakeInform, Take
  <2>2. Head(uiCh) \in Messages
    BY <2>1
  <2>3. Head(uiCh).req \in Reqs /\ Head(uiCh).req \notin Panels
    BY <2>1, <2>2 DEF Messages, Panels
  <2>4. QED BY <1>0, <1>11, <2>3, AnswerKeeps DEF TakeInform, Take
<1>12. CASE TakeDialog \/ TakeInline \/ TakePaint
  BY <1>0, <1>1, <1>12 DEF TakeDialog, TakeInline, TakePaint, Take
<1>13. CASE AnswerAsk
  <2>1. screen.ui \in Reqs /\ screen.ui \notin Panels
    BY <1>13 DEF AnswerAsk, UIKey, Panels, DisplayType, Frames
  <2>2. QED BY <1>0, <1>13, <2>1, AnswerKeeps DEF AnswerAsk
<1>14. CASE LeavePanel
  <2>1. screen.ui \in Reqs
    BY <1>14 DEF LeavePanel, UIKey, DisplayType, Frames
  <2>2. QED BY <1>0, <1>14, <2>1, AnswerKeeps DEF LeavePanel
<1>15. CASE TakeGrant \/ (\E granted \in {"granted", "denied"} : AnswerGrant(granted))
            \/ Redraw \/ OpenList \/ CloseList \/ ConfirmDelete \/ ConfirmNo \/ ConfirmYes
            \/ TypeAt \/ LeaveAt \/ RestoreEditor \/ UNCHANGED vars
  <2>1. UNCHANGED ext
    BY <1>15 DEF TakeGrant, AnswerGrant, Redraw, OpenList, CloseList, ConfirmDelete, ConfirmNo,
       ConfirmYes, TypeAt, LeaveAt, RestoreEditor, vars
  <2>2. QED BY <1>0, <1>1, <2>1 DEF ext
<1>16. QED BY <1>9, <1>10, <1>11, <1>12, <1>13, <1>14, <1>15
          DEF Next, ExtensionStep, BrokerStep, TakeUI, UserStep

-----------------------------------------------------------------------------
(* Grants.                                                                 *)

\* A positive answer in a channel, or returned, was given by the user.
GrantInv == \A g \in Grants : ganswer[g] = "granted" \/ gstage[g] = "granted" => g \in yes

LEMMA GrantKept ==
  ASSUME BrokerType, GrantInv, [Next]_vars
  PROVE  GrantInv'
<1> USE NoneAssumption
<1>1. ASSUME UNCHANGED <<gstage, ganswer, yes>>
      PROVE  GrantInv'
  BY <1>1 DEF GrantInv
<1>2. CASE BrokerStep
  <2>1. PICK g \in Grants : \/ \E e \in Exts : GrantByExtension(g, e)
                            \/ GrantByReload(g) \/ GrantStep(g)
    BY <1>2 DEF BrokerStep
  <2>2. ganswer' = ganswer /\ yes' = yes
    BY <2>1 DEF GrantByExtension, GrantByReload, GrantStep, EmitGrant, GrantAnswered,
       GrantTimeout, GrantReturns
  <2>3. \E to \in {"emitting", "waiting", "denied", ganswer[g]} : gstage' = [gstage EXCEPT ![g] = to]
    BY <2>1 DEF GrantByExtension, GrantByReload, GrantStep, EmitGrant, GrantAnswered,
       GrantTimeout, Grant
  <2>4. QED BY <2>2, <2>3 DEF GrantInv, BrokerType
<1>3. CASE \E granted \in {"granted", "denied"} : AnswerGrant(granted)
  BY <1>3 DEF AnswerGrant, GrantInv, BrokerType
<1>4. CASE ExtensionStep \/ TakeUI \/ TakeGrant
  <2>1. CASE ExtensionStep
    BY <1>1, <2>1 DEF ExtensionStep, HostRequest, Notification, Received, RequestStep,
       Register, Emit, Return, PaintReturns, Paint, Done, broker
  <2>2. CASE TakeUI
    BY <1>1, <2>2 DEF TakeUI, TakeInform, TakeDialog, TakeInline, TakePaint, Take, broker
  <2>3. CASE TakeGrant
    BY <1>1, <2>3 DEF TakeGrant
  <2>4. QED BY <1>4, <2>1, <2>2, <2>3
<1>5. CASE AnswerAsk \/ LeavePanel \/ Redraw \/ OpenList \/ CloseList \/ ConfirmDelete
           \/ ConfirmNo \/ ConfirmYes \/ TypeAt \/ LeaveAt \/ RestoreEditor \/ UNCHANGED vars
  BY <1>1, <1>5 DEF AnswerAsk, LeavePanel, Redraw, OpenList, CloseList, broker,
     ConfirmDelete, ConfirmNo, ConfirmYes, TypeAt, LeaveAt, RestoreEditor, vars
<1>6. QED BY <1>2, <1>3, <1>4, <1>5 DEF Next, ExtensionStep, BrokerStep, UserStep

-----------------------------------------------------------------------------
(* The theorems.                                                           *)

\* What every reachable state satisfies, and every step preserves.
IInv == ChannelType /\ BrokerType /\ OverlayInv /\ RequestInv /\ GrantInv

LEMMA Initially == Init => IInv
<1> SUFFICES ASSUME Init PROVE IInv
  OBVIOUS
<1> USE CapAssumption
<1>1. ChannelType
  <2>1. uiCh = <<>>
    BY DEF Init
  <2>2. <<>> \in Seq(Messages) /\ Len(<<>>) = 0
    OBVIOUS
  <2>3. QED BY <2>1, <2>2 DEF ChannelType
<1>2. BrokerType
  BY EmptySeq DEF Init, BrokerType
<1>3. OverlayInv
  <2>1. Blank \in Frames
    BY DEF Blank, Frames
  <2>2. <<>> \in Seq(Frames) /\ DOMAIN <<>> = {}
    OBVIOUS
  <2>3. screen = Blank /\ stack = <<>> /\ grantReq = None /\ replaced = FALSE /\ yes = {}
    BY DEF Init
  <2>4. QED BY <2>1, <2>2, <2>3 DEF OverlayInv, DisplayType, StackedShown, NothingBuried
<1>4. RequestInv
  <2>1. ExtType
    BY DEF Init, ExtType
  <2>2. FreshUntouched
    BY DEF Init, FreshUntouched
  <2>3. AnsweredPanelIsClosed
    BY DEF Init, AnsweredPanelIsClosed
  <2>4. QED BY <2>1, <2>2, <2>3 DEF RequestInv
<1>5. GrantInv
  BY DEF Init, GrantInv
<1>6. QED BY <1>1, <1>2, <1>3, <1>4, <1>5 DEF IInv

THEOREM Invariance == Spec => []IInv
<1>1. IInv /\ [Next]_vars => IInv'
  BY ChannelTyped, BrokerTyped, OverlayKept, RequestKept, GrantKept DEF IInv, OverlayInv
<1>2. QED BY <1>1, Initially, PTL DEF Spec

\* TypeOK: every variable keeps its type, and the channels to the UI thread never hold
\* more than their capacity.
THEOREM TypeCorrect == Spec => []TypeOK
<1>1. IInv => TypeOK
  BY DEF IInv, OverlayInv, RequestInv, TypeOK
<1>2. QED BY <1>1, Invariance, PTL

\* NothingBuried: while no overlay is shown none waits on the stack, because only
\* overlays that were shown are pushed aside.
THEOREM OverlaysReachable == Spec => []NothingBuried
<1>1. IInv => NothingBuried
  BY DEF IInv, OverlayInv
<1>2. QED BY <1>1, Invariance, PTL

\* AnsweredPanelIsClosed: whoever ends a panel first closes its session with the answer,
\* because no request has an answer before it was made.
THEOREM AnsweredPanelsClosed == Spec => []AnsweredPanelIsClosed
<1>1. IInv => AnsweredPanelIsClosed
  BY DEF IInv, RequestInv
<1>2. QED BY <1>1, Invariance, PTL

\* GrantsNeedYes: a permission is given only for a yes of the user to that request.
THEOREM GrantsWereAllowed == Spec => []GrantsNeedYes
<1>1. IInv => GrantsNeedYes
  BY DEF IInv, GrantInv, GrantsNeedYes
<1>2. QED BY <1>1, Invariance, PTL
=============================================================================
