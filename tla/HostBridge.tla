----------------------------- MODULE HostBridge -----------------------------
(***************************************************************************)
(* What an application inside the web shell learns from its host           *)
(* (web-shell/src/runtime/hostApi.ts, IframeRuntime.tsx, eventBus.ts,      *)
(* pages/AppRuntimePage.tsx, components/ShellLayout.tsx; web-sdk;          *)
(* demo-web-app/src/main.ts and control-plane/src/runtime.tsx are the      *)
(* applications).                                                          *)
(*                                                                         *)
(* The shell renders, and a render updates the context that the Host API   *)
(* of the application shown answers from.  The effects of the render run   *)
(* later, in one task: those of removed applications are cleaned up, that  *)
(* of a new one starts to listen, the news are emitted.  Between the two   *)
(* and afterwards, messages arrive.                                        *)
(*                                                                         *)
(* A FRAME is an application opened for a scope (user, workspace,          *)
(* release).  An "iframe" is a document of its own: it asks for a port by  *)
(* a window message and then sends requests and hears events on the port.  *)
(* A "federation" application runs in the page and uses the Host API       *)
(* itself.  Of the news that the host emits, the locale stands for those   *)
(* an application follows, the scope for user and workspace.               *)
(*                                                                         *)
(*   context     what the shell rendered last                              *)
(*   opened      frames opened so far; `shown' the one shown, or NoFrame   *)
(*   binding     the context each frame's Host API answers from            *)
(*   due         effects of the last render that have yet to run           *)
(*   closing     frames it removed, still to be cleaned up                 *)
(*   serving     the effect of IframeRuntime: `connected' once it serves   *)
(*   subscribed  frames with listeners on the bus                          *)
(*   document    how often the frame's document was loaded again           *)
(*   entangled   the document that holds the other port                    *)
(*   app         the application; `read' the answer to its first reading   *)
(*   windows     window messages under way                                 *)
(*   requests, deliveries   what is under way to the host, to the frame    *)
(***************************************************************************)
EXTENDS Naturals, Sequences

CONSTANTS
  Scopes,
  FrameScope,     \* the scopes of the frames, in the order they are opened
  FrameKind,      \* and their kinds
  Capable,        \* the frames whose release has the capability context.read
  MaxLocale,      \* bound on changes of the locale
  MaxReloads      \* bound on how often a frame loads its document again

Frames == DOMAIN FrameScope
NoFrame == 0

ASSUME BridgeAssumption ==
  /\ FrameScope \in Seq(Scopes) \ {<<>>}
  /\ FrameKind \in [Frames -> {"iframe", "federation"}]
  /\ Capable \subseteq Frames
  /\ \A f \in Frames : FrameKind[f] = "federation" => f \in Capable
  /\ MaxLocale \in Nat /\ MaxReloads \in Nat

VARIABLES context, opened, shown, binding, due, closing, serving, subscribed,
          document, entangled, app, windows, requests, deliveries

shellVars == <<context, opened, shown, binding, due, closing>>
wires == <<windows, requests, deliveries>>
bridgeVars == <<shellVars, serving, subscribed, document, entangled, app, wires>>

NoDocument == MaxReloads + 1
Nowhere == [at |-> "none", read |-> 0, locale |-> 0]
Fresh   == [Nowhere EXCEPT !.at = "loading"]

BridgeInit ==
  /\ context = [scope |-> FrameScope[1], locale |-> 0]
  /\ opened = 0 /\ shown = NoFrame
  /\ binding = [f \in Frames |-> [scope |-> FrameScope[f], locale |-> 0]]
  /\ due = {} /\ closing = {}
  /\ serving = [f \in Frames |-> "off"]
  /\ subscribed = {}
  /\ document = [f \in Frames |-> 0]
  /\ entangled = [f \in Frames |-> NoDocument]
  /\ app = [f \in Frames |-> Nowhere]
  /\ windows = {}
  /\ requests = [f \in Frames |-> <<>>]
  /\ deliveries = [f \in Frames |-> <<>>]
-----------------------------------------------------------------------------
(* The shell renders. *)

\* React runs the effects of a render before it renders again.
EffectsHaveRun == due = {} /\ closing = {}

\* Mutant: the scope key leaves the workspace out.
SameScopeWithoutWorkspace(f, scope) == TRUE

\* runtimeScopeKey: another scope is another binding and another runtime.
SameScope(f, scope) == FrameScope[f] = scope

\* A render of AppRuntimePage with this context: the binding of the same scope is updated.
UpdateBinding(next) ==
  binding' = [f \in Frames |-> IF f = shown /\ SameScope(f, next.scope) THEN next ELSE binding[f]]

\* The page without these frames: their documents are gone, and what they were told; the
\* document of a new one begins to load.
Remove(frames) ==
  LET gone == {f \in frames : FrameKind[f] = "iframe"}
  IN  /\ app' = [f \in Frames |->
           IF f \in gone THEN Nowhere
           ELSE IF f = shown' /\ f # shown /\ FrameKind[f] = "iframe" THEN Fresh ELSE app[f]]
      /\ deliveries' = [f \in Frames |-> IF f \in gone THEN <<>> ELSE deliveries[f]]
      /\ windows' = {m \in windows : m.frame \notin gone}
      /\ closing' = frames

ChangeLocale ==
  LET next == [context EXCEPT !.locale = @ + 1]
  IN  /\ EffectsHaveRun /\ context.locale < MaxLocale
      /\ context' = next
      /\ UpdateBinding(next)
      /\ due' = {"locale"}
      /\ UNCHANGED <<opened, shown, closing, serving, subscribed, document, entangled, app, wires>>

\* Another page of the shell.
Leave ==
  /\ EffectsHaveRun /\ shown # NoFrame
  /\ shown' = NoFrame
  /\ Remove({shown})
  /\ UNCHANGED <<context, opened, binding, due, serving, subscribed, document, entangled, requests>>

\* Another workspace: an application of another scope goes.
ChangeWorkspace(scope) ==
  LET next == [context EXCEPT !.scope = scope]
  IN  /\ EffectsHaveRun /\ scope # context.scope
      /\ context' = next
      /\ UpdateBinding(next)
      /\ IF shown = NoFrame \/ SameScope(shown, scope)
         THEN UNCHANGED <<shown, closing, app, deliveries, windows>>
         ELSE shown' = NoFrame /\ Remove({shown})
      /\ due' = {"workspace"}
      /\ UNCHANGED <<opened, serving, subscribed, document, entangled, requests>>

\* The application of the context is shown, in place of another one if there is one.
Open(f) ==
  LET next == [context EXCEPT !.scope = FrameScope[f]]
  IN  /\ EffectsHaveRun /\ f = opened + 1
      /\ context' = next
      /\ opened' = f /\ shown' = f
      /\ binding' = [binding EXCEPT ![f] = next]
      /\ due' = {"listen"} \cup (IF next.scope = context.scope THEN {} ELSE {"workspace"})
      /\ Remove({shown} \ {NoFrame})
      /\ UNCHANGED <<serving, subscribed, document, entangled, requests>>
-----------------------------------------------------------------------------
(* The effects. *)

\* postMessage on the port, or the call of a listener in the page: what is posted to a
\* document that is gone is lost.
Hears(f) == FrameKind[f] = "federation" \/ document[f] = entangled[f]

\* Mutant: the effect emits the locale of the first render.
NewsOfTheFirstRender ==
  IF "locale" \in due THEN <<[kind |-> "locale.changed", of |-> [context EXCEPT !.locale = 0]]>> ELSE <<>>

\* What the effects of ShellLayout tell the bus, in their order.
News ==
  LET changed(name) == [kind |-> name, of |-> context]
  IN  (IF "locale" \in due THEN <<changed("locale.changed")>> ELSE <<>>)
        \o (IF "workspace" \in due THEN <<changed("workspace.changed")>> ELSE <<>>)

\* The bus calls the listeners there are after the cleanups.
Emit == [f \in Frames |->
  IF f \in subscribed \ closing /\ Hears(f) THEN deliveries[f] \o News ELSE deliveries[f]]

Emptied(queues) == [f \in Frames |-> IF f \in closing THEN <<>> ELSE queues[f]]

RunEffects ==
  /\ ~EffectsHaveRun
  /\ subscribed' = subscribed \ closing
  /\ serving' = [f \in Frames |->
       IF f \in closing THEN "off"
       ELSE IF f = shown /\ "listen" \in due /\ FrameKind[f] = "iframe" THEN "listening" ELSE serving[f]]
  /\ app' = [f \in Frames |->
       IF f \in closing THEN Nowhere
       ELSE IF f = shown /\ app[f].at = "none" THEN Fresh ELSE app[f]]
  /\ deliveries' = Emptied(Emit)
  /\ requests' = Emptied(requests)
  /\ document' = [f \in Frames |-> IF f \in closing THEN 0 ELSE document[f]]
  /\ entangled' = [f \in Frames |-> IF f \in closing THEN NoDocument ELSE entangled[f]]
  /\ due' = {} /\ closing' = {}
  /\ UNCHANGED <<context, opened, shown, binding, windows>>
-----------------------------------------------------------------------------
(* The host of an iframe. *)

Messages == [frame : Frames, document : 0..MaxReloads, type : {"ready", "connect"}]

Message(f, type) == [frame |-> f, document |-> document[f], type |-> type]

\* A message comes from the frame's window, whichever document is in it; the host
\* answers the first one, and subscribes the port if the release may read the context.
HostHears(m) ==
  LET f == m.frame
  IN  /\ m \in windows /\ m.type = "ready"
      /\ IF f = shown /\ serving[f] = "listening"
         THEN /\ serving' = [serving EXCEPT ![f] = "connected"]
              /\ subscribed' = subscribed \cup ({f} \cap Capable)
              /\ entangled' = [entangled EXCEPT ![f] = document[f]]
              /\ windows' = (windows \ {m}) \cup {Message(f, "connect")}
         ELSE windows' = windows \ {m} /\ UNCHANGED <<serving, subscribed, entangled>>
      /\ UNCHANGED <<shellVars, document, app, requests, deliveries>>

\* dispatchBridgeRequest and its answer.
HostAnswers(f) ==
  /\ requests[f] # <<>> /\ serving[f] = "connected"
  /\ requests' = [requests EXCEPT ![f] = Tail(@)]
  /\ deliveries' = IF ~Hears(f) THEN deliveries ELSE [deliveries EXCEPT ![f] = Append(@,
       [kind |-> IF f \in Capable THEN Head(requests[f]) ELSE "refused", of |-> binding[f]])]
  /\ UNCHANGED <<shellVars, serving, subscribed, document, entangled, app, windows>>
-----------------------------------------------------------------------------
(* The application in an iframe. *)

SetApp(f, state) == app' = [app EXCEPT ![f] = state]

\* connectToHost.
AskHost(f) ==
  /\ FrameKind[f] = "iframe" /\ app[f].at = "loading"
  /\ SetApp(f, [app[f] EXCEPT !.at = "asking"])
  /\ windows' = windows \cup {Message(f, "ready")}
  /\ UNCHANGED <<shellVars, serving, subscribed, document, entangled, requests, deliveries>>

\* onConnect; the application reads the locale and who its user is.
FrameHears(m) ==
  LET f == m.frame
  IN  /\ m \in windows /\ m.type = "connect"
      /\ windows' = windows \ {m}
      /\ IF m.document = document[f] /\ app[f].at = "asking"
         THEN /\ SetApp(f, [app[f] EXCEPT !.at = "reading"])
              /\ requests' = [requests EXCEPT ![f] = <<"locale.getCurrent", "user.getSummary">>]
         ELSE UNCHANGED <<app, requests>>
      /\ UNCHANGED <<shellVars, serving, subscribed, document, entangled, deliveries>>

\* Ten seconds without an answer.
TimeOut(f) ==
  /\ FrameKind[f] = "iframe" /\ app[f].at \in {"asking", "reading"}
  /\ SetApp(f, [app[f] EXCEPT !.at = "standalone"])
  /\ UNCHANGED <<shellVars, serving, subscribed, document, entangled, wires>>

\* The application after this message: an event is followed at once, the answers are
\* used together when the last of them has come.
AfterMessage(a, m) ==
  CASE m.kind = "locale.changed" -> [a EXCEPT !.locale = m.of.locale]
    [] m.kind = "locale.getCurrent" /\ a.at = "reading" -> [a EXCEPT !.read = m.of.locale]
    [] m.kind = "user.getSummary" /\ a.at = "reading" -> [a EXCEPT !.at = "connected", !.locale = a.read]
    [] m.kind = "refused" /\ a.at = "reading" -> [a EXCEPT !.at = "standalone"]
    [] OTHER -> a

AppHears(f) ==
  /\ deliveries[f] # <<>>
  /\ deliveries' = [deliveries EXCEPT ![f] = Tail(@)]
  /\ SetApp(f, IF app[f].at \in {"none", "loading", "asking"} THEN app[f]
               ELSE AfterMessage(app[f], Head(deliveries[f])))
  /\ UNCHANGED <<shellVars, serving, subscribed, document, entangled, windows, requests>>

\* The frame loads its document again: its port is gone.
Reload(f) ==
  /\ FrameKind[f] = "iframe" /\ app[f].at # "none" /\ document[f] < MaxReloads
  /\ document' = [document EXCEPT ![f] = @ + 1]
  /\ SetApp(f, Fresh)
  /\ requests' = [requests EXCEPT ![f] = <<>>]
  /\ deliveries' = [deliveries EXCEPT ![f] = <<>>]
  /\ UNCHANGED <<shellVars, serving, subscribed, entangled, windows>>
-----------------------------------------------------------------------------
(* The application in the page. *)

\* resolveInitialLocale.
ReadLocale(f) ==
  /\ FrameKind[f] = "federation" /\ app[f].at = "loading"
  /\ SetApp(f, [app[f] EXCEPT !.at = "reading", !.read = binding[f].locale])
  /\ UNCHANGED <<shellVars, serving, subscribed, document, entangled, wires>>

\* The end of mountControlPlane: the application follows the locale from now on.
MountApplication(f) ==
  /\ FrameKind[f] = "federation" /\ app[f].at = "reading"
  /\ SetApp(f, [app[f] EXCEPT !.at = "connected", !.locale = app[f].read])
  /\ subscribed' = subscribed \cup {f}
  /\ UNCHANGED <<shellVars, serving, document, entangled, wires>>

BridgeNext ==
  \/ ChangeLocale
  \/ Leave
  \/ \E s \in Scopes : ChangeWorkspace(s)
  \/ \E f \in Frames : Open(f)
  \/ RunEffects
  \/ \E m \in windows : HostHears(m) \/ FrameHears(m)
  \/ \E f \in Frames : HostAnswers(f) \/ AskHost(f) \/ TimeOut(f) \/ AppHears(f) \/ Reload(f)
  \/ \E f \in Frames : ReadLocale(f) \/ MountApplication(f)

BridgeSpec == BridgeInit /\ [][BridgeNext]_bridgeVars
-----------------------------------------------------------------------------
(* Properties *)

\* Everything stays in its domain.
BridgeTypeOK ==
  LET contexts == [scope : Scopes, locale : 0..MaxLocale]
  IN  /\ context \in contexts
      /\ opened \in 0..Len(FrameScope) /\ shown \in {NoFrame, opened}
      /\ binding \in [Frames -> contexts]
      /\ due \subseteq {"listen", "locale", "workspace"} /\ closing \subseteq Frames
      /\ serving \in [Frames -> {"off", "listening", "connected"}]
      /\ subscribed \subseteq Capable
      /\ document \in [Frames -> 0..MaxReloads]
      /\ entangled \in [Frames -> 0..NoDocument]
      /\ app \in [Frames -> [at : {"none", "loading", "asking", "reading", "connected", "standalone"},
                             read : 0..MaxLocale, locale : 0..MaxLocale]]
      /\ windows \subseteq Messages

\* Whatever an application is told, as an answer or as news, is of the user and workspace
\* it was opened for (the Host API's binding, the order of the effects).
ToldOfItsScope ==
  \A f \in Frames : \A i \in DOMAIN deliveries[f] :
    app[f].at # "none" => deliveries[f][i].of.scope = FrameScope[f]

\* No effect, request, answer or event of this frame is under way.
Quiet(f) == EffectsHaveRun /\ requests[f] = <<>> /\ deliveries[f] = <<>>

\* A connected application that shows another locale than the shell still shows what it
\* read first, overtaken by a change meanwhile: once it has followed a change, it shows
\* the latest (the subscription of main.ts and runtime.tsx against their first reading).
OnlyTheFirstReadingIsStale ==
  \A f \in Frames :
    app[f].at = "connected" /\ Quiet(f) => app[f].locale \in {context.locale, app[f].read}

\* What the host tells an application is of its scope, and its latest news prevail.
HostTellsTheTruth == ToldOfItsScope /\ OnlyTheFirstReadingIsStale
=============================================================================
