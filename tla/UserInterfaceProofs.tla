------------------------- MODULE UserInterfaceProofs ------------------------
(***************************************************************************)
(* Proofs about the Host API and its applications (HostBridge,             *)
(* HostRequests), the language of the device's UI (LocaleSync), the        *)
(* desktop's updates (DesktopUpdates), and the page with its federated     *)
(* application (WebRuntime), for every sequence of frames, every set of    *)
(* scopes, languages and releases, every number of views and attempts and  *)
(* every bound on faults and changes.                                      *)
(***************************************************************************)
EXTENDS HostBridge, HostRequests, LocaleSync, DesktopUpdates, WebRuntime, SequenceTheorems, TLAPS

-----------------------------------------------------------------------------
(***************************************************************************)
(* Host and applications (HostBridge).                                     *)
(***************************************************************************)
Asked   == {"locale.getCurrent", "user.getSummary"}
Told    == Asked \cup {"refused", "locale.changed", "workspace.changed"}
Context == [scope : Scopes, locale : Nat]
Delivery == [kind : Told, of : Context]
App     == [at : {"none", "loading", "asking", "reading", "connected", "standalone"}, read : Nat, locale : Nat]

HostTypeOK ==
  /\ context \in Context /\ binding \in [Frames -> Context]
  /\ opened \in Nat /\ shown \in {NoFrame, opened} /\ (shown # NoFrame => shown \in Frames)
  /\ closing \subseteq Frames /\ subscribed \subseteq Frames
  /\ document \in [Frames -> Nat] /\ entangled \in [Frames -> Nat]
  /\ app \in [Frames -> App]
  /\ requests \in [Frames -> Seq(Asked)] /\ deliveries \in [Frames -> Seq(Delivery)]

(* What answers and news are taken from is of the scope: the binding always, the context  *)
(* for the application shown, which alone listens until its effects are cleaned up.      *)
ScopeInv ==
  /\ shown # NoFrame => FrameScope[shown] = context.scope
  /\ \A f \in Frames :
       /\ binding[f].scope = FrameScope[f]
       /\ f \in subscribed \/ app[f].at # "none" => f = shown \/ f \in closing
       /\ \A i \in DOMAIN deliveries[f] : deliveries[f][i].of.scope = FrameScope[f]

(* An application in a frame that reads or is connected has the port of its document; one *)
(* that is connected is subscribed.                                                      *)
PortOf(f) == entangled[f] = document[f] /\ (f \in Capable => f \in subscribed)
PortInv ==
  /\ \A m \in windows :
       /\ m.frame \in Frames \ closing /\ FrameKind[m.frame] = "iframe"
       /\ m.document \in Nat /\ m.document <= document[m.frame]
       /\ m.type = "connect" /\ m.document = document[m.frame] => PortOf(m.frame)
  /\ \A f \in Frames :
       /\ FrameKind[f] = "iframe" /\ f \in closing => app[f].at = "none"
       /\ FrameKind[f] = "iframe" /\ app[f].at \in {"reading", "connected"} => PortOf(f)
       /\ app[f].at = "connected" => f \in subscribed
       /\ FrameKind[f] = "federation" => requests[f] = <<>>
       /\ \A i \in DOMAIN deliveries[f] :
            deliveries[f][i].kind \in Asked => FrameKind[f] = "iframe" /\ f \in Capable

(* News under way reach an application that still listens, and the last of them tells     *)
(* the locale of the shell.                                                              *)
Changed(f, i) == i \in DOMAIN deliveries[f] /\ deliveries[f][i].kind = "locale.changed"
LastChanged(f, i) == Changed(f, i) /\ \A j \in DOMAIN deliveries[f] : j > i => ~Changed(f, j)
NewsOf(f) ==
  /\ \A i \in DOMAIN deliveries[f] : Changed(f, i) => f \in subscribed /\ Hears(f)
  /\ "locale" \notin due =>
       /\ \A i \in DOMAIN deliveries[f] : LastChanged(f, i) => deliveries[f][i].of.locale = context.locale
       /\ app[f].at = "connected" /\ (\A i \in DOMAIN deliveries[f] : ~Changed(f, i)) =>
            app[f].locale \in {context.locale, app[f].read}
NewsInv == \A f \in Frames \ closing : NewsOf(f)

HostInv == HostTypeOK /\ ScopeInv /\ PortInv /\ NewsInv

\* The deliveries of a frame.
LEMMA DeliveryFacts ==
  ASSUME HostTypeOK, NEW f \in Frames
  PROVE  /\ deliveries[f] \in Seq(Delivery) /\ Len(deliveries[f]) \in Nat
         /\ DOMAIN deliveries[f] = 1..Len(deliveries[f])
         /\ requests[f] \in Seq(Asked) /\ app[f] \in App /\ binding[f] \in Context
         /\ document[f] \in Nat /\ entangled[f] \in Nat
BY LenProperties DEF HostTypeOK

\* News under way are not touched by what leaves the frame's deliveries, its port and its
\* subscription alone.
LEMMA NewsStay ==
  ASSUME NEW f \in Frames, NewsOf(f), deliveries'[f] = deliveries[f],
         f \in subscribed => f \in subscribed', Hears(f) => Hears(f)',
         "locale" \in due => "locale" \in due', context'.locale = context.locale,
         app'[f].at = "connected" =>
           \/ app[f].at = "connected" /\ app'[f].locale = app[f].locale /\ app'[f].read = app[f].read
           \/ app'[f].locale = app'[f].read
  PROVE  NewsOf(f)'
<1>1. \A i : Changed(f, i)' = Changed(f, i)
  BY DEF Changed
<1>2. \A i : LastChanged(f, i)' = LastChanged(f, i)
  BY <1>1 DEF LastChanged
<1>3. \A i \in DOMAIN deliveries'[f] : Changed(f, i)' => f \in subscribed' /\ Hears(f)'
  BY <1>1 DEF NewsOf
<1>4. ASSUME "locale" \notin due'
      PROVE  \A i \in DOMAIN deliveries'[f] : LastChanged(f, i)' => deliveries'[f][i].of.locale = context'.locale
  BY <1>2, <1>4 DEF NewsOf
<1>5. ASSUME "locale" \notin due', app'[f].at = "connected", \A i \in DOMAIN deliveries'[f] : ~Changed(f, i)'
      PROVE  app'[f].locale \in {context'.locale, app'[f].read}
  BY <1>1, <1>5 DEF NewsOf
<1>6. QED
  BY <1>3, <1>4, <1>5 DEF NewsOf

LEMMA HostInitially == ASSUME BridgeAssumption, BridgeInit PROVE HostInv
<1>1. Nowhere \in App /\ Nowhere.at = "none" /\ NoDocument \in Nat
  BY DEF App, Nowhere, BridgeAssumption, NoDocument
<1>2. /\ Frames = 1..Len(FrameScope) /\ 1 \in Frames
      /\ \A f \in Frames : FrameScope[f] \in Scopes
  BY EmptySeq, LenProperties, ElementOfSeq DEF BridgeAssumption, Frames
<1>3. HostTypeOK
  <2>1. context \in Context
    BY <1>2 DEF BridgeInit, Context
  <2>2. binding \in [Frames -> Context]
    BY <1>2 DEF BridgeInit, Context
  <2>3. /\ opened \in Nat /\ shown \in {NoFrame, opened} /\ (shown # NoFrame => shown \in Frames)
        /\ closing \subseteq Frames /\ subscribed \subseteq Frames
        /\ document \in [Frames -> Nat] /\ entangled \in [Frames -> Nat] /\ app \in [Frames -> App]
    BY <1>1 DEF BridgeInit, NoFrame
  <2>4. requests \in [Frames -> Seq(Asked)] /\ deliveries \in [Frames -> Seq(Delivery)]
    BY EmptySeq DEF BridgeInit
  <2>5. QED
    BY <2>1, <2>2, <2>3, <2>4 DEF HostTypeOK
<1>4. QED
  BY <1>1, <1>3 DEF BridgeInit, HostInv, ScopeInv, PortInv, NewsInv, NewsOf, Changed, LastChanged, NoFrame

\* The locale of the shell changes: the bindings of the scope follow, the news are due.
LEMMA ChangeLocaleKeeps ==
  ASSUME BridgeAssumption, HostInv, ChangeLocale
  PROVE  HostInv'
<1> DEFINE next == [context EXCEPT !.locale = @ + 1]
<1>1. HostTypeOK /\ ScopeInv /\ PortInv
  BY DEF HostInv
<1>2. /\ due = {} /\ closing = {} /\ context' = next /\ due' = {"locale"}
      /\ binding' = [f \in Frames |-> IF f = shown /\ SameScope(f, next.scope) THEN next ELSE binding[f]]
      /\ UNCHANGED <<opened, shown, closing, serving, subscribed, document, entangled, app, wires>>
  BY DEF ChangeLocale, UpdateBinding, EffectsHaveRun
<1>3. next \in Context /\ next.scope = context.scope
  <2>1. context \in Context /\ context.locale + 1 \in Nat
    BY <1>1 DEF HostTypeOK, Context
  <2>2. QED
    BY <2>1 DEF Context
<1> HIDE DEF next
<1>4. HostTypeOK'
  BY <1>1, <1>2, <1>3 DEF HostTypeOK, wires
<1>5. ScopeInv'
  BY <1>1, <1>2, <1>3 DEF ScopeInv, HostTypeOK, SameScope, wires, NoFrame
<1>6. PortInv'
  BY <1>1, <1>2 DEF PortInv, PortOf, wires
<1>7. NewsInv'
  <2> SUFFICES ASSUME NEW f \in Frames \ closing' PROVE NewsOf(f)'
    BY DEF NewsInv
  <2>1. NewsOf(f)
    BY <1>2 DEF HostInv, NewsInv
  <2>2. QED
    BY <2>1, <1>2 DEF NewsOf, Changed, Hears, wires
<1>8. QED
  BY <1>4, <1>5, <1>6, <1>7 DEF HostInv

\* The page without the frame it showed, if it showed one: the effects of the frame are to
\* be cleaned up; another may be shown in its place.
LEMMA RemoveKeeps ==
  ASSUME BridgeAssumption, HostInv, EffectsHaveRun, Remove({shown} \ {NoFrame}),
         opened' \in Nat, shown' \in {NoFrame, opened'},
         shown' # NoFrame => shown' \in Frames /\ shown' # shown /\ FrameScope[shown'] = context'.scope,
         context' \in Context, context'.locale = context.locale,
         binding' \in [Frames -> Context], \A f \in Frames : binding'[f].scope = FrameScope[f],
         "locale" \notin due',
         UNCHANGED <<serving, subscribed, document, entangled, requests>>
  PROVE  HostInv'
<1> DEFINE gone == {f \in {shown} \ {NoFrame} : FrameKind[f] = "iframe"}
<1>1. HostTypeOK /\ ScopeInv /\ PortInv /\ NewsInv
  BY DEF HostInv
<1>2. /\ due = {} /\ closing = {} /\ closing' = {shown} \ {NoFrame}
      /\ windows' = {m \in windows : m.frame \notin gone}
      /\ \A f \in Frames : deliveries'[f] = IF f \in gone THEN <<>> ELSE deliveries[f]
      /\ \A f \in Frames : app'[f] = IF f \in gone THEN Nowhere
                                     ELSE IF f = shown' /\ f # shown /\ FrameKind[f] = "iframe" THEN Fresh
                                     ELSE app[f]
      /\ deliveries' = [f \in Frames |-> deliveries'[f]] /\ app' = [f \in Frames |-> app'[f]]
  BY DEF Remove, EffectsHaveRun
<1>3. Nowhere \in App /\ Fresh \in App /\ Nowhere.at = "none" /\ Fresh.at = "loading"
  BY DEF App, Nowhere, Fresh
<1>4. closing' \subseteq Frames
  BY <1>1, <1>2 DEF HostTypeOK
<1>5. HostTypeOK'
  <2>1. app' \in [Frames -> App]
    BY <1>1, <1>2, <1>3 DEF HostTypeOK
  <2>2. deliveries' \in [Frames -> Seq(Delivery)]
    BY ZenonT(60), <1>1, <1>2, EmptySeq DEF HostTypeOK
  <2>3. QED
    BY <1>1, <1>4, <2>1, <2>2 DEF HostTypeOK
<1>6. ScopeInv'
  <2> SUFFICES ASSUME NEW f \in Frames
               PROVE  /\ f \in subscribed' \/ app'[f].at # "none" => f = shown' \/ f \in closing'
                      /\ \A i \in DOMAIN deliveries'[f] : deliveries'[f][i].of.scope = FrameScope[f]
    BY DEF ScopeInv
  <2>1. f \in subscribed \/ app[f].at # "none" => f = shown /\ f # NoFrame
    BY <1>1, <1>2 DEF ScopeInv, NoFrame, Frames, BridgeAssumption
  <2>2. f \in subscribed' \/ app'[f].at # "none" => f = shown' \/ f \in closing'
    BY <2>1, <1>2, <1>3
  <2>3. QED
    BY <2>2, <1>1, <1>2 DEF ScopeInv
<1>7. PortInv'
  <2>1. ASSUME NEW m \in windows'
        PROVE  /\ m.frame \in Frames \ closing' /\ FrameKind[m.frame] = "iframe"
               /\ m.document \in Nat /\ m.document <= document'[m.frame]
               /\ m.type = "connect" /\ m.document = document'[m.frame] => PortOf(m.frame)'
    BY <2>1, <1>1, <1>2 DEF PortInv, PortOf
  <2>2. ASSUME NEW f \in Frames
        PROVE  /\ FrameKind[f] = "iframe" /\ f \in closing' => app'[f].at = "none"
               /\ FrameKind[f] = "iframe" /\ app'[f].at \in {"reading", "connected"} => PortOf(f)'
               /\ app'[f].at = "connected" => f \in subscribed'
               /\ FrameKind[f] = "federation" => requests'[f] = <<>>
               /\ \A i \in DOMAIN deliveries'[f] :
                    deliveries'[f][i].kind \in Asked => FrameKind[f] = "iframe" /\ f \in Capable
    <3>1. app'[f] = app[f] \/ app'[f].at \in {"none", "loading"}
      BY <1>2, <1>3
    <3>2. FrameKind[f] = "iframe" /\ f \in closing' => app'[f].at = "none"
      BY <1>2, <1>3
    <3>3. QED
      BY <3>1, <3>2, <1>1, <1>2 DEF PortInv, PortOf
  <2>3. QED
    BY <2>1, <2>2 DEF PortInv
<1>8. NewsInv'
  <2> SUFFICES ASSUME NEW f \in Frames \ closing' PROVE NewsOf(f)'
    BY DEF NewsInv
  <2>1. NewsOf(f) /\ f \notin gone
    BY <1>1, <1>2 DEF NewsInv
  <2>2. deliveries'[f] = deliveries[f] /\ (Hears(f) => Hears(f)') /\ "locale" \notin due
    BY <2>1, <1>2 DEF Hears
  <2>3. app'[f] = app[f] \/ app'[f].at = "loading"
    BY <2>1, <1>2, <1>3
  <2>4. QED
    BY <2>1, <2>2, <2>3, NewsStay
<1>9. QED
  BY <1>5, <1>6, <1>7, <1>8 DEF HostInv

\* Another page of the shell.
LEMMA LeaveKeeps == ASSUME BridgeAssumption, HostInv, Leave PROVE HostInv'
<1>1. HostTypeOK /\ ScopeInv
  BY DEF HostInv
<1>2. /\ EffectsHaveRun /\ shown # NoFrame /\ shown' = NoFrame /\ Remove({shown})
      /\ UNCHANGED <<context, opened, binding, due, serving, subscribed, document, entangled, requests>>
  BY DEF Leave
<1>3. {shown} = {shown} \ {NoFrame} /\ due' = {}
  BY <1>2 DEF EffectsHaveRun
<1>4. opened' \in Nat /\ context' \in Context /\ binding' \in [Frames -> Context]
      /\ \A f \in Frames : binding'[f].scope = FrameScope[f]
  BY <1>1, <1>2 DEF HostTypeOK, ScopeInv
<1>5. QED
  BY <1>2, <1>3, <1>4, RemoveKeeps

\* Another workspace: the application shown goes unless it is of the same scope.
LEMMA ChangeWorkspaceKeeps ==
  ASSUME BridgeAssumption, HostInv, NEW scope \in Scopes, ChangeWorkspace(scope)
  PROVE  HostInv'
<1> DEFINE next == [context EXCEPT !.scope = scope]
<1>1. HostTypeOK /\ ScopeInv /\ PortInv /\ NewsInv
  BY DEF HostInv
<1>2. /\ EffectsHaveRun /\ due = {} /\ closing = {} /\ context' = next /\ due' = {"workspace"}
      /\ binding' = [f \in Frames |-> IF f = shown /\ SameScope(f, next.scope) THEN next ELSE binding[f]]
      /\ UNCHANGED <<opened, serving, subscribed, document, entangled, requests>>
      /\ IF shown = NoFrame \/ SameScope(shown, scope)
         THEN UNCHANGED <<shown, closing, app, deliveries, windows>>
         ELSE shown' = NoFrame /\ Remove({shown})
  BY DEF ChangeWorkspace, UpdateBinding, EffectsHaveRun
<1>3. next \in Context /\ next.scope = scope /\ next.locale = context.locale
  BY <1>1 DEF HostTypeOK, Context
<1> HIDE DEF next
<1>4. binding' \in [Frames -> Context] /\ \A f \in Frames : binding'[f].scope = FrameScope[f]
  BY <1>1, <1>2, <1>3 DEF HostTypeOK, ScopeInv, SameScope
<1>5. CASE shown = NoFrame \/ SameScope(shown, scope)
  <2>1. HostTypeOK'
    BY <1>1, <1>2, <1>3, <1>4, <1>5 DEF HostTypeOK
  <2>2. ScopeInv'
    BY <1>1, <1>2, <1>3, <1>4, <1>5 DEF ScopeInv, SameScope
  <2>3. PortInv'
    BY <1>1, <1>2, <1>5 DEF PortInv, PortOf
  <2>4. NewsInv'
    <3> SUFFICES ASSUME NEW f \in Frames \ closing' PROVE NewsOf(f)'
      BY DEF NewsInv
    <3>1. NewsOf(f)
      BY <1>1, <1>2, <1>5 DEF NewsInv
    <3>2. deliveries' = deliveries /\ app' = app /\ (Hears(f) => Hears(f)') /\ context'.locale = context.locale
          /\ subscribed' = subscribed
      BY <1>2, <1>3, <1>5 DEF Hears
    <3>3. QED
      BY <3>1, <3>2, <1>2, NewsStay
  <2>5. QED
    BY <2>1, <2>2, <2>3, <2>4 DEF HostInv
<1>6. CASE ~(shown = NoFrame \/ SameScope(shown, scope))
  <2>1. {shown} = {shown} \ {NoFrame} /\ opened' \in Nat /\ shown' = NoFrame
    BY <1>1, <1>2, <1>6 DEF HostTypeOK
  <2>2. QED
    BY <2>1, <1>2, <1>3, <1>4, <1>6, RemoveKeeps
<1>7. QED
  BY <1>5, <1>6

\* An application is opened, in place of another one if there is one.
LEMMA OpenKeeps ==
  ASSUME BridgeAssumption, HostInv, NEW f \in Frames, Open(f)
  PROVE  HostInv'
<1> DEFINE next == [context EXCEPT !.scope = FrameScope[f]]
<1>1. HostTypeOK /\ ScopeInv
  BY DEF HostInv
<1>2. /\ EffectsHaveRun /\ f = opened + 1 /\ context' = next /\ opened' = f /\ shown' = f
      /\ binding' = [binding EXCEPT ![f] = next]
      /\ "locale" \notin due' /\ Remove({shown} \ {NoFrame})
      /\ UNCHANGED <<serving, subscribed, document, entangled, requests>>
  BY DEF Open
<1>3. FrameScope[f] \in Scopes /\ f \in Nat /\ f # NoFrame
  BY LenProperties, ElementOfSeq DEF BridgeAssumption, Frames, NoFrame
<1>4. next \in Context /\ next.scope = FrameScope[f] /\ next.locale = context.locale
  BY <1>1, <1>3 DEF HostTypeOK, Context
<1> HIDE DEF next
<1>5. binding' \in [Frames -> Context] /\ \A g \in Frames : binding'[g].scope = FrameScope[g]
  BY <1>1, <1>2, <1>4 DEF HostTypeOK, ScopeInv
<1>6. shown' # shown
  BY <1>1, <1>2, <1>3 DEF HostTypeOK, NoFrame
<1>7. QED
  BY <1>2, <1>3, <1>4, <1>5, <1>6, RemoveKeeps

\* What stands where in one sequence behind another.
LEMMA Behind ==
  ASSUME NEW S, NEW s \in Seq(S), NEW t \in Seq(S)
  PROVE  /\ s \o t \in Seq(S) /\ DOMAIN (s \o t) = 1..(Len(s) + Len(t))
         /\ \A i \in DOMAIN s : i \in DOMAIN (s \o t) /\ (s \o t)[i] = s[i]
         /\ \A i \in DOMAIN (s \o t) :
              \/ i \in DOMAIN s /\ (s \o t)[i] = s[i]
              \/ i > Len(s) /\ i - Len(s) \in 1..Len(t) /\ (s \o t)[i] = t[i - Len(s)]
<1> DEFINE u == s \o t
<1>1. /\ Len(s) \in Nat /\ Len(t) \in Nat /\ DOMAIN s = 1..Len(s)
      /\ u \in Seq(S) /\ Len(u) = Len(s) + Len(t)
      /\ \A i \in 1..(Len(s) + Len(t)) : u[i] = IF i <= Len(s) THEN s[i] ELSE t[i - Len(s)]
  BY ConcatProperties, LenProperties
<1>2. DOMAIN u = 1..(Len(s) + Len(t))
  BY <1>1, LenProperties
<1> HIDE DEF u
<1>3. \A i \in DOMAIN s : i \in DOMAIN u /\ u[i] = s[i]
  BY <1>1, <1>2
<1>4. \A i \in DOMAIN u :
        \/ i \in DOMAIN s /\ u[i] = s[i]
        \/ i > Len(s) /\ i - Len(s) \in 1..Len(t) /\ u[i] = t[i - Len(s)]
  BY <1>1, <1>2
<1>5. QED
  BY <1>1, <1>2, <1>3, <1>4 DEF u

\* The news of a render are of its context; a change of the locale comes first among them.
LEMMA NewsFacts ==
  ASSUME HostTypeOK
  PROVE  /\ News \in Seq(Delivery) /\ Len(News) \in Nat
         /\ \A i \in 1..Len(News) : News[i].of = context /\ News[i].kind \notin Asked
         /\ "locale" \in due => Len(News) >= 1 /\ News[1].kind = "locale.changed"
         /\ "locale" \notin due => \A i \in 1..Len(News) : News[i].kind # "locale.changed"
<1> DEFINE l == [kind |-> "locale.changed", of |-> context]
           w == [kind |-> "workspace.changed", of |-> context]
<1>1. /\ l \in Delivery /\ l.of = context /\ l.kind = "locale.changed"
      /\ w \in Delivery /\ w.of = context /\ w.kind = "workspace.changed"
  BY DEF HostTypeOK, Delivery, Told
<1>2. News = (IF "locale" \in due THEN <<l>> ELSE <<>>) \o (IF "workspace" \in due THEN <<w>> ELSE <<>>)
  BY Zenon DEF News
<1> HIDE DEF l, w
<1>3. News = IF "locale" \in due THEN IF "workspace" \in due THEN <<l, w>> ELSE <<l>>
             ELSE IF "workspace" \in due THEN <<w>> ELSE <<>>
  <2>1. <<l>> \o <<w>> = <<l, w>>
    <3>1. <<l>> \in Seq(Delivery) /\ <<w>> \in Seq(Delivery) /\ <<l, w>> \in Seq(Delivery)
      BY <1>1
    <3>2. <<l>> \o <<w>> \in Seq(Delivery) /\ Len(<<l>> \o <<w>>) = 2
      BY <3>1, ConcatProperties
    <3>3. (<<l>> \o <<w>>)[1] = l /\ (<<l>> \o <<w>>)[2] = w
      BY <3>1, ConcatProperties
    <3>4. \A i \in 1..2 : (<<l>> \o <<w>>)[i] = <<l, w>>[i]
      BY <3>3
    <3>5. Len(<<l, w>>) = 2
      OBVIOUS
    <3>6. QED
      BY <3>1, <3>2, <3>4, <3>5, SeqEqual
  <2>2. <<l>> \o <<>> = <<l>> /\ <<>> \o <<w>> = <<w>> /\ <<>> \o <<>> = <<>>
    OBVIOUS
  <2>3. QED
    BY <1>2, <2>1, <2>2, Zenon
<1>4. /\ <<l, w>> \in Seq(Delivery) /\ <<l>> \in Seq(Delivery)
      /\ <<w>> \in Seq(Delivery) /\ <<>> \in Seq(Delivery)
  BY <1>1, EmptySeq
<1>5. News \in Seq(Delivery) /\ Len(News) \in Nat
  BY <1>3, <1>4, LenProperties
<1>6. Len(<<l, w>>) = 2 /\ Len(<<l>>) = 1 /\ Len(<<w>>) = 1 /\ Len(<<>>) = 0
  OBVIOUS
<1>7. CASE "locale" \in due
  BY <1>1, <1>3, <1>5, <1>6, <1>7 DEF Asked
<1>8. CASE "locale" \notin due
  BY <1>1, <1>3, <1>5, <1>6, <1>8 DEF Asked
<1>9. QED
  BY <1>5, <1>7, <1>8

\* What the effects leave in the deliveries of a frame that stays: what was there, and the
\* news behind it if the frame listens.
LEMMA EffectsReach ==
  ASSUME HostTypeOK, RunEffects, NEW f \in Frames \ closing
  PROVE  /\ deliveries'[f] \in Seq(Delivery)
         /\ \A i \in DOMAIN deliveries[f] :
              i \in DOMAIN deliveries'[f] /\ deliveries'[f][i] = deliveries[f][i]
         /\ \A i \in DOMAIN deliveries'[f] :
              \/ i \in DOMAIN deliveries[f] /\ deliveries'[f][i] = deliveries[f][i]
              \/ /\ f \in subscribed /\ Hears(f) /\ i > Len(deliveries[f])
                 /\ \E k \in 1..Len(News) : deliveries'[f][i] = News[k]
         /\ "locale" \in due /\ f \in subscribed /\ Hears(f) =>
              /\ Len(deliveries[f]) + 1 \in DOMAIN deliveries'[f]
              /\ deliveries'[f][Len(deliveries[f]) + 1].kind = "locale.changed"
<1>1. /\ deliveries[f] \in Seq(Delivery) /\ Len(deliveries[f]) \in Nat
      /\ DOMAIN deliveries[f] = 1..Len(deliveries[f])
  BY DeliveryFacts
<1>2. deliveries'[f] = Emit[f] /\ f \notin closing
  BY DEF RunEffects, Emptied
<1>3. CASE f \in subscribed /\ Hears(f)
  <2> DEFINE s == deliveries[f]
             t == News
  <2>1. deliveries'[f] = s \o t
    BY <1>2, <1>3 DEF Emit
  <2>2. t \in Seq(Delivery) /\ Len(t) \in Nat /\ ("locale" \in due => Len(t) >= 1 /\ t[1].kind = "locale.changed")
    BY NewsFacts
  <2>3. s \in Seq(Delivery) /\ Len(s) \in Nat /\ DOMAIN s = 1..Len(s)
    BY <1>1
  <2> HIDE DEF s, t
  <2>4. /\ deliveries'[f] \in Seq(Delivery) /\ DOMAIN deliveries'[f] = 1..(Len(s) + Len(t))
        /\ \A i \in DOMAIN s : i \in DOMAIN deliveries'[f] /\ deliveries'[f][i] = s[i]
        /\ \A i \in DOMAIN deliveries'[f] :
             \/ i \in DOMAIN s /\ deliveries'[f][i] = s[i]
             \/ i > Len(s) /\ i - Len(s) \in 1..Len(t) /\ deliveries'[f][i] = t[i - Len(s)]
    <3>1. /\ s \o t \in Seq(Delivery) /\ DOMAIN (s \o t) = 1..(Len(s) + Len(t))
          /\ \A i \in DOMAIN s : i \in DOMAIN (s \o t) /\ (s \o t)[i] = s[i]
          /\ \A i \in DOMAIN (s \o t) :
               \/ i \in DOMAIN s /\ (s \o t)[i] = s[i]
               \/ i > Len(s) /\ i - Len(s) \in 1..Len(t) /\ (s \o t)[i] = t[i - Len(s)]
      BY <2>2, <2>3, Behind
    <3>2. QED
      BY <2>1, <3>1, Zenon
  <2>5. ASSUME "locale" \in due
        PROVE  Len(s) + 1 \in DOMAIN deliveries'[f] /\ deliveries'[f][Len(s) + 1].kind = "locale.changed"
    <3>1. PICK j \in Nat : j = Len(s) + 1
      BY <2>3
    <3>2. j \in DOMAIN deliveries'[f] /\ j \notin DOMAIN s /\ j - Len(s) = 1
      BY <3>1, <2>2, <2>3, <2>4, <2>5
    <3>3. deliveries'[f][j] = t[j - Len(s)]
      BY <3>2, <2>4
    <3>4. QED
      BY <3>1, <3>2, <3>3, <2>2, <2>5
  <2>6. \A i \in DOMAIN deliveries'[f] :
          \/ i \in DOMAIN s /\ deliveries'[f][i] = s[i]
          \/ /\ f \in subscribed /\ Hears(f) /\ i > Len(s)
             /\ \E k \in 1..Len(t) : deliveries'[f][i] = t[k]
    BY <1>3, <2>4
  <2>7. QED
    BY <2>4, <2>5, <2>6, Zenon DEF s, t
<1>4. CASE ~(f \in subscribed /\ Hears(f))
  <2>1. deliveries'[f] = deliveries[f]
    BY <1>2, <1>4 DEF Emit
  <2>2. QED
    BY <1>1, <1>4, <2>1
<1>5. QED
  BY <1>3, <1>4

\* The effects of a render: a frame that is closing is cleaned up, the others hear the news.
LEMMA RunEffectsKeeps ==
  ASSUME BridgeAssumption, HostInv, RunEffects
  PROVE  HostInv'
<1>1. HostTypeOK /\ ScopeInv /\ PortInv /\ NewsInv
  BY DEF HostInv
<1>2. /\ subscribed' = subscribed \ closing /\ due' = {} /\ closing' = {}
      /\ app' = [f \in Frames |-> IF f \in closing THEN Nowhere
                                  ELSE IF f = shown /\ app[f].at = "none" THEN Fresh ELSE app[f]]
      /\ deliveries' = [f \in Frames |-> IF f \in closing THEN <<>> ELSE Emit[f]]
      /\ requests' = [f \in Frames |-> IF f \in closing THEN <<>> ELSE requests[f]]
      /\ document' = [f \in Frames |-> IF f \in closing THEN 0 ELSE document[f]]
      /\ entangled' = [f \in Frames |-> IF f \in closing THEN NoDocument ELSE entangled[f]]
      /\ UNCHANGED <<context, opened, shown, binding, windows>>
  BY DEF RunEffects, Emptied
<1>3. Nowhere \in App /\ Fresh \in App /\ Nowhere.at = "none" /\ Fresh.at = "loading" /\ NoDocument \in Nat
  BY DEF App, Nowhere, Fresh, NoDocument, BridgeAssumption
<1>4. \A i \in 1..Len(News) :
        /\ News[i].of = context /\ News[i].kind \notin Asked
        /\ "locale" \notin due => News[i].kind # "locale.changed"
  BY <1>1, NewsFacts
<1>5. \A f \in Frames : f \in closing => deliveries'[f] = <<>>
  BY <1>2
<1>6. HostTypeOK'
  <2>1. ASSUME NEW f \in Frames PROVE deliveries'[f] \in Seq(Delivery)
    <3>1. CASE f \in closing
      BY <3>1, <1>5, EmptySeq
    <3>2. CASE f \notin closing
      BY <3>2, <1>1, EffectsReach
    <3>3. QED
      BY <3>1, <3>2
  <2>2. \A f \in Frames : requests'[f] \in Seq(Asked)
    BY <1>1, <1>2, EmptySeq DEF HostTypeOK
  <2>3. deliveries' \in [Frames -> Seq(Delivery)] /\ requests' \in [Frames -> Seq(Asked)]
    BY <1>2, <2>1, <2>2
  <2>4. document' \in [Frames -> Nat] /\ entangled' \in [Frames -> Nat] /\ app' \in [Frames -> App]
    BY <1>1, <1>2, <1>3 DEF HostTypeOK
  <2>5. QED
    BY <1>1, <1>2, <2>3, <2>4 DEF HostTypeOK
<1>7. ScopeInv'
  <2> SUFFICES ASSUME NEW f \in Frames
               PROVE  /\ f \in subscribed' \/ app'[f].at # "none" => f = shown
                      /\ \A i \in DOMAIN deliveries'[f] : deliveries'[f][i].of.scope = FrameScope[f]
    BY <1>1, <1>2 DEF ScopeInv
  <2>1. f \in subscribed' \/ app'[f].at # "none" => f = shown
    BY <1>1, <1>2, <1>3 DEF ScopeInv
  <2>2. CASE f \in closing
    BY <2>1, <2>2, <1>5
  <2>3. CASE f \notin closing
    <3>1. f \in subscribed => FrameScope[f] = context.scope
      BY <2>3, <1>1, LenProperties DEF ScopeInv, HostTypeOK, NoFrame, Frames, BridgeAssumption
    <3>2. \A i \in DOMAIN deliveries[f] : deliveries[f][i].of.scope = FrameScope[f]
      BY <1>1 DEF ScopeInv
    <3>3. ASSUME NEW i \in DOMAIN deliveries'[f] PROVE deliveries'[f][i].of.scope = FrameScope[f]
      <4>1. CASE i \in DOMAIN deliveries[f] /\ deliveries'[f][i] = deliveries[f][i]
        BY <3>2, <4>1
      <4>2. CASE f \in subscribed /\ \E k \in 1..Len(News) : deliveries'[f][i] = News[k]
        BY <4>2, <3>1, <1>4
      <4>3. QED
        BY <4>1, <4>2, <2>3, <1>1, EffectsReach
    <3>4. QED
      BY <2>1, <3>3
  <2>4. QED
    BY <2>2, <2>3
<1>8. PortInv'
  <2>1. ASSUME NEW m \in windows'
        PROVE  /\ m.frame \in Frames \ closing' /\ FrameKind[m.frame] = "iframe"
               /\ m.document \in Nat /\ m.document <= document'[m.frame]
               /\ m.type = "connect" /\ m.document = document'[m.frame] => PortOf(m.frame)'
    BY <2>1, <1>1, <1>2 DEF PortInv, PortOf
  <2>2. ASSUME NEW f \in Frames
        PROVE  /\ FrameKind[f] = "iframe" /\ app'[f].at \in {"reading", "connected"} => PortOf(f)'
               /\ app'[f].at = "connected" => f \in subscribed'
               /\ FrameKind[f] = "federation" => requests'[f] = <<>>
    BY <1>1, <1>2, <1>3 DEF PortInv, PortOf
  <2>3. ASSUME NEW f \in Frames, NEW i \in DOMAIN deliveries'[f], deliveries'[f][i].kind \in Asked
        PROVE  FrameKind[f] = "iframe" /\ f \in Capable
    <3>1. f \notin closing
      BY <2>3, <1>5
    <3>2. i \in DOMAIN deliveries[f] /\ deliveries[f][i].kind \in Asked
      BY SMTT(30), <2>3, <3>1, <1>1, <1>4, EffectsReach
    <3>3. QED
      BY <3>2, <1>1 DEF PortInv
  <2>4. QED
    BY <2>1, <2>2, <2>3, <1>2 DEF PortInv
<1>9. NewsInv'
  <2> SUFFICES ASSUME NEW f \in Frames PROVE NewsOf(f)'
    BY DEF NewsInv
  <2>1. CASE f \in closing
    BY <2>1, <1>2, <1>3 DEF NewsOf, Changed, LastChanged
  <2>2. CASE f \notin closing
    <3>1. NewsOf(f) /\ DOMAIN deliveries[f] = 1..Len(deliveries[f]) /\ Len(deliveries[f]) \in Nat
      BY <2>2, <1>1, DeliveryFacts DEF NewsInv
    <3>2. (f \in subscribed' <=> f \in subscribed) /\ (Hears(f)' <=> Hears(f))
      BY <2>2, <1>2 DEF Hears
    <3>3. app'[f] = app[f] \/ app'[f].at = "loading"
      BY <2>2, <1>2, <1>3
    <3>4. /\ \A i \in DOMAIN deliveries[f] :
               i \in DOMAIN deliveries'[f] /\ deliveries'[f][i] = deliveries[f][i]
          /\ \A i \in DOMAIN deliveries'[f] :
               \/ i \in DOMAIN deliveries[f] /\ deliveries'[f][i] = deliveries[f][i]
               \/ /\ f \in subscribed /\ Hears(f) /\ i > Len(deliveries[f])
                  /\ \E k \in 1..Len(News) : deliveries'[f][i] = News[k]
      BY <2>2, <1>1, EffectsReach
    <3>5. CASE "locale" \in due /\ f \in subscribed /\ Hears(f)
      <4> PICK n \in Nat : n = Len(deliveries[f]) + 1
        BY <3>1
      <4>1. Changed(f, n)'
        <5>1. n \in DOMAIN deliveries'[f] /\ deliveries'[f][n].kind = "locale.changed"
          BY <2>2, <3>5, <1>1, EffectsReach
        <5>2. QED
          BY <5>1 DEF Changed
      <4>2. ASSUME NEW i \in DOMAIN deliveries'[f], LastChanged(f, i)'
            PROVE  deliveries'[f][i].of.locale = context'.locale
        <5>1. ~(n > i)
          BY <4>1, <4>2 DEF LastChanged, Changed
        <5>2. i \notin DOMAIN deliveries[f]
          BY <5>1, <3>1
        <5>3. PICK k \in 1..Len(News) : deliveries'[f][i] = News[k]
          BY <3>4, <5>2
        <5>4. QED
          BY <5>3, <1>2, <1>4
      <4>3. QED
        BY <4>1, <4>2, <3>2, <3>5 DEF NewsOf, Changed
    <3>6. CASE ~("locale" \in due /\ f \in subscribed /\ Hears(f))
      <4>1. ASSUME NEW i, Changed(f, i)' PROVE Changed(f, i) /\ deliveries'[f][i] = deliveries[f][i]
        <5>1. i \in DOMAIN deliveries'[f] /\ deliveries'[f][i].kind = "locale.changed"
          BY <4>1 DEF Changed
        <5>2. i \in DOMAIN deliveries[f] /\ deliveries'[f][i] = deliveries[f][i]
          BY <5>1, <3>4, <3>6, <1>4
        <5>3. QED
          BY <5>1, <5>2 DEF Changed
      <4>2. ASSUME NEW i, Changed(f, i) PROVE Changed(f, i)'
        BY <4>2, <3>4 DEF Changed
      <4>3. \A i \in DOMAIN deliveries'[f] : Changed(f, i)' => f \in subscribed' /\ Hears(f)'
        BY <4>1, <3>1, <3>2 DEF NewsOf, Changed
      <4>4. ASSUME NEW i \in DOMAIN deliveries'[f], LastChanged(f, i)'
            PROVE  deliveries'[f][i].of.locale = context'.locale
        <5>1. Changed(f, i)' /\ \A j \in DOMAIN deliveries'[f] : j > i => ~Changed(f, j)'
          BY <4>4 DEF LastChanged
        <5>2. Changed(f, i) /\ deliveries'[f][i] = deliveries[f][i] /\ i \in DOMAIN deliveries[f]
          BY <4>1, <5>1 DEF Changed
        <5>3. LastChanged(f, i)
          BY <4>2, <5>1, <5>2, <3>4 DEF LastChanged
        <5>4. "locale" \notin due
          BY <5>2, <3>1, <3>6 DEF NewsOf
        <5>5. QED
          BY <5>2, <5>3, <5>4, <3>1, <1>2 DEF NewsOf
      <4>5. ASSUME app'[f].at = "connected", \A i \in DOMAIN deliveries'[f] : ~Changed(f, i)'
            PROVE  app'[f].locale \in {context'.locale, app'[f].read}
        <5>1. app'[f] = app[f] /\ app[f].at = "connected"
          BY <3>3, <4>5
        <5>2. f \in subscribed
          BY <5>1, <1>1 DEF PortInv
        <5>3. Hears(f)
          BY <5>1, <1>1 DEF PortInv, PortOf, Hears, BridgeAssumption
        <5>4. \A i \in DOMAIN deliveries[f] : ~Changed(f, i)
          BY <4>2, <4>5, <3>4
        <5>5. QED
          BY <5>1, <5>2, <5>3, <5>4, <3>1, <3>6, <1>2 DEF NewsOf
      <4>6. QED
        BY <4>3, <4>4, <4>5 DEF NewsOf
    <3>7. QED
      BY <3>5, <3>6
  <2>3. QED
    BY <2>1, <2>2
<1>10. QED
  BY <1>6, <1>7, <1>8, <1>9 DEF HostInv

\* The application of one frame moves; nothing else of it does.
LEMMA SetAppFacts ==
  ASSUME HostTypeOK, NEW f \in Frames, NEW state \in App, SetApp(f, state)
  PROVE  /\ app' \in [Frames -> App] /\ app'[f] = state
         /\ \A g \in Frames : g # f => app'[g] = app[g]
BY DEF HostTypeOK, SetApp

\* A message of the frame's document.
LEMMA MessageFacts ==
  ASSUME HostTypeOK, NEW f \in Frames, NEW type
  PROVE  /\ Message(f, type).frame = f /\ Message(f, type).type = type
         /\ Message(f, type).document = document[f] /\ document[f] \in Nat /\ document[f] <= document[f]
<1>1. document[f] \in Nat
  BY DEF HostTypeOK
<1>2. QED
  BY <1>1 DEF Message

\* The host serves a frame that is ready, and its document gets the port.
LEMMA HostHearsKeeps ==
  ASSUME BridgeAssumption, HostInv, NEW m \in windows, HostHears(m)
  PROVE  HostInv'
<1> DEFINE f == m.frame
<1>1. HostTypeOK /\ ScopeInv /\ PortInv /\ NewsInv /\ f \in Frames \ closing /\ FrameKind[f] = "iframe"
  BY DEF HostInv, PortInv
<1>2. UNCHANGED <<shellVars, document, app, requests, deliveries>>
  BY DEF HostHears
<1>3. CASE f = shown /\ serving[f] = "listening"
  <2>1. /\ subscribed' = subscribed \cup ({f} \cap Capable)
        /\ entangled' = [entangled EXCEPT ![f] = document[f]]
        /\ windows' = (windows \ {m}) \cup {Message(f, "connect")}
    BY <1>3 DEF HostHears
  <2>2. /\ Message(f, "connect").frame = f /\ Message(f, "connect").document = document[f]
        /\ document[f] \in Nat /\ document[f] <= document[f]
    BY <1>1, MessageFacts
  <2> HIDE DEF f
  <2>3. PortOf(f)' /\ \A g \in Frames : PortOf(g) => PortOf(g)'
    BY <1>1, <1>2, <2>1 DEF PortOf, HostTypeOK
  <2>4. HostTypeOK'
    BY <1>1, <1>2, <2>1, <2>2 DEF HostTypeOK, shellVars
  <2>5. ScopeInv'
    BY <1>1, <1>2, <1>3, <2>1 DEF ScopeInv, shellVars
  <2>6. PortInv'
    <3>1. ASSUME NEW n \in windows'
          PROVE  /\ n.frame \in Frames \ closing' /\ FrameKind[n.frame] = "iframe"
                 /\ n.document \in Nat /\ n.document <= document'[n.frame]
                 /\ n.type = "connect" /\ n.document = document'[n.frame] => PortOf(n.frame)'
      <4>1. CASE n \in windows
        BY <4>1, <1>1, <1>2, <2>3 DEF PortInv, shellVars
      <4>2. CASE n = Message(f, "connect")
        BY <4>2, <1>1, <1>2, <2>2, <2>3 DEF shellVars
      <4>3. QED
        BY <4>1, <4>2, <2>1
    <3>2. ASSUME NEW g \in Frames
          PROVE  /\ FrameKind[g] = "iframe" /\ g \in closing' => app'[g].at = "none"
                 /\ FrameKind[g] = "iframe" /\ app'[g].at \in {"reading", "connected"} => PortOf(g)'
                 /\ app'[g].at = "connected" => g \in subscribed'
                 /\ FrameKind[g] = "federation" => requests'[g] = <<>>
                 /\ \A i \in DOMAIN deliveries'[g] :
                      deliveries'[g][i].kind \in Asked => FrameKind[g] = "iframe" /\ g \in Capable
      BY <1>1, <1>2, <2>1, <2>3 DEF PortInv, shellVars
    <3>3. QED
      BY <3>1, <3>2 DEF PortInv
  <2>7. NewsInv'
    <3> SUFFICES ASSUME NEW g \in Frames \ closing' PROVE NewsOf(g)'
      BY DEF NewsInv
    <3>1. NewsOf(g) /\ (Hears(g) => Hears(g)') /\ (g \in subscribed => g \in subscribed')
      BY <1>1, <1>2, <2>1 DEF NewsInv, Hears, shellVars, HostTypeOK
    <3>2. QED
      BY <3>1, <1>2, NewsStay DEF shellVars
  <2>8. QED
    BY <2>4, <2>5, <2>6, <2>7 DEF HostInv
<1>4. CASE ~(f = shown /\ serving[f] = "listening")
  <2>1. windows' \subseteq windows /\ UNCHANGED <<subscribed, entangled>>
    BY <1>4 DEF HostHears
  <2> HIDE DEF f
  <2>2. HostTypeOK'
    BY <1>1, <1>2, <2>1 DEF HostTypeOK, shellVars
  <2>3. ScopeInv'
    BY <1>1, <1>2, <2>1 DEF ScopeInv, shellVars
  <2>4. PortInv'
    BY <1>1, <1>2, <2>1 DEF PortInv, PortOf, shellVars
  <2>5. NewsInv'
    BY <1>1, <1>2, <2>1 DEF NewsInv, NewsOf, Changed, LastChanged, Hears, shellVars
  <2>6. QED
    BY <2>2, <2>3, <2>4, <2>5 DEF HostInv
<1>5. QED
  BY <1>3, <1>4

\* The host answers a request: the answer is not news.
LEMMA HostAnswersKeeps ==
  ASSUME BridgeAssumption, HostInv, NEW f \in Frames, HostAnswers(f)
  PROVE  HostInv'
<1> DEFINE answer == [kind |-> IF f \in Capable THEN Head(requests[f]) ELSE "refused", of |-> binding[f]]
           d == deliveries[f]
<1>1. HostTypeOK /\ ScopeInv /\ PortInv /\ NewsInv
  BY DEF HostInv
<1>2. /\ requests[f] # <<>> /\ requests' = [requests EXCEPT ![f] = Tail(@)]
      /\ deliveries' = IF ~Hears(f) THEN deliveries ELSE [deliveries EXCEPT ![f] = Append(@, answer)]
      /\ UNCHANGED <<shellVars, serving, subscribed, document, entangled, app, windows>>
  BY DEF HostAnswers
<1>3. Head(requests[f]) \in Asked /\ Tail(requests[f]) \in Seq(Asked)
  BY <1>1, <1>2, HeadTailProperties DEF HostTypeOK
<1>4. answer \in Delivery /\ answer.of = binding[f] /\ answer.kind # "locale.changed"
      /\ (answer.kind \in Asked => f \in Capable)
  BY <1>1, <1>3 DEF Delivery, Told, Asked, HostTypeOK
<1>5. FrameKind[f] = "iframe" /\ binding[f].scope = FrameScope[f]
  BY <1>1, <1>2 DEF PortInv, ScopeInv, BridgeAssumption
<1>6. d \in Seq(Delivery) /\ Len(d) \in Nat /\ DOMAIN d = 1..Len(d)
  BY <1>1, DeliveryFacts
<1> HIDE DEF answer
<1>7. \A g \in Frames : g # f => deliveries'[g] = deliveries[g]
  BY <1>1, <1>2 DEF HostTypeOK
<1>8. /\ deliveries'[f] \in Seq(Delivery)
      /\ \A i \in DOMAIN d : i \in DOMAIN deliveries'[f] /\ deliveries'[f][i] = d[i]
      /\ \A i \in DOMAIN deliveries'[f] : (i \in DOMAIN d /\ deliveries'[f][i] = d[i]) \/ deliveries'[f][i] = answer
  <2>1. CASE ~Hears(f)
    BY <2>1, <1>2, <1>6
  <2>2. CASE Hears(f)
    <3>1. deliveries'[f] = Append(d, answer)
      BY <2>2, <1>1, <1>2 DEF HostTypeOK
    <3> HIDE DEF d
    <3>2. /\ Append(d, answer) \in Seq(Delivery) /\ Len(Append(d, answer)) = Len(d) + 1
          /\ \A i \in 1..Len(d) : Append(d, answer)[i] = d[i]
          /\ Append(d, answer)[Len(d) + 1] = answer
      BY <1>4, <1>6, AppendProperties
    <3>3. DOMAIN Append(d, answer) = 1..(Len(d) + 1)
      BY <3>2, LenProperties
    <3>4. QED
      BY <3>1, <3>2, <3>3, <1>6
  <2>3. QED
    BY <2>1, <2>2
<1>9. HostTypeOK'
  <2>1. deliveries' \in [Frames -> Seq(Delivery)]
    <3>1. DOMAIN deliveries' = Frames /\ deliveries' = [g \in Frames |-> deliveries'[g]]
      BY <1>1, <1>2 DEF HostTypeOK
    <3>2. \A g \in Frames : deliveries'[g] \in Seq(Delivery)
      BY <1>1, <1>7, <1>8 DEF HostTypeOK
    <3>3. QED
      BY <3>1, <3>2
  <2>2. requests' \in [Frames -> Seq(Asked)]
    BY <1>1, <1>2, <1>3 DEF HostTypeOK
  <2>3. QED
    BY <1>1, <1>2, <2>1, <2>2 DEF HostTypeOK, shellVars
<1>10. ScopeInv'
  <2> SUFFICES ASSUME NEW g \in Frames, NEW i \in DOMAIN deliveries'[g]
               PROVE  deliveries'[g][i].of.scope = FrameScope[g]
    BY <1>1, <1>2 DEF ScopeInv, shellVars
  <2>1. CASE g # f
    BY <2>1, <1>1, <1>7 DEF ScopeInv
  <2>2. CASE g = f
    BY <2>2, <1>1, <1>4, <1>5, <1>8 DEF ScopeInv
  <2>3. QED
    BY <2>1, <2>2
<1>11. PortInv'
  <2>1. ASSUME NEW m \in windows'
        PROVE  /\ m.frame \in Frames \ closing' /\ FrameKind[m.frame] = "iframe"
               /\ m.document \in Nat /\ m.document <= document'[m.frame]
               /\ m.type = "connect" /\ m.document = document'[m.frame] => PortOf(m.frame)'
    BY <1>1, <1>2 DEF PortInv, PortOf, shellVars
  <2>2. ASSUME NEW g \in Frames
        PROVE  /\ FrameKind[g] = "iframe" /\ g \in closing' => app'[g].at = "none"
               /\ FrameKind[g] = "iframe" /\ app'[g].at \in {"reading", "connected"} => PortOf(g)'
               /\ app'[g].at = "connected" => g \in subscribed'
               /\ FrameKind[g] = "federation" => requests'[g] = <<>>
    BY <1>1, <1>2, <1>5 DEF PortInv, PortOf, shellVars, HostTypeOK
  <2>3. ASSUME NEW g \in Frames, NEW i \in DOMAIN deliveries'[g], deliveries'[g][i].kind \in Asked
        PROVE  FrameKind[g] = "iframe" /\ g \in Capable
    <3>1. CASE g # f
      BY <2>3, <3>1, <1>1, <1>7 DEF PortInv
    <3>2. CASE g = f
      BY <2>3, <3>2, <1>1, <1>4, <1>5, <1>8 DEF PortInv
    <3>3. QED
      BY <3>1, <3>2
  <2>4. QED
    BY <2>1, <2>2, <2>3 DEF PortInv
<1>12. NewsInv'
  <2> SUFFICES ASSUME NEW g \in Frames \ closing' PROVE NewsOf(g)'
    BY DEF NewsInv
  <2>1. /\ NewsOf(g) /\ (Hears(g)' <=> Hears(g)) /\ (g \in subscribed' <=> g \in subscribed)
        /\ UNCHANGED <<app, due, context>>
    BY <1>1, <1>2 DEF NewsInv, Hears, shellVars
  <2>2. CASE g # f
    BY <2>1, <2>2, <1>7, NewsStay
  <2>3. CASE g = f
    <3>1. ASSUME NEW i, Changed(f, i)' PROVE Changed(f, i) /\ deliveries'[f][i] = deliveries[f][i]
      BY <3>1, <1>4, <1>8 DEF Changed
    <3>2. ASSUME NEW i, Changed(f, i) PROVE Changed(f, i)'
      BY <3>2, <1>8 DEF Changed
    <3>3. ASSUME NEW i, LastChanged(f, i)' PROVE LastChanged(f, i)
      BY <3>1, <3>2, <3>3, <1>8 DEF LastChanged
    <3>4. \A i \in DOMAIN deliveries'[f] : Changed(f, i)' => f \in subscribed' /\ Hears(f)'
      BY <3>1, <2>1, <2>3 DEF NewsOf, Changed
    <3>5. ASSUME "locale" \notin due', NEW i \in DOMAIN deliveries'[f], LastChanged(f, i)'
          PROVE  deliveries'[f][i].of.locale = context'.locale
      <4>1. LastChanged(f, i) /\ i \in DOMAIN deliveries[f] /\ deliveries'[f][i] = deliveries[f][i]
        BY <3>1, <3>3, <3>5 DEF LastChanged, Changed
      <4>2. QED
        BY <4>1, <3>5, <2>1, <2>3 DEF NewsOf
    <3>6. ASSUME "locale" \notin due', app'[f].at = "connected", \A i \in DOMAIN deliveries'[f] : ~Changed(f, i)'
          PROVE  app'[f].locale \in {context'.locale, app'[f].read}
      <4>1. \A i \in DOMAIN deliveries[f] : ~Changed(f, i)
        BY <3>2, <3>6, <1>8
      <4>2. QED
        BY <4>1, <3>6, <2>1, <2>3 DEF NewsOf
    <3>7. QED
      BY <3>4, <3>5, <3>6, <2>3 DEF NewsOf
  <2>4. QED
    BY <2>2, <2>3
<1>13. QED
  BY <1>9, <1>10, <1>11, <1>12 DEF HostInv

\* The document asks for a port.
LEMMA AskHostKeeps ==
  ASSUME BridgeAssumption, HostInv, NEW f \in Frames, AskHost(f)
  PROVE  HostInv'
<1> DEFINE next == [app[f] EXCEPT !.at = "asking"]
<1>1. HostTypeOK /\ ScopeInv /\ PortInv /\ NewsInv
  BY DEF HostInv
<1>2. /\ FrameKind[f] = "iframe" /\ app[f].at = "loading" /\ SetApp(f, next)
      /\ windows' = windows \cup {Message(f, "ready")}
      /\ UNCHANGED <<shellVars, serving, subscribed, document, entangled, requests, deliveries>>
  BY DEF AskHost
<1>3. next \in App /\ next.at = "asking"
  BY ZenonT(60), <1>1 DEF HostTypeOK, App
<1> HIDE DEF next
<1>4. app' \in [Frames -> App] /\ app'[f] = next /\ \A g \in Frames : g # f => app'[g] = app[g]
  BY <1>1, <1>2, <1>3, SetAppFacts
<1>5. HostTypeOK' /\ ScopeInv'
  BY <1>1, <1>2, <1>3, <1>4 DEF HostTypeOK, ScopeInv, shellVars
<1>6. PortInv'
  <2>1. ASSUME NEW n \in windows'
        PROVE  /\ n.frame \in Frames \ closing' /\ FrameKind[n.frame] = "iframe"
               /\ n.document \in Nat /\ n.document <= document'[n.frame]
               /\ n.type = "connect" /\ n.document = document'[n.frame] => PortOf(n.frame)'
    <3>1. CASE n \in windows
      BY <3>1, <1>1, <1>2 DEF PortInv, PortOf, shellVars
    <3>2. CASE n = Message(f, "ready")
      <4>1. n.frame = f /\ n.type = "ready" /\ n.document = document[f] /\ document[f] \in Nat
            /\ document[f] <= document[f]
        BY <3>2, <1>1, MessageFacts
      <4>2. f \notin closing
        BY <1>1, <1>2 DEF PortInv
      <4>3. QED
        BY <4>1, <4>2, <1>2 DEF shellVars
    <3>3. QED
      BY <3>1, <3>2, <1>2
  <2>2. ASSUME NEW g \in Frames
        PROVE  /\ FrameKind[g] = "iframe" /\ g \in closing' => app'[g].at = "none"
               /\ FrameKind[g] = "iframe" /\ app'[g].at \in {"reading", "connected"} => PortOf(g)'
               /\ app'[g].at = "connected" => g \in subscribed'
               /\ FrameKind[g] = "federation" => requests'[g] = <<>>
               /\ \A i \in DOMAIN deliveries'[g] :
                    deliveries'[g][i].kind \in Asked => FrameKind[g] = "iframe" /\ g \in Capable
    BY <1>1, <1>2, <1>3, <1>4 DEF PortInv, PortOf, shellVars
  <2>3. QED
    BY <2>1, <2>2 DEF PortInv
<1>7. NewsInv'
  <2> SUFFICES ASSUME NEW g \in Frames \ closing' PROVE NewsOf(g)'
    BY DEF NewsInv
  <2>1. NewsOf(g) /\ (Hears(g) => Hears(g)')
    BY <1>1, <1>2 DEF NewsInv, Hears, shellVars
  <2>2. app'[g] = app[g] \/ app'[g].at # "connected"
    BY <1>3, <1>4
  <2>3. QED
    BY <2>1, <2>2, <1>2, NewsStay DEF shellVars
<1>8. QED
  BY <1>5, <1>6, <1>7 DEF HostInv

\* The document has its port: the application starts to read.
LEMMA FrameHearsKeeps ==
  ASSUME BridgeAssumption, HostInv, NEW m \in windows, FrameHears(m)
  PROVE  HostInv'
<1> DEFINE f == m.frame
           next == [app[f] EXCEPT !.at = "reading"]
<1>1. HostTypeOK /\ ScopeInv /\ PortInv /\ NewsInv /\ f \in Frames \ closing /\ FrameKind[f] = "iframe"
  BY DEF HostInv, PortInv
<1>2. /\ m.type = "connect" /\ windows' = windows \ {m}
      /\ UNCHANGED <<shellVars, serving, subscribed, document, entangled, deliveries>>
  BY DEF FrameHears
<1>3. next \in App /\ next.at = "reading"
  <2>1. app[f] \in App
    BY <1>1 DEF HostTypeOK
  <2>2. QED
    BY <2>1 DEF App
<1>4. <<"locale.getCurrent", "user.getSummary">> \in Seq(Asked)
  BY DEF Asked
<1>5. CASE m.document = document[f] /\ app[f].at = "asking"
  <2>1. SetApp(f, next) /\ requests' = [requests EXCEPT ![f] = <<"locale.getCurrent", "user.getSummary">>]
    BY <1>5 DEF FrameHears
  <2>2. PortOf(f)
    BY <1>1, <1>2, <1>5 DEF PortInv
  <2> HIDE DEF f, next
  <2>3. app' \in [Frames -> App] /\ app'[f] = next /\ \A g \in Frames : g # f => app'[g] = app[g]
    BY <1>1, <1>3, <2>1, SetAppFacts
  <2>4. requests' \in [Frames -> Seq(Asked)] /\ \A g \in Frames : g # f => requests'[g] = requests[g]
    BY <1>1, <1>4, <2>1 DEF HostTypeOK
  <2>5. HostTypeOK'
    BY <1>1, <1>2, <2>3, <2>4 DEF HostTypeOK, shellVars
  <2>6. ScopeInv'
    BY <1>1, <1>2, <1>3, <1>5, <2>3 DEF ScopeInv, shellVars
  <2>7. PortInv'
    <3>1. \A g \in Frames : PortOf(g)' <=> PortOf(g)
      BY <1>2 DEF PortOf
    <3>2. ASSUME NEW n \in windows'
          PROVE  /\ n.frame \in Frames \ closing' /\ FrameKind[n.frame] = "iframe"
                 /\ n.document \in Nat /\ n.document <= document'[n.frame]
                 /\ n.type = "connect" /\ n.document = document'[n.frame] => PortOf(n.frame)'
      BY <1>1, <1>2, <3>1 DEF PortInv, shellVars
    <3>3. ASSUME NEW g \in Frames
          PROVE  /\ FrameKind[g] = "iframe" /\ g \in closing' => app'[g].at = "none"
                 /\ FrameKind[g] = "iframe" /\ app'[g].at \in {"reading", "connected"} => PortOf(g)'
                 /\ app'[g].at = "connected" => g \in subscribed'
                 /\ FrameKind[g] = "federation" => requests'[g] = <<>>
                 /\ \A i \in DOMAIN deliveries'[g] :
                      deliveries'[g][i].kind \in Asked => FrameKind[g] = "iframe" /\ g \in Capable
      <4>1. CASE g = f
        BY <4>1, <1>1, <1>2, <1>3, <2>2, <2>3, <3>1 DEF PortInv, shellVars
      <4>2. CASE g # f
        BY <4>2, <1>1, <1>2, <2>3, <2>4, <3>1 DEF PortInv, shellVars
      <4>3. QED
        BY <4>1, <4>2
    <3>4. QED
      BY <3>2, <3>3 DEF PortInv
  <2>8. NewsInv'
    <3> SUFFICES ASSUME NEW g \in Frames \ closing' PROVE NewsOf(g)'
      BY DEF NewsInv
    <3>1. NewsOf(g) /\ (Hears(g) => Hears(g)')
      BY <1>1, <1>2 DEF NewsInv, Hears, shellVars
    <3>2. app'[g] = app[g] \/ app'[g].at # "connected"
      BY <1>3, <2>3
    <3>3. QED
      BY <3>1, <3>2, <1>2, NewsStay DEF shellVars
  <2>9. QED
    BY <2>5, <2>6, <2>7, <2>8 DEF HostInv
<1>6. CASE ~(m.document = document[f] /\ app[f].at = "asking")
  <2>1. UNCHANGED <<app, requests>>
    BY <1>6 DEF FrameHears
  <2> HIDE DEF f, next
  <2>2. HostTypeOK' /\ ScopeInv' /\ PortInv'
    BY <1>1, <1>2, <2>1 DEF HostTypeOK, ScopeInv, PortInv, PortOf, shellVars
  <2>3. NewsInv'
    BY <1>1, <1>2, <2>1 DEF NewsInv, NewsOf, Changed, LastChanged, Hears, shellVars
  <2>4. QED
    BY <2>2, <2>3 DEF HostInv
<1>7. QED
  BY <1>5, <1>6

\* An application that moves without a message of its own: into the standalone mode, to its
\* first reading, or to what it read first.
LEMMA MoveKeeps ==
  ASSUME HostInv, NEW f \in Frames, NEW next \in App, SetApp(f, next),
         app[f].at # "none",
         next.at \in {"asking", "reading", "connected", "standalone"},
         FrameKind[f] = "iframe" => next.at = "standalone",
         next.at = "connected" => next.locale = next.read /\ f \in subscribed',
         subscribed' \in {subscribed, subscribed \cup {f}},
         UNCHANGED <<shellVars, serving, document, entangled, wires>>
  PROVE  HostInv'
<1>1. HostTypeOK /\ ScopeInv /\ PortInv /\ NewsInv
  BY DEF HostInv
<1>2. app' \in [Frames -> App] /\ app'[f] = next /\ \A g \in Frames : g # f => app'[g] = app[g]
  BY <1>1, SetAppFacts
<1>3. HostTypeOK'
  BY <1>1, <1>2 DEF HostTypeOK, shellVars, wires
<1>4. ScopeInv'
  <2> SUFFICES ASSUME NEW g \in Frames, g \in subscribed' \/ app'[g].at # "none"
               PROVE  g = shown \/ g \in closing
    BY <1>1 DEF ScopeInv, shellVars, wires
  <2>1. g \in subscribed \/ app[g].at # "none"
    BY <1>2
  <2>2. QED
    BY <2>1, <1>1 DEF ScopeInv
<1>5. PortInv'
  <2>1. \A g \in Frames : PortOf(g) => PortOf(g)'
    BY DEF PortOf
  <2>2. ASSUME NEW n \in windows'
        PROVE  /\ n.frame \in Frames \ closing' /\ FrameKind[n.frame] = "iframe"
               /\ n.document \in Nat /\ n.document <= document'[n.frame]
               /\ n.type = "connect" /\ n.document = document'[n.frame] => PortOf(n.frame)'
    BY <1>1, <2>1 DEF PortInv, shellVars, wires
  <2>3. ASSUME NEW g \in Frames
        PROVE  /\ FrameKind[g] = "iframe" /\ g \in closing' => app'[g].at = "none"
               /\ FrameKind[g] = "iframe" /\ app'[g].at \in {"reading", "connected"} => PortOf(g)'
               /\ app'[g].at = "connected" => g \in subscribed'
               /\ FrameKind[g] = "federation" => requests'[g] = <<>>
               /\ \A i \in DOMAIN deliveries'[g] :
                    deliveries'[g][i].kind \in Asked => FrameKind[g] = "iframe" /\ g \in Capable
    BY <1>1, <1>2, <2>1 DEF PortInv, shellVars, wires
  <2>4. QED
    BY <2>2, <2>3 DEF PortInv
<1>6. NewsInv'
  <2> SUFFICES ASSUME NEW g \in Frames \ closing' PROVE NewsOf(g)'
    BY DEF NewsInv
  <2>1. NewsOf(g) /\ (Hears(g) => Hears(g)')
    BY <1>1 DEF NewsInv, Hears, shellVars
  <2>2. app'[g] = app[g] \/ app'[g].at # "connected" \/ app'[g].locale = app'[g].read
    BY <1>2
  <2>3. QED
    BY <2>1, <2>2, NewsStay DEF shellVars, wires
<1>7. QED
  BY <1>3, <1>4, <1>5, <1>6 DEF HostInv

LEMMA TimeOutKeeps == ASSUME HostInv, NEW f \in Frames, TimeOut(f) PROVE HostInv'
<1> DEFINE next == [app[f] EXCEPT !.at = "standalone"]
<1>1. next \in App /\ next.at = "standalone"
  BY DEF HostInv, HostTypeOK, App
<1>2. SetApp(f, next) /\ app[f].at # "none"
      /\ UNCHANGED <<shellVars, serving, subscribed, document, entangled, wires>>
  BY DEF TimeOut
<1> HIDE DEF next
<1>3. QED
  BY <1>1, <1>2, MoveKeeps

LEMMA ReadLocaleKeeps == ASSUME BridgeAssumption, HostInv, NEW f \in Frames, ReadLocale(f) PROVE HostInv'
<1> DEFINE next == [app[f] EXCEPT !.at = "reading", !.read = binding[f].locale]
<1>1. next \in App /\ next.at = "reading"
  <2>1. app[f] \in App /\ binding[f] \in Context
    BY DEF HostInv, HostTypeOK
  <2>2. binding[f].locale \in Nat
    BY <2>1 DEF Context
  <2>3. QED
    BY <2>1, <2>2 DEF App
<1>2. SetApp(f, next) /\ app[f].at # "none" /\ FrameKind[f] # "iframe"
      /\ UNCHANGED <<shellVars, serving, subscribed, document, entangled, wires>>
  BY DEF ReadLocale
<1> HIDE DEF next
<1>3. QED
  BY <1>1, <1>2, MoveKeeps

LEMMA MountApplicationKeeps ==
  ASSUME BridgeAssumption, HostInv, NEW f \in Frames, MountApplication(f)
  PROVE  HostInv'
<1> DEFINE next == [app[f] EXCEPT !.at = "connected", !.locale = app[f].read]
<1>1. next \in App /\ next.at = "connected" /\ next.locale = next.read
  BY ZenonT(60) DEF HostInv, HostTypeOK, App
<1>2. SetApp(f, next) /\ app[f].at # "none" /\ FrameKind[f] # "iframe" /\ subscribed' = subscribed \cup {f}
      /\ UNCHANGED <<shellVars, serving, document, entangled, wires>>
  BY DEF MountApplication
<1> HIDE DEF next
<1>3. QED
  BY <1>1, <1>2, MoveKeeps

\* A document that is loaded again has no port, and what is under way is not for it.
LEMMA ReloadKeeps ==
  ASSUME BridgeAssumption, HostInv, NEW f \in Frames, Reload(f)
  PROVE  HostInv'
<1>1. HostTypeOK /\ ScopeInv /\ PortInv /\ NewsInv
  BY DEF HostInv
<1>2. /\ FrameKind[f] = "iframe" /\ app[f].at # "none" /\ SetApp(f, Fresh)
      /\ document' = [document EXCEPT ![f] = @ + 1]
      /\ requests' = [requests EXCEPT ![f] = <<>>] /\ deliveries' = [deliveries EXCEPT ![f] = <<>>]
      /\ UNCHANGED <<shellVars, serving, subscribed, entangled, windows>>
  BY DEF Reload
<1>3. Fresh \in App /\ Fresh.at = "loading"
  BY DEF App, Nowhere, Fresh
<1>4. app' \in [Frames -> App] /\ app'[f] = Fresh /\ \A g \in Frames : g # f => app'[g] = app[g]
  BY <1>1, <1>2, <1>3, SetAppFacts
<1>5. /\ document' \in [Frames -> Nat] /\ document'[f] = document[f] + 1
      /\ requests' \in [Frames -> Seq(Asked)] /\ requests'[f] = <<>>
      /\ deliveries' \in [Frames -> Seq(Delivery)] /\ deliveries'[f] = <<>>
      /\ \A g \in Frames : g # f => /\ document'[g] = document[g] /\ requests'[g] = requests[g]
                                    /\ deliveries'[g] = deliveries[g]
  BY <1>1, <1>2, EmptySeq DEF HostTypeOK
<1>6. HostTypeOK'
  BY <1>1, <1>2, <1>4, <1>5 DEF HostTypeOK, shellVars
<1>7. ScopeInv'
  <2> SUFFICES ASSUME NEW g \in Frames
               PROVE  /\ g \in subscribed \/ app'[g].at # "none" => g = shown \/ g \in closing
                      /\ \A i \in DOMAIN deliveries'[g] : deliveries'[g][i].of.scope = FrameScope[g]
    BY <1>1, <1>2 DEF ScopeInv, shellVars
  <2>1. CASE g = f
    BY <2>1, <1>1, <1>2, <1>5 DEF ScopeInv
  <2>2. CASE g # f
    BY ZenonT(60), <2>2, <1>1, <1>4, <1>5 DEF ScopeInv
  <2>3. QED
    BY <2>1, <2>2
<1>8. PortInv'
  <2>1. ASSUME NEW n \in windows'
        PROVE  /\ n.frame \in Frames \ closing' /\ FrameKind[n.frame] = "iframe"
               /\ n.document \in Nat /\ n.document <= document'[n.frame]
               /\ n.type = "connect" /\ n.document = document'[n.frame] => PortOf(n.frame)'
    <3>1. /\ n.frame \in Frames \ closing /\ FrameKind[n.frame] = "iframe"
          /\ n.document \in Nat /\ n.document <= document[n.frame]
          /\ n.type = "connect" /\ n.document = document[n.frame] => PortOf(n.frame)
      BY <1>1, <1>2 DEF PortInv
    <3>2. document[n.frame] \in Nat
      BY <3>1, <1>1 DEF HostTypeOK
    <3>3. CASE n.frame = f
      BY <3>1, <3>2, <3>3, <1>2, <1>5 DEF shellVars
    <3>4. CASE n.frame # f
      BY <3>1, <3>4, <1>2, <1>5 DEF shellVars, PortOf
    <3>5. QED
      BY <3>3, <3>4
  <2>2. ASSUME NEW g \in Frames
        PROVE  /\ FrameKind[g] = "iframe" /\ g \in closing' => app'[g].at = "none"
               /\ FrameKind[g] = "iframe" /\ app'[g].at \in {"reading", "connected"} => PortOf(g)'
               /\ app'[g].at = "connected" => g \in subscribed'
               /\ FrameKind[g] = "federation" => requests'[g] = <<>>
               /\ \A i \in DOMAIN deliveries'[g] :
                    deliveries'[g][i].kind \in Asked => FrameKind[g] = "iframe" /\ g \in Capable
    <3>1. CASE g = f
      BY <3>1, <1>1, <1>2, <1>3, <1>4, <1>5 DEF PortInv, shellVars
    <3>2. CASE g # f
      BY <3>2, <1>1, <1>2, <1>4, <1>5 DEF PortInv, PortOf, shellVars
    <3>3. QED
      BY <3>1, <3>2
  <2>3. QED
    BY <2>1, <2>2 DEF PortInv
<1>9. NewsInv'
  <2> SUFFICES ASSUME NEW g \in Frames \ closing' PROVE NewsOf(g)'
    BY DEF NewsInv
  <2>1. CASE g = f
    BY <2>1, <1>3, <1>4, <1>5 DEF NewsOf, Changed, LastChanged
  <2>2. CASE g # f
    <3>1. NewsOf(g) /\ (Hears(g) => Hears(g)')
      BY <2>2, <1>1, <1>2, <1>5 DEF NewsInv, Hears, shellVars
    <3>2. QED
      BY <2>2, <3>1, <1>2, <1>4, <1>5, NewsStay DEF shellVars
  <2>3. QED
    BY <2>1, <2>2
<1>10. QED
  BY <1>6, <1>7, <1>8, <1>9 DEF HostInv

\* The application follows a change at once, and the answers together.
LEMMA AfterMessageFacts ==
  ASSUME NEW a \in App, NEW m \in Delivery
  PROVE  /\ AfterMessage(a, m) \in App
         /\ a.at # "none" => AfterMessage(a, m).at # "none"
         /\ AfterMessage(a, m).at \in {"reading", "connected"} => a.at \in {"reading", "connected"}
         /\ AfterMessage(a, m).at = "connected" /\ a.at # "connected" =>
              m.kind \in Asked /\ AfterMessage(a, m).locale = AfterMessage(a, m).read
         /\ a.at = "connected" /\ m.kind = "locale.changed" =>
              AfterMessage(a, m).locale = m.of.locale
         /\ a.at = "connected" /\ m.kind # "locale.changed" => AfterMessage(a, m) = a
<1>1. m.of.locale \in Nat
  BY DEF Delivery, Context
<1>2. CASE m.kind = "locale.changed"
  <2>1. AfterMessage(a, m) = [a EXCEPT !.locale = m.of.locale]
    BY <1>2 DEF AfterMessage
  <2>2. QED
    BY <1>1, <1>2, <2>1 DEF App
<1>3. CASE m.kind = "locale.getCurrent" /\ a.at = "reading"
  <2>1. AfterMessage(a, m) = [a EXCEPT !.read = m.of.locale]
    BY <1>3 DEF AfterMessage
  <2>2. QED
    BY <1>1, <1>3, <2>1 DEF App
<1>4. CASE m.kind = "user.getSummary" /\ a.at = "reading"
  <2>1. AfterMessage(a, m) = [a EXCEPT !.at = "connected", !.locale = a.read]
    BY <1>4 DEF AfterMessage
  <2>2. QED
    BY <1>1, <1>4, <2>1 DEF App, Asked
<1>5. CASE m.kind = "refused" /\ a.at = "reading"
  <2>1. AfterMessage(a, m) = [a EXCEPT !.at = "standalone"]
    BY <1>5 DEF AfterMessage
  <2>2. QED
    BY <1>1, <1>5, <2>1 DEF App
<1>6. CASE m.kind # "locale.changed" /\ ~(m.kind \in {"locale.getCurrent", "user.getSummary", "refused"} /\ a.at = "reading")
  <2>1. AfterMessage(a, m) = a
    BY <1>6 DEF AfterMessage
  <2>2. QED
    BY <1>1, <1>6, <2>1 DEF App
<1>7. QED
  BY <1>2, <1>3, <1>4, <1>5, <1>6

\* The application takes the first message.
LEMMA AppHearsKeeps ==
  ASSUME BridgeAssumption, HostInv, NEW f \in Frames, AppHears(f)
  PROVE  HostInv'
<1> DEFINE d == deliveries[f]
           m == Head(d)
           a == app[f]
           next == IF a.at \in {"none", "loading", "asking"} THEN a ELSE AfterMessage(a, m)
<1>1. HostTypeOK /\ ScopeInv /\ PortInv /\ NewsInv
  BY DEF HostInv
<1>2. /\ d # <<>> /\ deliveries' = [deliveries EXCEPT ![f] = Tail(@)] /\ SetApp(f, next)
      /\ UNCHANGED <<shellVars, serving, subscribed, document, entangled, windows, requests>>
  BY DEF AppHears
<1>3. d \in Seq(Delivery) /\ Len(d) \in Nat /\ DOMAIN d = 1..Len(d) /\ a \in App
  BY <1>1, DeliveryFacts
<1>4. /\ m \in Delivery /\ 1 \in DOMAIN d /\ m = d[1]
      /\ Tail(d) \in Seq(Delivery) /\ Len(Tail(d)) = Len(d) - 1
      /\ \A i \in 1..Len(Tail(d)) : Tail(d)[i] = d[i + 1]
  <2>1. Len(d) # 0
    BY <1>2, <1>3, EmptySeq
  <2>2. QED
    BY <2>1, <1>2, <1>3, HeadTailProperties
<1>5. /\ next \in App
      /\ a.at # "none" <=> next.at # "none"
      /\ next.at \in {"reading", "connected"} => a.at \in {"reading", "connected"}
      /\ next.at = "connected" /\ a.at # "connected" => m.kind \in Asked /\ next.locale = next.read
      /\ a.at = "connected" /\ m.kind = "locale.changed" => next.locale = m.of.locale
      /\ a.at = "connected" /\ m.kind # "locale.changed" => next = a
  BY SMTT(30), <1>3, <1>4, AfterMessageFacts
<1> HIDE DEF next
<1>6. app' \in [Frames -> App] /\ app'[f] = next /\ \A g \in Frames : g # f => app'[g] = app[g]
  BY <1>1, <1>2, <1>5, SetAppFacts
<1>7. /\ deliveries'[f] = Tail(d) /\ deliveries' \in [Frames -> Seq(Delivery)]
      /\ \A g \in Frames : g # f => deliveries'[g] = deliveries[g]
  BY <1>1, <1>2, <1>4 DEF HostTypeOK
<1>8. /\ \A i \in DOMAIN deliveries'[f] : i + 1 \in DOMAIN d /\ deliveries'[f][i] = d[i + 1] /\ i \in Nat
      /\ \A j \in DOMAIN d : j > 1 => j - 1 \in DOMAIN deliveries'[f] /\ deliveries'[f][j - 1] = d[j]
  <2>1. DOMAIN Tail(d) = 1..(Len(d) - 1)
    BY <1>4, LenProperties
  <2>2. DOMAIN deliveries'[f] = 1..(Len(d) - 1) /\ DOMAIN d = 1..Len(d) /\ Len(d) \in Nat
    BY <2>1, <1>3, <1>7
  <2>3. \A i \in 1..(Len(d) - 1) : deliveries'[f][i] = d[i + 1]
    BY <1>4, <1>7
  <2> HIDE DEF d
  <2>4. QED
    BY <2>2, <2>3
<1>9. d = deliveries[f] /\ a = app[f]
  OBVIOUS
<1> HIDE DEF d, m, a
<1>10. HostTypeOK'
  BY <1>1, <1>2, <1>6, <1>7 DEF HostTypeOK, shellVars
<1>11. ScopeInv'
  <2> SUFFICES ASSUME NEW g \in Frames
               PROVE  /\ g \in subscribed \/ app'[g].at # "none" => g = shown \/ g \in closing
                      /\ \A i \in DOMAIN deliveries'[g] : deliveries'[g][i].of.scope = FrameScope[g]
    BY <1>1, <1>2 DEF ScopeInv, shellVars
  <2>1. app'[g].at # "none" <=> app[g].at # "none"
    BY <1>5, <1>6, <1>9
  <2>2. \A i \in DOMAIN deliveries'[g] : deliveries'[g][i].of.scope = FrameScope[g]
    <3>1. CASE g = f
      BY <3>1, <1>1, <1>8, <1>9 DEF ScopeInv
    <3>2. CASE g # f
      BY <3>2, <1>1, <1>7 DEF ScopeInv
    <3>3. QED
      BY <3>1, <3>2
  <2>3. QED
    BY <2>1, <2>2, <1>1 DEF ScopeInv
<1>12. PortInv'
  <2>1. \A g \in Frames : PortOf(g)' <=> PortOf(g)
    BY <1>2 DEF PortOf
  <2>2. ASSUME NEW n \in windows'
        PROVE  /\ n.frame \in Frames \ closing' /\ FrameKind[n.frame] = "iframe"
               /\ n.document \in Nat /\ n.document <= document'[n.frame]
               /\ n.type = "connect" /\ n.document = document'[n.frame] => PortOf(n.frame)'
    BY <1>1, <1>2, <2>1 DEF PortInv, shellVars
  <2>3. ASSUME NEW g \in Frames
        PROVE  /\ FrameKind[g] = "iframe" /\ g \in closing' => app'[g].at = "none"
               /\ FrameKind[g] = "iframe" /\ app'[g].at \in {"reading", "connected"} => PortOf(g)'
               /\ app'[g].at = "connected" => g \in subscribed'
               /\ FrameKind[g] = "federation" => requests'[g] = <<>>
               /\ \A i \in DOMAIN deliveries'[g] :
                    deliveries'[g][i].kind \in Asked => FrameKind[g] = "iframe" /\ g \in Capable
    <3>1. CASE g = f
      <4>1. FrameKind[f] = "iframe" /\ f \in closing' => app'[f].at = "none"
        BY <1>1, <1>2, <1>5, <1>6, <1>9 DEF PortInv, shellVars
      <4>2. FrameKind[f] = "iframe" /\ app'[f].at \in {"reading", "connected"} => PortOf(f)'
        BY <1>1, <1>5, <1>6, <1>9, <2>1 DEF PortInv
      <4>3. \A i \in DOMAIN d : d[i].kind \in Asked => FrameKind[f] = "iframe" /\ f \in Capable
        BY <1>1, <1>9 DEF PortInv
      <4>4. app'[f].at = "connected" => f \in subscribed'
        <5>1. CASE a.at = "connected"
          BY <5>1, <1>1, <1>2, <1>9 DEF PortInv
        <5>2. CASE a.at # "connected" /\ next.at = "connected"
          <6>1. a.at = "reading" /\ FrameKind[f] = "iframe" /\ f \in Capable
            BY <5>2, <4>3, <1>4, <1>5
          <6>2. QED
            BY <6>1, <1>1, <1>2, <1>9 DEF PortInv, PortOf
        <5>3. QED
          BY <5>1, <5>2, <1>6
      <4>5. FrameKind[f] = "federation" => requests'[f] = <<>>
        BY <1>1, <1>2 DEF PortInv
      <4>6. \A i \in DOMAIN deliveries'[f] :
              deliveries'[f][i].kind \in Asked => FrameKind[f] = "iframe" /\ f \in Capable
        BY <4>3, <1>8
      <4>7. QED
        BY <3>1, <4>1, <4>2, <4>4, <4>5, <4>6
    <3>2. CASE g # f
      BY <3>2, <1>1, <1>2, <1>6, <1>7, <2>1 DEF PortInv, shellVars
    <3>3. QED
      BY <3>1, <3>2
  <2>4. QED
    BY <2>2, <2>3 DEF PortInv
<1>13. NewsInv'
  <2> SUFFICES ASSUME NEW g \in Frames \ closing' PROVE NewsOf(g)'
    BY DEF NewsInv
  <2>1. /\ NewsOf(g) /\ (Hears(g)' <=> Hears(g)) /\ (g \in subscribed' <=> g \in subscribed)
        /\ UNCHANGED <<due, context>>
    BY <1>1, <1>2 DEF NewsInv, Hears, shellVars
  <2>2. CASE g # f
    BY <2>1, <2>2, <1>6, <1>7, NewsStay
  <2>3. CASE g = f
    <3>1. \A i \in DOMAIN deliveries'[f] : Changed(f, i)' => Changed(f, i + 1)
      BY <1>8, <1>9 DEF Changed
    <3>2. \A j \in DOMAIN d : j > 1 /\ Changed(f, j) => deliveries'[f][j - 1].kind = "locale.changed"
      BY <1>8, <1>9 DEF Changed
    <3>3. \A j, i \in Nat : j > i + 1 => j - 1 > i
      OBVIOUS
    <3>4. ASSUME NEW i \in DOMAIN deliveries'[f], LastChanged(f, i)' PROVE LastChanged(f, i + 1)
      <4>1. Changed(f, i)' /\ \A j \in DOMAIN deliveries'[f] : j > i => ~Changed(f, j)'
        BY <3>4 DEF LastChanged
      <4>2. ASSUME NEW j \in DOMAIN d, j > i + 1, Changed(f, j) PROVE FALSE
        <5>1. PICK k \in DOMAIN deliveries'[f] : k = j - 1 /\ k > i /\ deliveries'[f][k].kind = "locale.changed"
          BY <4>2, <3>2, <1>3, <1>8
        <5>2. Changed(f, k)'
          BY <5>1 DEF Changed
        <5>3. QED
          BY <5>1, <5>2, <4>1
      <4>3. QED
        BY <4>1, <4>2, <3>1, <1>9 DEF LastChanged
    <3>5. \A i \in DOMAIN deliveries'[f] : Changed(f, i)' => f \in subscribed' /\ Hears(f)'
      BY <3>1, <2>1, <2>3, <1>8, <1>9 DEF NewsOf
    <3>6. ASSUME "locale" \notin due', NEW i \in DOMAIN deliveries'[f], LastChanged(f, i)'
          PROVE  deliveries'[f][i].of.locale = context'.locale
      BY <3>4, <3>6, <2>1, <2>3, <1>8, <1>9 DEF NewsOf
    <3>7. ASSUME "locale" \notin due', app'[f].at = "connected", \A i \in DOMAIN deliveries'[f] : ~Changed(f, i)'
          PROVE  app'[f].locale \in {context'.locale, app'[f].read}
      <4>1. \A j \in DOMAIN d : j > 1 => ~Changed(f, j)
        <5> SUFFICES ASSUME NEW j \in DOMAIN d, j > 1, Changed(f, j) PROVE FALSE
          OBVIOUS
        <5>1. PICK k \in DOMAIN deliveries'[f] : deliveries'[f][k].kind = "locale.changed"
          BY <3>2, <1>8
        <5>2. Changed(f, k)'
          BY <5>1 DEF Changed
        <5>3. QED
          BY <5>1, <5>2, <3>7
      <4>2. CASE a.at # "connected"
        BY <4>2, <3>7, <1>5, <1>6
      <4>3. CASE a.at = "connected" /\ m.kind = "locale.changed"
        <5>1. LastChanged(f, 1)
          BY <4>1, <4>3, <1>4, <1>9 DEF LastChanged, Changed
        <5>2. m.of.locale = context.locale
          BY <5>1, <3>7, <2>1, <2>3, <1>4, <1>9 DEF NewsOf
        <5>3. QED
          BY <5>2, <4>3, <2>1, <1>5, <1>6
      <4>4. CASE a.at = "connected" /\ m.kind # "locale.changed"
        <5>1. \A j \in DOMAIN d : ~Changed(f, j)
          BY <4>1, <4>4, <1>3, <1>4, <1>9 DEF Changed
        <5>2. app'[f] = app[f]
          BY <4>4, <1>5, <1>6, <1>9
        <5>3. QED
          BY <5>1, <5>2, <4>4, <3>7, <2>1, <2>3, <1>9 DEF NewsOf
      <4>5. QED
        BY <4>2, <4>3, <4>4
    <3>8. QED
      BY <3>5, <3>6, <3>7, <2>3 DEF NewsOf
  <2>4. QED
    BY <2>2, <2>3
<1>14. QED
  BY <1>10, <1>11, <1>12, <1>13 DEF HostInv

LEMMA HostStep == ASSUME BridgeAssumption, HostInv, [BridgeNext]_bridgeVars PROVE HostInv'
<1>1. ASSUME BridgeNext PROVE HostInv'
  <2>1. CASE ChangeLocale
    BY <2>1, ChangeLocaleKeeps
  <2>2. CASE Leave
    BY <2>2, LeaveKeeps
  <2>3. CASE \E s \in Scopes : ChangeWorkspace(s)
    BY <2>3, ChangeWorkspaceKeeps
  <2>4. CASE \E f \in Frames : Open(f)
    BY <2>4, OpenKeeps
  <2>5. CASE RunEffects
    BY <2>5, RunEffectsKeeps
  <2>6. CASE \E m \in windows : HostHears(m) \/ FrameHears(m)
    BY <2>6, HostHearsKeeps, FrameHearsKeeps
  <2>7. CASE \E f \in Frames : HostAnswers(f) \/ AskHost(f) \/ TimeOut(f) \/ AppHears(f) \/ Reload(f)
    BY <2>7, HostAnswersKeeps, AskHostKeeps, TimeOutKeeps, AppHearsKeeps, ReloadKeeps
  <2>8. CASE \E f \in Frames : ReadLocale(f) \/ MountApplication(f)
    BY <2>8, ReadLocaleKeeps, MountApplicationKeeps
  <2>9. QED
    BY <1>1, <2>1, <2>2, <2>3, <2>4, <2>5, <2>6, <2>7, <2>8 DEF BridgeNext
<1>2. ASSUME UNCHANGED bridgeVars PROVE HostInv'
  BY <1>2 DEF bridgeVars, shellVars, wires, HostInv, HostTypeOK, ScopeInv, PortInv, PortOf, NewsInv,
              NewsOf, Changed, LastChanged, Hears
<1>3. QED
  BY <1>1, <1>2

\* The inductive invariant of host and applications: bindings, listeners and deliveries are of
\* the frame's scope, a port belongs to the document that has it, the last news are the latest.
THEOREM HostInvariant == BridgeSpec => []HostInv
<1>1. BridgeInit => HostInv
  BY BridgeAssumption, HostInitially
<1>2. HostInv /\ [BridgeNext]_bridgeVars => HostInv'
  BY BridgeAssumption, HostStep
<1>3. QED
  BY <1>1, <1>2, PTL DEF BridgeSpec

\* Whatever sequence of renders, effects and messages: an application is told of its own user
\* and workspace only, and once everything has arrived a connected application shows the
\* locale of the shell or the one it read first (hostApi.ts, IframeRuntime.tsx, eventBus.ts,
\* AppRuntimePage.tsx).
THEOREM HostAlwaysTellsTheTruth == BridgeSpec => []HostTellsTheTruth
<1>1. HostInv => HostTellsTheTruth
  <2> SUFFICES ASSUME HostInv PROVE HostTellsTheTruth
    OBVIOUS
  <2>1. ToldOfItsScope
    BY DEF HostInv, ScopeInv, ToldOfItsScope
  <2>2. ASSUME NEW f \in Frames, app[f].at = "connected", Quiet(f)
        PROVE  app[f].locale \in {context.locale, app[f].read}
    <3>1. NewsOf(f) /\ due = {} /\ deliveries[f] = <<>>
      BY <2>2 DEF HostInv, NewsInv, Quiet, EffectsHaveRun
    <3>2. QED
      BY <3>1, <2>2 DEF NewsOf
  <2>3. QED
    BY <2>1, <2>2 DEF HostTellsTheTruth, OnlyTheFirstReadingIsStale
<1>2. QED
  BY <1>1, HostInvariant, PTL

-----------------------------------------------------------------------------
\* The Host API does nothing that the release has not declared, whatever is asked.
LEMMA HostApiNeedsCapability ==
  ASSUME NEW capabilities, NEW r, HostApi(capabilities, r).does \in Effects
  PROVE  Needed[HostApi(capabilities, r).does] \in capabilities
BY DEF HostApi, Broker, WithCapability, Refused, Does, Effects, Needed

\* On the port a request is refused, or handed to the Host API.
LEMMA PortHandsOn ==
  ASSUME NEW capabilities, NEW r
  PROVE  \/ Dispatch(capabilities, r).does = "nothing"
         \/ /\ Dispatch(capabilities, r) = HostApi(capabilities, r)
            /\ PortRefusal(r) = "none"
BY DEF Dispatch, Refused

\* Nothing is done for an application that its release has not declared.
THEOREM UndeclaredIsNeverDone == NothingUndeclared
<1> SUFFICES ASSUME NEW capabilities \in SUBSET Capabilities, NEW r \in Requests,
                    NEW what \in {HostApi(capabilities, r).does, Dispatch(capabilities, r).does},
                    what \in Effects
             PROVE  Needed[what] \in capabilities
  BY DEF NothingUndeclared
<1>1. "nothing" \notin Effects
  BY DEF Effects, Needed
<1>2. QED
  BY <1>1, HostApiNeedsCapability, PortHandsOn

\* An iframe gets from the Host API what an application in the page gets, or less.
THEOREM PortsOnlyRefuse == PortOnlyRefuses
BY PortHandsOn DEF PortOnlyRefuses

\* An iframe navigates inside the shell, shows no long message, asks for no other channel.
THEOREM ShellKeepsToItsOwn == OnlyWhatTheShellHas
<1> SUFFICES ASSUME NEW capabilities \in SUBSET Capabilities, NEW r \in Requests
             PROVE  LET done == Dispatch(capabilities, r).does
                    IN  /\ done = "navigate" => r.to = "inside"
                        /\ done = "notify" => r.message = "short" /\ r.level # "unknown"
                        /\ done = "catalog" => (r.payload => r.channel # "unknown")
  BY DEF OnlyWhatTheShellHas
<1>1. CASE Dispatch(capabilities, r).does = "nothing"
  BY <1>1
<1>2. CASE Dispatch(capabilities, r) = HostApi(capabilities, r) /\ PortRefusal(r) = "none"
  <2>1. HostApi(capabilities, r).does = "navigate" => r.to = "inside"
    BY DEF HostApi, Broker, WithCapability, Refused, Does, InternalRoute
  <2>2. HostApi(capabilities, r).does \in {"notify", "catalog"} =>
          /\ r.method = "broker.request"
          /\ HostApi(capabilities, r).does = "notify" =>
               r.operation = "notifications.show" /\ r.message = "short"
          /\ HostApi(capabilities, r).does = "catalog" => r.operation = "catalog.list"
    BY DEF HostApi, Broker, WithCapability, Refused, Does, ShowableMessage
  <2>3. r.method = "broker.request" =>
          /\ r.operation = "notifications.show" => r.level # "unknown"
          /\ r.operation = "catalog.list" => (r.payload => r.channel # "unknown")
    BY <1>2 DEF PortRefusal, BrokerRefusal
  <2>4. QED
    BY <1>2, <2>1, <2>2, <2>3
<1>3. QED
  BY <1>1, <1>2, PortHandsOn

\* What the host promises of its requests holds for every application and every request.
THEOREM HostApiIsOne == HostApiProperties
BY UndeclaredIsNeverDone, PortsOnlyRefuse, ShellKeepsToItsOwn DEF HostApiProperties

-----------------------------------------------------------------------------
(***************************************************************************)
(* The locale of the desktop application (LocaleSync).                     *)
(***************************************************************************)
Transition == [generation : Nat, choice : Preferences, persist : BOOLEAN, locale : Languages]
Run == [at : {"none", "calling", "waiting", "ended"}, locale : Languages, attempt : 0..SyncAttempts]
Due == IF effectDue THEN 1 ELSE 0

(* The queue: numbered up to the latest, which alone is committed; a transition of the   *)
(* system's language was queued while the application followed the system.               *)
QueueInv ==
  /\ Len(transitions) <= generation
  /\ \A i \in 1..Len(transitions) :
       /\ transitions[i].generation = (generation - Len(transitions)) + i
       /\ transitions[i].choice # "system" => transitions[i].locale = transitions[i].choice
       /\ ~transitions[i].persist => transitions[i].choice = "system" /\ preference = "system"
  /\ transitions = <<>> => catalog = snapshot
  /\ stored = preference
  /\ preference # "system" => snapshot = preference

(* Calls: the runs that call, in their order; the last run is of the snapshot shown.     *)
CallInv ==
  /\ syncs + Due + Len(transitions) <= choices + 1
  /\ choices \in 0..MaxChoices
  /\ \A i \in 1..Len(calls) : calls[i] \in 1..syncs /\ sync[calls[i]].at = "calling"
  /\ \A i, j \in 1..Len(calls) : i < j => calls[i] < calls[j]
  /\ badge = "synced" => calls = <<>> /\ syncs >= 1 /\ sync[syncs].at = "ended"
  /\ badge = "synced" => agentLocale = sync[syncs].locale \/ overtaken
  /\ ~effectDue => syncs >= 1 /\ sync[syncs].locale = snapshot
  /\ \A m \in 1..MaxSyncs : sync[m].at = "waiting" => sync[m].attempt < SyncAttempts

LocaleInv == LocaleTypeOK /\ QueueInv /\ CallInv

\* The operator of the code: who queues a transition keeps the queue numbered.
LEMMA ApplyKeepsQueue ==
  ASSUME LocaleTypeOK, QueueInv, NEW choice \in Preferences, NEW language \in Languages,
         NEW persist \in BOOLEAN, ApplyPreference(choice, language, persist),
         ~persist => choice = "system" /\ preference = "system",
         UNCHANGED shownLocale
  PROVE  /\ QueueInv'
         /\ transitions' \in Seq(Transition) /\ generation' \in Nat
         /\ Len(transitions') = Len(transitions) + 1
<1> DEFINE new == [generation |-> generation + 1, choice |-> choice, persist |-> persist,
                   locale |-> Snapshot(choice, language)]
<1>1. transitions \in Seq(Transition) /\ generation \in Nat
  BY DEF LocaleTypeOK, Transition
<1>2. new \in Transition
  BY <1>1 DEF Transition, Snapshot, Preferences
<1>3. transitions' = Append(transitions, new) /\ generation' = generation + 1
  BY DEF ApplyPreference
<1>4. /\ transitions' \in Seq(Transition) /\ Len(transitions') = Len(transitions) + 1
      /\ transitions' # <<>>
      /\ \A i \in 1..Len(transitions) : transitions'[i] = transitions[i]
      /\ transitions'[Len(transitions) + 1] = new
  BY <1>1, <1>2, <1>3, AppendProperties
<1>5. QueueInv'
  <2>1. Len(transitions) \in Nat
    BY <1>1, LenProperties
  <2>2. ASSUME NEW i \in 1..Len(transitions')
        PROVE  /\ transitions'[i].generation = (generation' - Len(transitions')) + i
               /\ transitions'[i].choice # "system" => transitions'[i].locale = transitions'[i].choice
               /\ ~transitions'[i].persist => transitions'[i].choice = "system" /\ preference' = "system"
    <3>1. CASE i \in 1..Len(transitions)
      <4>1. transitions'[i] = transitions[i] /\ preference' = preference
        BY <3>1, <1>4 DEF shownLocale
      <4>2. generation' - Len(transitions') = generation - Len(transitions)
        BY <1>1, <1>3, <1>4, <2>1
      <4>3. QED
        BY <3>1, <4>1, <4>2, Zenon DEF QueueInv
    <3>2. CASE i = Len(transitions) + 1
      <4>1. transitions'[i] = new /\ preference' = preference
        BY <3>2, <1>4 DEF shownLocale
      <4>2. (generation' - Len(transitions')) + i = generation + 1
        BY <3>2, <1>1, <1>3, <1>4, <2>1
      <4>3. choice # "system" => Snapshot(choice, language) = choice
        BY DEF Snapshot
      <4>4. new.generation = generation + 1 /\ new.choice = choice /\ new.persist = persist
            /\ new.locale = Snapshot(choice, language)
        OBVIOUS
      <4>5. QED
        BY <4>1, <4>2, <4>3, <4>4, Zenon
    <3>3. QED
      BY <3>1, <3>2, <1>4, <2>1
  <2>3. QED
    BY <2>1, <2>2, <1>1, <1>3, <1>4 DEF QueueInv, shownLocale
<1>6. QED
  BY <1>1, <1>3, <1>4, <1>5

\* The queue without its first transition (createLocaleTransitionQueue).
LEMMA WithoutTheFirst ==
  ASSUME NEW S, NEW queue \in Seq(S), Len(queue) > 0
  PROVE  /\ Without(queue, 1) \in Seq(S)
         /\ Len(Without(queue, 1)) = Len(queue) - 1
         /\ \A i \in 1..(Len(queue) - 1) : Without(queue, 1)[i] = queue[i + 1]
<1>1. SubSeq(queue, 1, 0) = <<>>
  BY SubSeqEmpty
<1>2. queue # <<>> /\ Len(queue) \in Nat
  BY LenProperties
<1>3. SubSeq(queue, 2, Len(queue)) = Tail(queue)
  BY <1>2, TailIsSubSeq
<1>4. Without(queue, 1) = Tail(queue)
  BY <1>1, <1>2, <1>3, HeadTailProperties, ConcatEmptySeq DEF Without
<1>5. QED
  BY <1>2, <1>4, HeadTailProperties

LEMMA LocaleInitially == ASSUME LocaleAssumption, LocaleInit PROVE LocaleInv
<1>1. system \in Languages
  BY DEF LocaleInit
<1>2. LocaleTypeOK
  <2>1. /\ {system, snapshot, catalog, agentLocale} \subseteq Languages
        /\ {stored, preference} \subseteq Preferences
        /\ generation \in Nat /\ effectDue \in BOOLEAN
        /\ badge \in {"syncing", "synced", "error"}
        /\ astray \subseteq Languages /\ overtaken \in BOOLEAN
    BY <1>1 DEF LocaleAssumption, LocaleInit, Preferences
  <2>2. transitions \in Seq(Transition) /\ calls \in Seq(1..MaxSyncs)
    BY EmptySeq DEF LocaleInit
  <2>3. NoSync \in Run
    BY DEF LocaleAssumption, NoSync, Run
  <2>4. sync \in [1..MaxSyncs -> Run] /\ syncs \in 0..MaxSyncs
    BY <2>3 DEF LocaleInit, LocaleAssumption, MaxSyncs
  <2>5. QED
    BY <2>1, <2>2, <2>4 DEF LocaleTypeOK, Transition, Run
<1>3. QueueInv
  BY DEF LocaleInit, QueueInv
<1>4. CallInv
  BY DEF LocaleAssumption, LocaleInit, CallInv, Due, NoSync
<1>5. QED
  BY <1>2, <1>3, <1>4 DEF LocaleInv

LEMMA ChooseKeeps ==
  ASSUME LocaleAssumption, LocaleInv, NEW choice \in Preferences, Choose(choice)
  PROVE  LocaleInv'
<1>1. /\ ApplyPreference(choice, system, TRUE) /\ choices < MaxChoices /\ choices' = choices + 1
      /\ UNCHANGED <<system, shownLocale, syncing, agentState, failures, restarts>>
  BY DEF Choose
<1>2. LocaleTypeOK /\ QueueInv /\ CallInv /\ system \in Languages
  BY DEF LocaleInv, LocaleTypeOK
<1>3. QueueInv' /\ transitions' \in Seq(Transition) /\ generation' \in Nat
      /\ Len(transitions') = Len(transitions) + 1
  BY <1>1, <1>2, ApplyKeepsQueue
<1>4. LocaleTypeOK'
  BY <1>1, <1>2, <1>3 DEF LocaleTypeOK, shownLocale, syncing, agentState, Transition
<1>5. CallInv'
  BY <1>1, <1>2, <1>3 DEF CallInv, shownLocale, syncing, agentState, Due, LocaleAssumption, LocaleTypeOK
<1>6. QED
  BY <1>3, <1>4, <1>5 DEF LocaleInv

LEMMA ChangeSystemKeeps ==
  ASSUME LocaleAssumption, LocaleInv, NEW language \in Languages, ChangeSystem(language)
  PROVE  LocaleInv'
<1>1. /\ choices < MaxChoices /\ choices' = choices + 1 /\ system' = language
      /\ UNCHANGED <<shownLocale, syncing, agentState, failures, restarts>>
  BY DEF ChangeSystem
<1>2. LocaleTypeOK /\ QueueInv /\ CallInv /\ "system" \in Preferences
  BY DEF LocaleInv, Preferences
<1>3. QueueInv' /\ transitions' \in Seq(Transition) /\ generation' \in Nat
      /\ Len(transitions') <= Len(transitions) + 1
  <2>1. CASE preference = "system"
    <3>1. ApplyPreference("system", language, FALSE) /\ UNCHANGED shownLocale
      BY <2>1, <1>1 DEF ChangeSystem
    <3>2. QED
      <4>1. ~FALSE => "system" = "system" /\ preference = "system"
        BY <2>1
      <4>2. /\ QueueInv' /\ transitions' \in Seq(Transition) /\ generation' \in Nat
            /\ Len(transitions') = Len(transitions) + 1
        BY <3>1, <4>1, <1>2, ApplyKeepsQueue, FALSE \in BOOLEAN, Zenon
      <4>3. QED
        BY <4>2, <1>2, LenProperties DEF LocaleTypeOK, Transition
  <2>2. CASE preference # "system"
    BY <2>2, <1>1, <1>2 DEF ChangeSystem, queued, shownLocale, QueueInv, LocaleTypeOK, Transition
  <2>3. QED
    BY <2>1, <2>2
<1>4. LocaleTypeOK'
  BY <1>1, <1>2, <1>3 DEF LocaleTypeOK, shownLocale, syncing, agentState, Transition
<1>5. CallInv'
  BY SMTT(45), <1>1, <1>2, <1>3, LenProperties DEF CallInv, shownLocale, syncing, agentState, Due,
     LocaleAssumption, LocaleTypeOK
<1>6. QED
  BY <1>3, <1>4, <1>5 DEF LocaleInv

\* The head of the queue is the only one whose catalog may change.
LEMMA EndTransitionKeeps ==
  ASSUME LocaleAssumption, LocaleInv, NEW i \in DOMAIN transitions, EndTransition(i)
  PROVE  LocaleInv'
<1>1. LocaleTypeOK /\ QueueInv /\ CallInv
  BY DEF LocaleInv
<1>2. transitions \in Seq(Transition) /\ Len(transitions) \in Nat /\ DOMAIN transitions = 1..Len(transitions)
      /\ generation \in Nat
  BY <1>1, LenProperties DEF LocaleTypeOK, Transition
<1>3. i = 1 /\ Len(transitions) > 0
  BY SMTT(45), <1>2 DEF EndTransition, Changeable
<1>4. /\ transitions' \in Seq(Transition) /\ Len(transitions') = Len(transitions) - 1
      /\ \A j \in 1..(Len(transitions) - 1) : transitions'[j] = transitions[j + 1]
  BY <1>2, <1>3, WithoutTheFirst DEF EndTransition
<1>5. /\ transitions[1] \in Transition
      /\ transitions[1].generation = (generation - Len(transitions)) + 1
      /\ transitions[1].choice # "system" => transitions[1].locale = transitions[1].choice
  BY <1>1, <1>2, <1>3, ElementOfSeq DEF QueueInv
<1>6. /\ catalog' = transitions[1].locale
      /\ UNCHANGED <<system, generation, sync, syncs, calls, badge, agentState, counted>>
  BY <1>3 DEF EndTransition
<1>7. CASE Len(transitions) = 1
  <2>1. /\ stored' = (IF transitions[1].persist THEN transitions[1].choice ELSE stored)
        /\ preference' = transitions[1].choice
        /\ snapshot' = transitions[1].locale
        /\ effectDue' = TRUE
    BY <1>2, <1>3, <1>5, <1>7 DEF EndTransition
  <2>2. transitions[1].choice \in Preferences /\ transitions[1].locale \in Languages
    BY <1>5 DEF Transition
  <2>3. ~transitions[1].persist => transitions[1].choice = "system" /\ preference = "system"
    BY <1>1, <1>3, <1>7, 1 \in 1..1, Zenon DEF QueueInv
  <2>4. stored' = preference' /\ stored' \in Preferences
    <3>1. CASE transitions[1].persist
      BY <3>1, <2>1, <2>2, Zenon
    <3>2. CASE ~transitions[1].persist
      BY <3>2, <2>1, <2>2, <2>3, <1>1, Zenon DEF QueueInv
    <3>3. QED
      BY <3>1, <3>2
  <2>5. Len(transitions') = 0
    BY <1>4, <1>7
  <2>6. QueueInv'
    BY <2>1, <2>4, <2>5, <1>1, <1>2, <1>5, <1>6 DEF QueueInv
  <2>7. LocaleTypeOK'
    BY <2>1, <2>2, <2>4, <1>1, <1>4, <1>6 DEF LocaleTypeOK, agentState, Transition
  <2>8. CallInv'
    <3>1. Due \in {0, 1} /\ Due' = 1 /\ syncs \in Nat
      BY <2>1, <1>1 DEF Due, LocaleTypeOK
    <3>2. syncs' + Due' + Len(transitions') <= choices' + 1 /\ choices' \in 0..MaxChoices
      BY <3>1, <2>5, <1>1, <1>6, <1>7 DEF CallInv, counted, LocaleAssumption
    <3>3. QED
      BY <3>2, <2>1, <1>1, <1>6 DEF CallInv, agentState
  <2>9. QED
    BY <2>6, <2>7, <2>8 DEF LocaleInv
<1>8. CASE Len(transitions) # 1
  <2>1. UNCHANGED <<stored, preference, snapshot, effectDue>>
    BY <1>2, <1>3, <1>5, <1>8 DEF EndTransition
  <2>2. Len(transitions') > 0
    BY <1>2, <1>3, <1>4, <1>8
  <2>3. ASSUME NEW j \in 1..Len(transitions')
        PROVE  /\ transitions'[j].generation = (generation' - Len(transitions')) + j
               /\ transitions'[j].choice # "system" => transitions'[j].locale = transitions'[j].choice
               /\ ~transitions'[j].persist => transitions'[j].choice = "system" /\ preference' = "system"
    <3>1. transitions'[j] = transitions[j + 1] /\ j + 1 \in 1..Len(transitions) /\ preference' = preference
      BY <1>2, <1>4, <2>1
    <3>2. (generation' - Len(transitions')) + j = (generation - Len(transitions)) + (j + 1)
      BY <1>2, <1>4, <1>6
    <3>3. QED
      BY <3>1, <3>2, <1>1, Zenon DEF QueueInv
  <2>4. QueueInv'
    <3>1. Len(transitions') <= generation' /\ transitions' # <<>> /\ stored' = preference'
          /\ (preference' # "system" => snapshot' = preference')
      BY <2>1, <2>2, <1>1, <1>2, <1>4, <1>6 DEF QueueInv
    <3>2. QED
      BY <3>1, <2>3, Zenon DEF QueueInv
  <2>5. LocaleTypeOK'
    BY SMTT(45), <2>1, <1>1, <1>4, <1>5, <1>6 DEF LocaleTypeOK, agentState, Transition
  <2>6. CallInv'
    BY SMTT(45), <2>1, <1>1, <1>2, <1>4, <1>6 DEF CallInv, agentState, counted, Due, LocaleTypeOK
  <2>7. QED
    BY <2>4, <2>5, <2>6 DEF LocaleInv
<1>9. QED
  BY <1>7, <1>8

\* A run of the effect is added to the calls (the effect of LocaleProvider).
LEMMA RunSyncEffectKeeps ==
  ASSUME LocaleAssumption, LocaleInv, RunSyncEffect
  PROVE  LocaleInv'
<1> DEFINE run == [at |-> "calling", locale |-> snapshot, attempt |-> 1]
<1>1. LocaleTypeOK /\ QueueInv /\ CallInv
  BY DEF LocaleInv
<1>2. /\ effectDue /\ effectDue' = FALSE /\ syncs' = syncs + 1
      /\ sync' = [sync EXCEPT ![syncs + 1] = run]
      /\ calls' = Append(calls, syncs + 1) /\ badge' = "syncing"
      /\ UNCHANGED <<system, shownLocale, queued, agentState, counted>>
  BY DEF RunSyncEffect
<1>3. syncs \in Nat /\ syncs + 1 \in 1..MaxSyncs /\ Len(calls) \in Nat /\ calls \in Seq(1..MaxSyncs)
  <2>1. transitions \in Seq(Transition) /\ calls \in Seq(1..MaxSyncs)
    BY <1>1 DEF LocaleTypeOK, Transition
  <2>2. Len(transitions) \in Nat /\ Len(calls) \in Nat
    BY <2>1, LenProperties
  <2>3. Due = 1
    BY <1>2 DEF Due
  <2>4. QED
    BY <1>1, <2>1, <2>2, <2>3 DEF CallInv, LocaleTypeOK, MaxSyncs, LocaleAssumption
<1>4. run \in Run /\ sync \in [1..MaxSyncs -> Run]
  BY <1>1 DEF Run, LocaleTypeOK, LocaleAssumption
<1>5. /\ sync' \in [1..MaxSyncs -> Run]
      /\ sync'[syncs + 1] = run
      /\ \A n \in 1..syncs : sync'[n] = sync[n]
  BY <1>2, <1>3, <1>4
<1>6. /\ calls' \in Seq(1..MaxSyncs) /\ Len(calls') = Len(calls) + 1
      /\ \A k \in 1..Len(calls) : calls'[k] = calls[k]
      /\ calls'[Len(calls) + 1] = syncs + 1
  BY <1>2, <1>3, AppendProperties
<1>7. QueueInv'
  BY <1>1, <1>2 DEF QueueInv, shownLocale, queued
<1>8. LocaleTypeOK'
  <2>1. syncs' \in 0..MaxSyncs
    BY <1>2, <1>3
  <2>2. /\ transitions' \in Seq(Transition) /\ generation' \in Nat
        /\ {system', snapshot', catalog', agentLocale'} \subseteq Languages
        /\ {stored', preference'} \subseteq Preferences
        /\ astray' \subseteq Languages /\ overtaken' \in BOOLEAN
    BY <1>1, <1>2 DEF LocaleTypeOK, shownLocale, queued, agentState, Transition
  <2>3. effectDue' \in BOOLEAN /\ badge' \in {"syncing", "synced", "error"}
    BY <1>2
  <2>4. QED
    BY <1>5, <1>6, <2>1, <2>2, <2>3 DEF LocaleTypeOK, Transition, Run
<1>9. CallInv'
  <2>1. syncs' + Due' + Len(transitions') <= choices' + 1 /\ choices' \in 0..MaxChoices
    <3>1. Due = 1 /\ Due' = 0 /\ transitions' = transitions /\ choices' = choices
      BY <1>2 DEF Due, queued, counted
    <3>2. Len(transitions) \in Nat
      BY <1>1, LenProperties DEF LocaleTypeOK
    <3>3. QED
      BY <1>1, <1>2, <1>3, <3>1, <3>2 DEF CallInv
  <2>2. \A k \in 1..Len(calls) : calls[k] \in 1..syncs /\ sync[calls[k]].at = "calling"
    BY <1>1 DEF CallInv
  <2>3. ASSUME NEW k \in 1..Len(calls')
        PROVE  calls'[k] \in 1..syncs' /\ sync'[calls'[k]].at = "calling"
    <3>1. CASE k \in 1..Len(calls)
      BY <3>1, <2>2, <1>2, <1>3, <1>5, <1>6
    <3>2. CASE k = Len(calls) + 1
      BY <3>2, <1>2, <1>3, <1>5, <1>6
    <3>3. QED
      BY <3>1, <3>2, <1>3, <1>6
  <2>4. \A k, l \in 1..Len(calls') : k < l => calls'[k] < calls'[l]
    <3>1. \A k, l \in 1..Len(calls) : k < l => calls[k] < calls[l]
      BY <1>1 DEF CallInv
    <3>2. ASSUME NEW k \in 1..Len(calls'), NEW l \in 1..Len(calls'), k < l
          PROVE  calls'[k] < calls'[l]
      <4>1. k \in 1..Len(calls) /\ calls'[k] = calls[k] /\ calls[k] \in 1..syncs
        BY <3>2, <2>2, <1>3, <1>6
      <4>2. CASE l \in 1..Len(calls)
        <5>1. calls'[l] = calls[l] /\ calls[k] < calls[l]
          BY <3>1, <3>2, <4>1, <4>2, <1>6
        <5>2. QED
          BY <4>1, <5>1
      <4>3. CASE l = Len(calls) + 1
        <5>1. calls'[l] = syncs + 1 /\ calls[k] < syncs + 1
          BY <4>1, <4>3, <1>3, <1>6
        <5>2. QED
          BY <4>1, <5>1
      <4>4. l \in 1..Len(calls) \/ l = Len(calls) + 1
        BY <3>2, <1>3, <1>6
      <4>5. QED
        BY <4>2, <4>3, <4>4
    <3>3. QED
      BY <3>2
  <2>5. syncs' >= 1 /\ sync'[syncs'].locale = snapshot' /\ badge' # "synced"
    BY <1>2, <1>3, <1>5 DEF shownLocale
  <2>6. \A m \in 1..MaxSyncs : sync'[m].at = "waiting" => sync'[m].attempt < SyncAttempts
    BY <1>1, <1>2, <1>3, <1>4, <1>5 DEF CallInv
  <2>7. QED
    BY <2>1, <2>3, <2>4, <2>5, <2>6 DEF CallInv
<1>10. QED
  BY <1>7, <1>8, <1>9 DEF LocaleInv

\* retryAgentLocaleSync asks for another run.
LEMMA RetrySyncKeeps ==
  ASSUME LocaleAssumption, LocaleInv, RetrySync
  PROVE  LocaleInv'
<1>1. LocaleTypeOK /\ QueueInv /\ CallInv
  BY DEF LocaleInv
<1>2. LocaleTypeOK'
  BY <1>1 DEF RetrySync, LocaleTypeOK, shownLocale, queued, agentState
<1>3. QueueInv'
  BY <1>1 DEF RetrySync, QueueInv, shownLocale, queued
<1>4. CallInv'
  <2>1. Due = 0 /\ Due' = 1 /\ syncs \in Nat /\ Len(transitions) \in Nat
    BY <1>1, LenProperties DEF RetrySync, Due, LocaleTypeOK
  <2>2. QED
    BY <1>1, <2>1 DEF RetrySync, CallInv, shownLocale, queued, agentState, LocaleAssumption
<1>5. QED
  BY <1>2, <1>3, <1>4 DEF LocaleInv

\* The calls are in the order of their runs: without the first they still are, and when
\* the first is the last run's it was the only one (localeSyncQueue).
LEMMA FirstCall ==
  ASSUME LocaleTypeOK, CallInv, calls # <<>>
  PROVE  /\ Head(calls) \in 1..syncs /\ Head(calls) \in 1..MaxSyncs
         /\ sync[Head(calls)].at = "calling"
         /\ Tail(calls) \in Seq(1..MaxSyncs)
         /\ \A k \in 1..Len(Tail(calls)) :
              /\ Tail(calls)[k] \in 1..syncs /\ sync[Tail(calls)[k]].at = "calling"
              /\ Head(calls) < Tail(calls)[k]
         /\ \A k, l \in 1..Len(Tail(calls)) : k < l => Tail(calls)[k] < Tail(calls)[l]
         /\ Head(calls) = syncs => Tail(calls) = <<>>
<1>1. calls \in Seq(1..MaxSyncs) /\ syncs \in Nat /\ syncs <= MaxSyncs
  BY DEF LocaleTypeOK
<1>2. /\ Len(calls) \in Nat /\ Len(calls) > 0 /\ Head(calls) = calls[1] /\ Head(calls) \in 1..MaxSyncs
      /\ Tail(calls) \in Seq(1..MaxSyncs) /\ Len(Tail(calls)) = Len(calls) - 1
      /\ \A k \in 1..Len(Tail(calls)) : Tail(calls)[k] = calls[k + 1]
  <2>1. calls # <<>> /\ Len(calls) \in Nat /\ Len(calls) > 0
    BY <1>1, LenProperties, EmptySeq
  <2>2. Head(calls) = calls[1]
    BY <1>1, <2>1
  <2>3. /\ Head(calls) \in 1..MaxSyncs
        /\ Tail(calls) \in Seq(1..MaxSyncs) /\ Len(Tail(calls)) = Len(calls) - 1
        /\ \A k \in 1..Len(Tail(calls)) : Tail(calls)[k] = calls[k + 1]
    BY <1>1, <2>1, HeadTailProperties, Zenon
  <2>4. QED
    BY <2>1, <2>2, <2>3
<1>3. \A k \in 1..Len(calls) : calls[k] \in 1..syncs /\ sync[calls[k]].at = "calling"
  BY DEF CallInv
<1>4. \A k, l \in 1..Len(calls) : k < l => calls[k] < calls[l]
  BY DEF CallInv
<1>5. calls[1] \in 1..syncs /\ sync[calls[1]].at = "calling"
  BY <1>2, <1>3
<1>6. ASSUME NEW k \in 1..Len(Tail(calls))
      PROVE  /\ Tail(calls)[k] \in 1..syncs /\ sync[Tail(calls)[k]].at = "calling"
             /\ Head(calls) < Tail(calls)[k]
  BY <1>2, <1>3, <1>4
<1>7. \A k, l \in 1..Len(Tail(calls)) : k < l => Tail(calls)[k] < Tail(calls)[l]
  BY <1>2, <1>4
<1>8. Head(calls) = syncs => Len(Tail(calls)) = 0
  <2>1. ASSUME Head(calls) = syncs, Len(Tail(calls)) # 0 PROVE FALSE
    <3>1. 1 \in 1..Len(Tail(calls))
      BY <2>1, <1>2
    <3>2. QED
      BY <3>1, <2>1, <1>1, <1>6
  <2>2. QED
    BY <2>1
<1>9. QED
  <2>1. Head(calls) = syncs => Tail(calls) = <<>>
    BY <1>2, <1>8, EmptySeq
  <2>2. Head(calls) \in 1..MaxSyncs
    BY <1>2
  <2>3. QED
    BY <1>2, <1>5, <1>6, <1>7, <2>1, <2>2, Zenon

\* What the end of the first call needs of the runs and the badge to keep the invariant.
LEMMA CallEnds ==
  ASSUME LocaleAssumption, LocaleTypeOK, QueueInv, CallInv, calls # <<>>,
         calls' = Tail(calls),
         NEW at \in {"ended", "waiting"}, sync' = [sync EXCEPT ![Head(calls)].at = at],
         UNCHANGED <<system, shownLocale, queued, effectDue, syncs, choices>>,
         agentLocale' \in Languages, overtaken' \in BOOLEAN, astray' \subseteq Languages,
         at = "waiting" => sync[Head(calls)].attempt < SyncAttempts,
         badge' \in {badge, "error", "synced"},
         badge' = badge => badge # "synced",
         badge' = "synced" => /\ Head(calls) = syncs /\ at = "ended"
                              /\ agentLocale' = sync[syncs].locale
  PROVE  LocaleTypeOK' /\ QueueInv' /\ CallInv'
<1> DEFINE n == Head(calls)
<1>1. /\ n \in 1..syncs /\ n \in 1..MaxSyncs /\ sync[n].at = "calling"
      /\ Tail(calls) \in Seq(1..MaxSyncs)
      /\ \A k \in 1..Len(Tail(calls)) : /\ Tail(calls)[k] \in 1..syncs
                                        /\ sync[Tail(calls)[k]].at = "calling"
                                        /\ n < Tail(calls)[k]
      /\ \A k, l \in 1..Len(Tail(calls)) : k < l => Tail(calls)[k] < Tail(calls)[l]
      /\ n = syncs => Tail(calls) = <<>>
  BY FirstCall
<1>2. sync \in [1..MaxSyncs -> Run] /\ syncs \in Nat /\ syncs <= MaxSyncs /\ badge \in {"syncing", "synced", "error"}
  BY DEF LocaleTypeOK, Run
<1>3. /\ sync' \in [1..MaxSyncs -> Run]
      /\ \A m \in 1..MaxSyncs : sync'[m].locale = sync[m].locale
      /\ \A m \in 1..MaxSyncs : m # n => sync'[m] = sync[m]
      /\ sync'[n].at = at /\ sync'[n].attempt = sync[n].attempt
  BY <1>1, <1>2 DEF Run
<1>4. QueueInv'
  BY DEF QueueInv, shownLocale, queued
<1>5. LocaleTypeOK'
  BY <1>1, <1>2, <1>3 DEF LocaleTypeOK, shownLocale, queued, Run
<1>6. CallInv'
  <2>1. syncs' + Due' + Len(transitions') <= choices' + 1 /\ choices' \in 0..MaxChoices
    BY DEF CallInv, Due, queued
  <2>2. \A k \in 1..Len(calls') : calls'[k] \in 1..syncs' /\ sync'[calls'[k]].at = "calling"
    BY <1>1, <1>2, <1>3
  <2>3. \A k, l \in 1..Len(calls') : k < l => calls'[k] < calls'[l]
    BY <1>1
  <2>4. badge' = "synced" => calls' = <<>> /\ syncs' >= 1 /\ sync'[syncs'].at = "ended"
    BY <1>1, <1>2, <1>3
  <2>5. badge' = "synced" => agentLocale' = sync'[syncs'].locale \/ overtaken'
    BY <1>1, <1>2, <1>3
  <2>6. ~effectDue' => syncs' >= 1 /\ sync'[syncs'].locale = snapshot'
    BY <1>2, <1>3 DEF CallInv, shownLocale
  <2>7. \A m \in 1..MaxSyncs : sync'[m].at = "waiting" => sync'[m].attempt < SyncAttempts
    BY <1>1, <1>2, <1>3 DEF CallInv
  <2>8. QED
    BY <2>1, <2>2, <2>3, <2>4, <2>5, <2>6, <2>7 DEF CallInv
<1>7. QED
  BY <1>4, <1>5, <1>6

\* The Agent answers the call of the first run; it says so if that is the last run.
LEMMA CallSucceedsKeeps ==
  ASSUME LocaleAssumption, LocaleInv, CallSucceeds
  PROVE  LocaleInv'
<1>1. LocaleTypeOK /\ QueueInv /\ CallInv /\ calls # <<>>
  BY DEF LocaleInv, CallSucceeds
<1>2. sync[Head(calls)].locale \in Languages /\ badge # "synced"
  BY <1>1, FirstCall DEF LocaleTypeOK, CallInv
<1>3. /\ calls' = Tail(calls) /\ sync' = [sync EXCEPT ![Head(calls)].at = "ended"]
      /\ agentLocale' = sync[Head(calls)].locale /\ overtaken' = FALSE /\ astray' = astray
      /\ badge' = IF Head(calls) = syncs THEN "synced" ELSE badge
      /\ UNCHANGED <<system, shownLocale, queued, effectDue, syncs, counted>>
  BY DEF CallSucceeds, EndSync, IsCurrent
<1>4. choices' = choices /\ astray \subseteq Languages
  BY <1>1, <1>3 DEF counted, LocaleTypeOK
<1>5. LocaleTypeOK' /\ QueueInv' /\ CallInv'
  BY <1>1, <1>2, <1>3, <1>4, CallEnds
<1>6. QED
  BY <1>5 DEF LocaleInv

\* A call that fails ends its run or makes it wait, and may reach the Agent all the same.
LEMMA CallFailsKeeps ==
  ASSUME LocaleAssumption, LocaleInv, CallFails
  PROVE  LocaleInv'
<1>1. LocaleTypeOK /\ QueueInv /\ CallInv /\ calls # <<>>
  BY DEF LocaleInv, CallFails
<1>2. sync[Head(calls)].locale \in Languages /\ badge # "synced"
  BY <1>1, FirstCall DEF LocaleTypeOK, CallInv
<1>3. /\ calls' = Tail(calls)
      /\ UNCHANGED <<system, shownLocale, queued, effectDue, syncs, choices>>
  BY DEF CallFails
<1>4. agentLocale' \in Languages /\ overtaken' \in BOOLEAN /\ astray' \subseteq Languages
  BY <1>1, <1>2 DEF CallFails, LocaleTypeOK, agentState
<1>5. \/ /\ sync' = [sync EXCEPT ![Head(calls)].at = "waiting"] /\ badge' = badge
         /\ sync[Head(calls)].attempt < SyncAttempts
      \/ sync' = [sync EXCEPT ![Head(calls)].at = "ended"] /\ badge' \in {badge, "error"}
  BY DEF CallFails, EndSync
<1>6. LocaleTypeOK' /\ QueueInv' /\ CallInv'
  BY <1>1, <1>2, <1>3, <1>4, <1>5, CallEnds
<1>7. QED
  BY <1>6 DEF LocaleInv

\* A run tries again, unless it is superseded (the delay of syncAgentLocale).
LEMMA EndWaitKeeps ==
  ASSUME LocaleAssumption, LocaleInv, NEW n \in 1..MaxSyncs, EndWait(n)
  PROVE  LocaleInv'
<1>1. LocaleTypeOK /\ QueueInv /\ CallInv
  BY DEF LocaleInv
<1>2. sync[n].at = "waiting" /\ UNCHANGED <<system, shownLocale, queued, effectDue, syncs, agentState, counted>>
  BY DEF EndWait
<1>3. sync \in [1..MaxSyncs -> Run] /\ syncs \in 0..MaxSyncs /\ calls \in Seq(1..MaxSyncs)
      /\ Len(calls) \in Nat /\ MaxSyncs \in Nat
  BY <1>1, LenProperties DEF LocaleTypeOK, Run, MaxSyncs, LocaleAssumption
<1>4. \A k \in 1..Len(calls) : calls[k] \in 1..syncs /\ sync[calls[k]].at = "calling" /\ calls[k] # n
  BY <1>1, <1>2 DEF CallInv
<1>5. QueueInv'
  BY <1>1, <1>2 DEF QueueInv, shownLocale, queued
<1>6. CASE n = syncs
  <2>1. /\ sync' = [sync EXCEPT ![n].at = "calling", ![n].attempt = @ + 1]
        /\ calls' = Append(calls, n) /\ badge' = badge
    BY <1>6 DEF EndWait, IsCurrent
  <2>2. badge # "synced" /\ syncs >= 1
    BY <1>1, <1>2, <1>6 DEF CallInv
  <2>3. sync[n].attempt < SyncAttempts
    BY <1>1, <1>2 DEF CallInv
  <2>4. /\ sync' \in [1..MaxSyncs -> Run]
        /\ \A m \in 1..MaxSyncs : m # n => sync'[m] = sync[m]
        /\ sync'[n].at = "calling" /\ sync'[n].locale = sync[n].locale
    <3>1. sync[n] \in Run /\ sync[n].attempt + 1 \in 0..SyncAttempts
      BY <1>3, <2>3 DEF Run, LocaleAssumption
    <3>2. [sync[n] EXCEPT !.at = "calling", !.attempt = @ + 1] \in Run
      BY <3>1 DEF Run
    <3>3. sync' = [sync EXCEPT ![n] = [sync[n] EXCEPT !.at = "calling", !.attempt = @ + 1]]
      BY <2>1, <1>3 DEF Run
    <3>4. QED
      BY <1>3, <3>1, <3>2, <3>3 DEF Run
  <2>5. /\ calls' \in Seq(1..MaxSyncs) /\ Len(calls') = Len(calls) + 1
        /\ \A k \in 1..Len(calls) : calls'[k] = calls[k]
        /\ calls'[Len(calls) + 1] = n
    BY <1>3, <2>1, AppendProperties
  <2>6. LocaleTypeOK'
    BY <1>1, <1>2, <2>1, <2>4, <2>5 DEF LocaleTypeOK, shownLocale, queued, agentState, Run
  <2>7. CallInv'
    <3>1. syncs' + Due' + Len(transitions') <= choices' + 1 /\ choices' \in 0..MaxChoices
      BY <1>1, <1>2 DEF CallInv, Due, queued, counted
    <3>2. \A k \in 1..Len(calls') : calls'[k] \in 1..syncs' /\ sync'[calls'[k]].at = "calling"
      <4>1. ASSUME NEW k \in 1..Len(calls), k \in 1..Len(calls')
            PROVE  calls'[k] \in 1..syncs' /\ sync'[calls'[k]].at = "calling"
        <5>1. calls'[k] = calls[k] /\ calls[k] \in 1..MaxSyncs /\ calls[k] # n
          BY <1>3, <1>4, <2>5, ElementOfSeq
        <5>2. QED
          BY <1>2, <1>4, <2>4, <5>1
      <4>2. n \in 1..syncs' /\ sync'[n].at = "calling"
        BY <1>2, <1>3, <1>6, <2>2, <2>4
      <4>3. \A k \in 1..Len(calls') : k \in 1..Len(calls) \/ k = Len(calls) + 1
        BY <1>3, <2>5
      <4>4. QED
        BY <4>1, <4>2, <4>3, <2>5
    <3>3. \A k, l \in 1..Len(calls') : k < l => calls'[k] < calls'[l]
      <4>1. \A k, l \in 1..Len(calls) : k < l => calls[k] < calls[l]
        BY <1>1 DEF CallInv
      <4>2. \A k \in 1..Len(calls) : calls[k] \in Nat /\ calls[k] < n
        BY <1>3, <1>4, <1>6
      <4>3. ASSUME NEW k \in 1..Len(calls'), NEW l \in 1..Len(calls'), k < l
            PROVE  calls'[k] < calls'[l]
        <5>1. Len(calls) \in Nat /\ Len(calls') = Len(calls) + 1
          BY <1>3, <2>5
        <5>2. k \in 1..Len(calls) /\ (l \in 1..Len(calls) \/ l = Len(calls) + 1)
          BY <4>3, <5>1
        <5>3. QED
          BY <5>2, <4>1, <4>2, <4>3, <2>5
      <4>4. QED
        BY <4>3
    <3>4. badge' # "synced" /\ (~effectDue' => syncs' >= 1 /\ sync'[syncs'].locale = snapshot')
      BY <1>1, <1>2, <1>6, <2>1, <2>2, <2>4 DEF CallInv, shownLocale
    <3>5. \A m \in 1..MaxSyncs : sync'[m].at = "waiting" => sync'[m].attempt < SyncAttempts
      BY <1>1, <2>4 DEF CallInv
    <3>6. QED
      BY <3>1, <3>2, <3>3, <3>4, <3>5 DEF CallInv
  <2>8. QED
    BY <1>5, <2>6, <2>7 DEF LocaleInv
<1>7. CASE n # syncs
  <2>1. sync' = [sync EXCEPT ![n].at = "ended"] /\ calls' = calls /\ badge' = badge
    BY <1>7 DEF EndWait, IsCurrent, EndSync
  <2>2. /\ sync' \in [1..MaxSyncs -> Run]
        /\ \A m \in 1..MaxSyncs : m # n => sync'[m] = sync[m]
        /\ sync'[n].at = "ended"
    BY <1>3, <2>1 DEF Run
  <2>3. LocaleTypeOK'
    BY <1>1, <1>2, <2>1, <2>2 DEF LocaleTypeOK, shownLocale, queued, agentState, Run
  <2>4. CallInv'
    <3>1. syncs' + Due' + Len(transitions') <= choices' + 1 /\ choices' \in 0..MaxChoices
      BY <1>1, <1>2 DEF CallInv, Due, queued, counted
    <3>2. \A k \in 1..Len(calls') : calls'[k] \in 1..syncs' /\ sync'[calls'[k]].at = "calling"
      BY SMTT(45), <1>2, <1>3, <1>4, <2>1, <2>2
    <3>3. \A k, l \in 1..Len(calls') : k < l => calls'[k] < calls'[l]
      BY <1>1, <2>1 DEF CallInv
    <3>4. syncs' = syncs /\ (syncs >= 1 => sync'[syncs] = sync[syncs])
      BY <1>2, <1>3, <1>7, <2>2
    <3>5. /\ badge' = "synced" => calls' = <<>> /\ syncs' >= 1 /\ sync'[syncs'].at = "ended"
          /\ badge' = "synced" => agentLocale' = sync'[syncs'].locale \/ overtaken'
          /\ ~effectDue' => syncs' >= 1 /\ sync'[syncs'].locale = snapshot'
      BY <1>1, <1>2, <2>1, <3>4 DEF CallInv, shownLocale, agentState
    <3>6. \A m \in 1..MaxSyncs : sync'[m].at = "waiting" => sync'[m].attempt < SyncAttempts
      BY <1>1, <2>2 DEF CallInv
    <3>7. QED
      BY <3>1, <3>2, <3>3, <3>5, <3>6 DEF CallInv
  <2>5. QED
    BY <1>5, <2>3, <2>4 DEF LocaleInv
<1>8. QED
  BY <1>6, <1>7

\* A call that was given up reaches the Agent (set_locale of the Agent).
LEMMA CallArrivesLateKeeps ==
  ASSUME LocaleAssumption, LocaleInv, NEW locale \in Languages, CallArrivesLate(locale)
  PROVE  LocaleInv'
<1>1. LocaleTypeOK /\ QueueInv /\ CallInv
  BY DEF LocaleInv
<1>2. LocaleTypeOK'
  BY <1>1 DEF CallArrivesLate, LocaleTypeOK, shownLocale, queued, syncing
<1>3. QueueInv'
  BY <1>1 DEF CallArrivesLate, QueueInv, shownLocale, queued
<1>4. CallInv'
  BY <1>1 DEF CallArrivesLate, CallInv, Due, shownLocale, queued, syncing, counted
<1>5. QED
  BY <1>2, <1>3, <1>4 DEF LocaleInv

\* The next start takes up the stored choice (initializeDesktopLocale).
LEMMA RestartDesktopKeeps ==
  ASSUME LocaleAssumption, LocaleInv, RestartDesktop
  PROVE  LocaleInv'
<1> DEFINE locale == Snapshot(stored, system)
<1>1. LocaleTypeOK /\ QueueInv /\ CallInv
  BY DEF LocaleInv
<1>2. /\ preference' = stored /\ snapshot' = locale /\ catalog' = locale
      /\ transitions' = <<>> /\ generation' = 0
      /\ sync' = [n \in 1..MaxSyncs |-> NoSync] /\ syncs' = 0 /\ calls' = <<>>
      /\ effectDue' = TRUE /\ badge' = "syncing"
      /\ UNCHANGED <<system, stored, agentLocale, overtaken, choices, failures>>
  BY DEF RestartDesktop
<1>3. locale \in Languages /\ (stored # "system" => locale = stored)
  BY <1>1 DEF Snapshot, LocaleTypeOK, Preferences
<1>4. astray' \subseteq Languages
  <2>1. calls # <<>> => sync[Head(calls)].locale \in Languages
    BY <1>1, FirstCall DEF LocaleTypeOK
  <2>2. QED
    BY <2>1, <1>1 DEF RestartDesktop, LocaleTypeOK
<1>5. NoSync \in Run /\ MaxSyncs \in Nat
  BY DEF LocaleAssumption, NoSync, Run, MaxSyncs
<1>6. sync' \in [1..MaxSyncs -> Run] /\ syncs' \in 0..MaxSyncs
  BY <1>2, <1>5
<1>7. transitions' \in Seq(Transition) /\ calls' \in Seq(1..MaxSyncs)
  BY <1>2, EmptySeq
<1>8. LocaleTypeOK'
  BY <1>1, <1>2, <1>3, <1>4, <1>6, <1>7 DEF LocaleTypeOK, Transition, Run
<1>9. QueueInv'
  BY <1>1, <1>2, <1>3 DEF QueueInv
<1>10. CallInv'
  BY <1>1, <1>2, <1>5 DEF CallInv, Due, LocaleTypeOK, NoSync
<1>11. QED
  BY <1>8, <1>9, <1>10 DEF LocaleInv

\* The invariant of the locale: the queue is numbered and ends with what is shown, the
\* calls are in order and the last run is of the locale shown.
THEOREM LocaleInvariant == LocaleSpec => []LocaleInv
<1>1. LocaleInit => LocaleInv
  BY LocaleInitially, LocaleAssumption
<1>2. LocaleInv /\ [LocaleNext]_localeVars => LocaleInv'
  <2> SUFFICES ASSUME LocaleInv, [LocaleNext]_localeVars PROVE LocaleInv'
    OBVIOUS
  <2> USE LocaleAssumption
  <2>1. CASE LocaleStep
    BY <2>1, EndTransitionKeeps, RunSyncEffectKeeps, CallSucceedsKeeps, CallFailsKeeps, EndWaitKeeps
    DEF LocaleStep
  <2>2. CASE LocaleNext /\ ~LocaleStep
    BY <2>2, ChooseKeeps, ChangeSystemKeeps, CallArrivesLateKeeps, RetrySyncKeeps, RestartDesktopKeeps
    DEF LocaleNext
  <2>3. CASE UNCHANGED localeVars
    BY <2>3 DEF localeVars, shownLocale, queued, syncing, agentState, counted, LocaleInv,
                LocaleTypeOK, QueueInv, CallInv, Due
  <2>4. QED
    BY <2>1, <2>2, <2>3
<1>3. QED
  BY <1>1, <1>2, PTL DEF LocaleSpec

\* What the desktop shows, keeps and has told the Agent is one locale.
THEOREM LocaleIsAlwaysOne == LocaleSpec => []LocaleIsOne
<1>1. LocaleInv => LocaleIsOne
  BY DEF LocaleInv, LocaleIsOne, QueueInv, CallInv, SpeaksWhatItShows, SyncedMeansAgreed
<1>2. QED
  BY <1>1, LocaleInvariant, PTL

-----------------------------------------------------------------------------
(***************************************************************************)
(* Updates of the desktop application (DesktopUpdates).                    *)
(***************************************************************************)
Operation == [kind : {"check", "download", "install"}, page : Nat,
              at : {"clicked", "closing", "asking", "answered", "started", "finished", "ended"},
              candidate : Nat, version : Nat]
Candidate == [version : Nat, downloaded : BOOLEAN]

UpdaterTypeOK ==
  /\ operations \in Seq(Operation) /\ candidates \in Seq(Candidate)
  /\ updatePage \in Nat /\ update \in Nat /\ newest \in Nat /\ current \in Nat /\ installed \in Nat

\* The page names no update, or this one.
Names(c) == update \in {NoVersion, candidates[c].version}

(* Every update found is newer than the program that runs; one that is kept or being     *)
(* installed is the one the page names, unless a check has crossed.                      *)
FoundInv ==
  /\ pendingUpdate \in 0..Len(candidates)
  /\ \A c \in 1..Len(candidates) : candidates[c].version > current
  /\ pendingUpdate # NoCandidate /\ ~crossed => Names(pendingUpdate)
InstallInv ==
  \A i \in 1..Len(operations) : Installing(i) =>
    /\ operations[i].candidate \in 1..Len(candidates)
    /\ ~crossed => Names(operations[i].candidate)
RestartInv ==
  updatePhase = "restart-required" =>
    /\ installed > current
    /\ ~crossed => update \in {NoVersion, installed}

UpdateInv == UpdaterTypeOK /\ FoundInv /\ InstallInv /\ RestartInv

\* Clicks and changes of the page: an operation is started at most, and what the page
\* names becomes nothing or stays.
LEMMA PageStepKeeps ==
  ASSUME UpdateInv,
         \/ UNCHANGED operations
         \/ \E kind \in {"check", "download", "install"} :
              operations' = Append(operations, [kind |-> kind, page |-> updatePage, at |-> "clicked",
                                                candidate |-> NoCandidate, version |-> NoVersion]),
         UNCHANGED <<candidates, pendingUpdate, current, installed, crossed>>,
         updatePage' \in Nat, newest' \in Nat, update' \in {update, NoVersion},
         updatePhase' = "restart-required" => updatePhase = "restart-required"
  PROVE  UpdateInv'
<1>1. /\ operations \in Seq(Operation) /\ candidates \in Seq(Candidate) /\ Len(operations) \in Nat
      /\ updatePage \in Nat /\ update \in Nat /\ current \in Nat /\ installed \in Nat
  BY LenProperties DEF UpdateInv, UpdaterTypeOK
<1>2. /\ operations' \in Seq(Operation)
      /\ \A i \in 1..Len(operations') :
           \/ i \in 1..Len(operations) /\ operations'[i] = operations[i]
           \/ operations'[i].at = "clicked"
  <2>1. CASE UNCHANGED operations
    BY <2>1, <1>1
  <2>2. ASSUME NEW kind \in {"check", "download", "install"},
               operations' = Append(operations, [kind |-> kind, page |-> updatePage, at |-> "clicked",
                                                 candidate |-> NoCandidate, version |-> NoVersion])
        PROVE  /\ operations' \in Seq(Operation)
               /\ \A i \in 1..Len(operations') :
                    \/ i \in 1..Len(operations) /\ operations'[i] = operations[i]
                    \/ operations'[i].at = "clicked"
    <3> DEFINE op == [kind |-> kind, page |-> updatePage, at |-> "clicked",
                      candidate |-> NoCandidate, version |-> NoVersion]
    <3>1. op \in Operation /\ op.at = "clicked"
      BY <1>1 DEF Operation, NoCandidate, NoVersion
    <3>2. /\ operations' \in Seq(Operation) /\ Len(operations') = Len(operations) + 1
          /\ \A i \in 1..Len(operations) : operations'[i] = operations[i]
          /\ operations'[Len(operations) + 1] = op
      BY <2>2, <3>1, <1>1, AppendProperties
    <3>3. QED
      BY <3>1, <3>2, <1>1
  <2>3. QED
    BY <2>1, <2>2
<1>3. UpdaterTypeOK'
  BY <1>1, <1>2 DEF UpdaterTypeOK, NoVersion
<1>4. FoundInv' /\ RestartInv'
  BY <1>1 DEF UpdateInv, FoundInv, RestartInv, Names, NoVersion
<1>5. InstallInv'
  <2> SUFFICES ASSUME NEW i \in 1..Len(operations'), Installing(i)'
               PROVE  /\ operations'[i].candidate \in 1..Len(candidates')
                      /\ ~crossed' => Names(operations[i].candidate)'
    BY DEF InstallInv
  <2>1. i \in 1..Len(operations) /\ operations'[i] = operations[i]
    BY <1>2 DEF Installing
  <2>2. Installing(i)
    BY <2>1 DEF Installing
  <2>3. QED
    BY <2>1, <2>2 DEF UpdateInv, InstallInv, Names, NoVersion
<1>6. QED
  BY <1>3, <1>4, <1>5 DEF UpdateInv

\* relaunch: another process, which has found nothing yet.
LEMMA RelaunchKeeps == ASSUME UpdateInv, Relaunch PROVE UpdateInv'
<1>1. operations' = <<>> /\ candidates' = <<>> /\ Len(operations') = 0 /\ Len(candidates') = 0
      /\ pendingUpdate' = 0 /\ updatePhase' = "idle" /\ update' = 0
  BY DEF Relaunch, NoCandidate, NoVersion
<1>2. UpdaterTypeOK'
  BY <1>1, EmptySeq DEF UpdateInv, UpdaterTypeOK, Relaunch
<1>3. FoundInv' /\ InstallInv' /\ RestartInv'
  BY <1>1 DEF FoundInv, InstallInv, RestartInv, NoCandidate
<1>4. QED
  BY <1>2, <1>3 DEF UpdateInv

\* The updater's steps that keep the update found and what is installed: an operation that
\* begins to install takes the update kept (BeginCheck to EndDownload, BeginInstall, Fail).
LEMMA QuietUpdaterStep ==
  ASSUME UpdateInv, NEW i \in 1..Len(operations), NEW op \in Operation,
         operations' = [operations EXCEPT ![i] = op],
         op.kind = "install" /\ op.at = "asking" =>
           op.candidate = pendingUpdate /\ pendingUpdate # NoCandidate,
         candidates' \in Seq(Candidate), Len(candidates') = Len(candidates),
         \A c \in 1..Len(candidates) : candidates'[c].version = candidates[c].version,
         pendingUpdate' \in {pendingUpdate, NoCandidate},
         update' \in {update, NoVersion}, updatePhase' # "restart-required" \/ updatePhase' = updatePhase,
         crossed => crossed',
         UNCHANGED <<updatePage, newest, current, installed>>
  PROVE  UpdateInv'
<1>1. /\ operations \in Seq(Operation) /\ candidates \in Seq(Candidate) /\ Len(operations) \in Nat
      /\ Len(candidates) \in Nat
      /\ updatePage \in Nat /\ update \in Nat /\ current \in Nat /\ installed \in Nat
  BY LenProperties DEF UpdateInv, UpdaterTypeOK
<1>2. /\ operations' \in Seq(Operation) /\ Len(operations') = Len(operations)
      /\ \A j \in 1..Len(operations) : operations'[j] = IF j = i THEN op ELSE operations[j]
  BY <1>1, ExceptSeq
<1>3. UpdaterTypeOK'
  BY <1>1, <1>2 DEF UpdateInv, UpdaterTypeOK, NoVersion
<1>4. FoundInv'
  BY <1>1 DEF UpdateInv, FoundInv, Names, NoVersion, NoCandidate
<1>5. RestartInv'
  BY <1>1 DEF UpdateInv, RestartInv, NoVersion
<1>6. InstallInv'
  <2> SUFFICES ASSUME NEW j \in 1..Len(operations'), Installing(j)'
               PROVE  /\ operations'[j].candidate \in 1..Len(candidates')
                      /\ ~crossed' => Names(operations[j].candidate)'
    BY DEF InstallInv
  <2>1. CASE j = i
    <3>1. operations'[j].candidate = pendingUpdate /\ pendingUpdate # NoCandidate
      BY <2>1, <1>2 DEF Installing
    <3>2. pendingUpdate \in 1..Len(candidates) /\ (~crossed => Names(pendingUpdate))
      BY <3>1, <1>1 DEF UpdateInv, FoundInv, NoCandidate
    <3>3. QED
      BY <3>1, <3>2 DEF Names, NoVersion
  <2>2. CASE j # i
    <3>1. operations'[j] = operations[j] /\ Installing(j) /\ j \in 1..Len(operations)
      BY <2>2, <1>2 DEF Installing
    <3>2. operations[j].candidate \in 1..Len(candidates) /\ (~crossed => Names(operations[j].candidate))
      BY <3>1 DEF UpdateInv, InstallInv
    <3>3. QED
      BY <3>1, <3>2 DEF Names, NoVersion
  <2>3. QED
    BY <2>1, <2>2
<1>7. QED
  BY <1>3, <1>4, <1>5, <1>6 DEF UpdateInv

\* An operation that is over, and a candidate whose bytes are verified.
LEMMA EndedOperation ==
  ASSUME NEW op \in Operation
  PROVE  Ended(op) \in Operation /\ Ended(op).at = "ended"
BY DEF Operation, Ended, NoCandidate, NoVersion

LEMMA DownloadedCandidates ==
  ASSUME NEW found \in Seq(Candidate), NEW k
  PROVE  LET done == [found EXCEPT ![k].downloaded = TRUE]
         IN  /\ done \in Seq(Candidate) /\ Len(done) = Len(found)
             /\ \A c \in 1..Len(found) : done[c].version = found[c].version
<1> DEFINE done == [found EXCEPT ![k].downloaded = TRUE]
<1>1. CASE k \in 1..Len(found)
  <2> DEFINE new == [found[k] EXCEPT !.downloaded = TRUE]
  <2>1. found[k] \in Candidate
    BY <1>1, ElementOfSeq
  <2>2. new \in Candidate /\ new.version = found[k].version
    BY <2>1 DEF Candidate
  <2>3. done = [found EXCEPT ![k] = new]
    OBVIOUS
  <2> HIDE DEF new, done
  <2>4. /\ done \in Seq(Candidate) /\ Len(done) = Len(found)
        /\ \A c \in 1..Len(found) : done[c] = IF c = k THEN new ELSE found[c]
    BY <2>2, <2>3, <1>1, ExceptSeq
  <2>5. QED
    BY <2>2, <2>4 DEF done
<1>2. CASE k \notin 1..Len(found)
  <2>1. DOMAIN found = 1..Len(found) /\ found \in [1..Len(found) -> Candidate]
    BY LenProperties
  <2>2. done = found
    BY <1>2, <2>1
  <2>3. QED
    BY <2>2
<1>3. QED
  BY <1>1, <1>2

\* A check that ends beside an installation, or on a page that was left, crosses it.
LEMMA ChecksCross ==
  ASSUME UpdateInv, NEW i \in 1..Len(operations), At(i, "check", "answered"),
         operations' = [operations EXCEPT ![i] = Ended(operations[i])],
         crossed' = (crossed \/ \E j \in DOMAIN operations : Crosses(j)), ~crossed'
  PROVE  /\ ~crossed /\ pageShown /\ operations[i].page = updatePage
         /\ \A j \in 1..Len(operations) : ~Installing(j)
<1>1. operations \in Seq(Operation) /\ DOMAIN operations = 1..Len(operations)
  BY LenProperties DEF UpdateInv, UpdaterTypeOK
<1>2. operations'[i].at = "ended"
  BY <1>1, ExceptSeq DEF Ended, Operation
<1>3. ~crossed /\ ~Crosses(i)
  BY <1>1
<1>4. QED
  BY <1>1, <1>2, <1>3 DEF Crosses, At, Installing

\* The update found is kept, and the page names it (the check of desktopUpdater).
LEMMA UpdateFound ==
  ASSUME UpdateInv, NEW i \in 1..Len(operations), At(i, "check", "answered"),
         operations[i].version > current,
         candidates' = Append(candidates, [version |-> operations[i].version, downloaded |-> FALSE]),
         pendingUpdate' = Len(candidates) + 1, End(i, "update-available", operations[i].version),
         UNCHANGED <<installed, updatePage, newest, current>>,
         crossed' = (crossed \/ \E j \in DOMAIN operations : Crosses(j))
  PROVE  UpdateInv'
<1> DEFINE found == [version |-> operations[i].version, downloaded |-> FALSE]
<1>1. /\ operations \in Seq(Operation) /\ candidates \in Seq(Candidate) /\ Len(operations) \in Nat
      /\ Len(candidates) \in Nat
      /\ updatePage \in Nat /\ update \in Nat /\ current \in Nat /\ installed \in Nat /\ newest \in Nat
  BY LenProperties DEF UpdateInv, UpdaterTypeOK
<1>2. operations[i] \in Operation /\ found \in Candidate
      /\ Ended(operations[i]) \in Operation /\ Ended(operations[i]).at = "ended"
  <2>1. operations[i] \in Operation
    BY <1>1, ElementOfSeq
  <2>2. QED
    BY <2>1, EndedOperation DEF Operation, Candidate
<1>3. /\ candidates' \in Seq(Candidate) /\ Len(candidates') = Len(candidates) + 1
      /\ \A c \in 1..Len(candidates) : candidates'[c] = candidates[c]
      /\ candidates'[Len(candidates) + 1] = found
  BY <1>1, <1>2, AppendProperties
<1>4. operations' = [operations EXCEPT ![i] = Ended(operations[i])]
  BY DEF End, SetOperation
<1>5. /\ operations' \in Seq(Operation) /\ Len(operations') = Len(operations)
      /\ \A j \in 1..Len(operations) : operations'[j] = IF j = i THEN Ended(operations[i]) ELSE operations[j]
  BY <1>1, <1>2, <1>4, ExceptSeq
<1>6. \/ UNCHANGED <<updatePhase, update>>
      \/ updatePhase' = "available" /\ update' = operations[i].version
  BY DEF End, Tell, Reduced
<1>7. ~crossed' => /\ ~crossed /\ update' = operations[i].version /\ updatePhase' = "available"
                   /\ \A j \in 1..Len(operations) : ~Installing(j)
  BY <1>4, ChecksCross DEF End, Tell, Reduced
<1>8. UpdaterTypeOK'
  <2>1. update' \in Nat
    BY <1>1, <1>2, <1>6 DEF Operation
  <2>2. QED
    BY <1>1, <1>3, <1>5, <2>1 DEF UpdaterTypeOK
<1>9. FoundInv'
  <2>1. \A c \in 1..Len(candidates') : candidates'[c].version > current'
    <3>1. \A c \in 1..Len(candidates) : candidates[c].version > current
      BY DEF UpdateInv, FoundInv
    <3>2. candidates'[Len(candidates) + 1].version > current
      BY <1>3
    <3>3. Len(candidates) \in Nat /\ current' = current
      BY <1>1
    <3>4. QED
      BY <3>1, <3>2, <3>3, <1>3
  <2>2. ~crossed' => update' = candidates'[pendingUpdate'].version
    BY <1>3, <1>7
  <2>3. QED
    BY <2>1, <2>2, <1>1, <1>3 DEF FoundInv, Names
<1>10. InstallInv'
  <2> SUFFICES ASSUME NEW j \in 1..Len(operations'), Installing(j)'
               PROVE  /\ operations'[j].candidate \in 1..Len(candidates')
                      /\ ~crossed' => Names(operations[j].candidate)'
    BY DEF InstallInv
  <2>1. j # i /\ operations'[j] = operations[j] /\ j \in 1..Len(operations) /\ Installing(j)
    BY <1>2, <1>5 DEF Installing
  <2>2. operations[j].candidate \in 1..Len(candidates)
    BY <2>1 DEF UpdateInv, InstallInv
  <2>3. QED
    BY <2>1, <2>2, <1>1, <1>3, <1>7
<1>11. RestartInv'
  BY <1>6, <1>7 DEF UpdateInv, RestartInv
<1>12. QED
  BY <1>8, <1>9, <1>10, <1>11 DEF UpdateInv

\* The update is installed, and the page that asked for it learns it.
LEMMA UpdateInstalled ==
  ASSUME UpdateInv, NEW i \in 1..Len(operations), EndInstall(i),
         UNCHANGED <<updatePage, newest, current>>, crossed => crossed'
  PROVE  UpdateInv'
<1>1. /\ operations \in Seq(Operation) /\ candidates \in Seq(Candidate) /\ Len(operations) \in Nat
      /\ updatePage \in Nat /\ update \in Nat /\ current \in Nat /\ installed \in Nat /\ newest \in Nat
  BY LenProperties DEF UpdateInv, UpdaterTypeOK
<1>2. /\ Installing(i) /\ operations' = [operations EXCEPT ![i] = Ended(operations[i])]
      /\ installed' = candidates[operations[i].candidate].version
      /\ UNCHANGED <<candidates, pendingUpdate>>
  BY DEF EndInstall, At, End, SetOperation, Installing
<1>3. update' = update
  BY DEF EndInstall, End, Tell, Reduced
<1>4. Ended(operations[i]) \in Operation /\ Ended(operations[i]).at = "ended"
  BY <1>1, ElementOfSeq, EndedOperation
<1>5. /\ operations' \in Seq(Operation) /\ Len(operations') = Len(operations)
      /\ \A j \in 1..Len(operations) : operations'[j] = IF j = i THEN Ended(operations[i]) ELSE operations[j]
  BY <1>1, <1>2, <1>4, ExceptSeq
<1>6. operations[i].candidate \in 1..Len(candidates) /\ (~crossed => Names(operations[i].candidate))
  BY <1>2 DEF UpdateInv, InstallInv
<1>7. installed' \in Nat /\ installed' > current
  <2>1. candidates[operations[i].candidate] \in Candidate
    BY <1>1, <1>6, ElementOfSeq
  <2>2. QED
    BY <1>2, <1>6, <2>1 DEF UpdateInv, FoundInv, Candidate
<1>8. UpdaterTypeOK'
  BY <1>1, <1>2, <1>3, <1>5, <1>7 DEF UpdaterTypeOK
<1>9. FoundInv'
  BY <1>2, <1>3 DEF UpdateInv, FoundInv, Names
<1>10. RestartInv'
  BY <1>2, <1>3, <1>6, <1>7 DEF RestartInv, Names
<1>11. InstallInv'
  <2> SUFFICES ASSUME NEW j \in 1..Len(operations'), Installing(j)'
               PROVE  /\ operations'[j].candidate \in 1..Len(candidates')
                      /\ ~crossed' => Names(operations[j].candidate)'
    BY DEF InstallInv
  <2>1. j # i /\ operations'[j] = operations[j] /\ j \in 1..Len(operations) /\ Installing(j)
    BY <1>4, <1>5 DEF Installing
  <2>2. operations[j].candidate \in 1..Len(candidates) /\ (~crossed => Names(operations[j].candidate))
    BY <2>1 DEF UpdateInv, InstallInv
  <2>3. QED
    BY <2>1, <2>2, <1>2, <1>3 DEF Names
<1>12. QED
  BY <1>8, <1>9, <1>10, <1>11 DEF UpdateInv

\* An event that ends an operation without an update.
LEMMA EndingKeeps ==
  ASSUME UpdateInv, NEW i \in 1..Len(operations), NEW event \in {"failed", "no-update"},
         End(i, event, NoVersion), UNCHANGED <<candidates, pendingUpdate, installed>>,
         UNCHANGED <<updatePage, newest, current>>, crossed => crossed'
  PROVE  UpdateInv'
<1>1. operations[i] \in Operation /\ candidates \in Seq(Candidate)
  BY ElementOfSeq DEF UpdateInv, UpdaterTypeOK
<1>2. Ended(operations[i]) \in Operation /\ Ended(operations[i]).at = "ended"
  BY <1>1, EndedOperation
<1>3. operations' = [operations EXCEPT ![i] = Ended(operations[i])]
  BY DEF End, SetOperation
<1>4. update' \in {update, NoVersion} /\ (updatePhase' # "restart-required" \/ updatePhase' = updatePhase)
  BY DEF End, Tell, Reduced
<1>5. QED
  BY <1>1, <1>2, <1>3, <1>4, QuietUpdaterStep

\* Every step of the updater keeps the invariant.
LEMMA UpdaterStepKeeps == ASSUME UpdateInv, UpdaterStep PROVE UpdateInv'
<1>1. DOMAIN operations = 1..Len(operations) /\ operations \in Seq(Operation) /\ candidates \in Seq(Candidate)
  BY LenProperties DEF UpdateInv, UpdaterTypeOK
<1>2. PICK i \in 1..Len(operations) :
        \/ BeginCheck(i) \/ CloseUpdate(i) \/ AnswerCheck(i) \/ EndCheck(i)
        \/ BeginDownload(i) \/ DownloadEvent(i) \/ EndDownload(i)
        \/ BeginInstall(i) \/ EndInstall(i)
        \/ OperationFails(i)
  BY <1>1 DEF UpdaterStep
<1>3. /\ crossed' = (crossed \/ \E j \in DOMAIN operations : Crosses(j))
      /\ UNCHANGED <<updatePage, pageShown, newest, current>>
  BY DEF UpdaterStep
<1>4. crossed => crossed'
  BY <1>3
<1>5. operations[i] \in Operation
  BY <1>1, ElementOfSeq
<1>6. CASE BeginCheck(i)
  <2> DEFINE op == [operations[i] EXCEPT !.at = IF pendingUpdate = NoCandidate THEN "asking" ELSE "closing"]
  <2>1. operations' = [operations EXCEPT ![i] = op] /\ operations[i].kind = "check"
        /\ UNCHANGED <<updatePhase, update, candidates, pendingUpdate, installed>>
    BY <1>6 DEF BeginCheck, SetOperation, At
  <2>2. op \in Operation /\ op.kind = "check"
    BY <1>5, <2>1 DEF Operation
  <2> HIDE DEF op
  <2>3. QED
    BY <2>1, <2>2, <1>1, <1>3, <1>4, QuietUpdaterStep
<1>7. CASE CloseUpdate(i)
  <2> DEFINE op == [operations[i] EXCEPT !.at = "asking"]
  <2>1. operations' = [operations EXCEPT ![i] = op] /\ operations[i].kind = "check"
        /\ pendingUpdate' = NoCandidate /\ UNCHANGED <<updatePhase, update, candidates, installed>>
    BY <1>7 DEF CloseUpdate, SetOperation, At
  <2>2. op \in Operation /\ op.kind = "check"
    BY <1>5, <2>1 DEF Operation
  <2> HIDE DEF op
  <2>3. QED
    BY <2>1, <2>2, <1>1, <1>3, <1>4, QuietUpdaterStep
<1>8. CASE AnswerCheck(i)
  <2> DEFINE op == [operations[i] EXCEPT !.at = "answered", !.version = newest]
  <2>1. operations' = [operations EXCEPT ![i] = op] /\ operations[i].kind = "check"
        /\ UNCHANGED <<updatePhase, update, candidates, pendingUpdate, installed>>
    BY <1>8 DEF AnswerCheck, SetOperation, At
  <2>2. op \in Operation /\ op.kind = "check"
    BY <1>5, <2>1 DEF Operation, UpdateInv, UpdaterTypeOK
  <2> HIDE DEF op
  <2>3. QED
    BY <2>1, <2>2, <1>1, <1>3, <1>4, QuietUpdaterStep
<1>9. CASE EndCheck(i)
  <2>1. CASE operations[i].version > current
    BY <2>1, <1>9, <1>3, UpdateFound DEF EndCheck
  <2>2. CASE ~(operations[i].version > current)
    <3>1. End(i, "no-update", NoVersion) /\ UNCHANGED <<candidates, pendingUpdate, installed>>
      BY <2>2, <1>9 DEF EndCheck
    <3>2. QED
      BY <3>1, <1>3, <1>4, EndingKeeps
  <2>3. QED
    BY <2>1, <2>2
<1>10. CASE Fail(i)
  BY <1>10, <1>3, <1>4, EndingKeeps DEF Fail
<1>11. CASE (BeginDownload(i) \/ BeginInstall(i)) /\ ~Fail(i)
  <2> DEFINE op == [operations[i] EXCEPT !.at = "asking", !.candidate = pendingUpdate]
  <2>1. operations' = [operations EXCEPT ![i] = op] /\ pendingUpdate # NoCandidate
        /\ UNCHANGED <<updatePhase, update, candidates, pendingUpdate, installed>>
    BY <1>11 DEF BeginDownload, BeginInstall, SetOperation
  <2>2. op \in Operation /\ op.candidate = pendingUpdate
    <3>1. pendingUpdate \in Nat
      BY <1>1, LenProperties DEF UpdateInv, FoundInv
    <3>2. QED
      BY <3>1, <1>5 DEF Operation
  <2> HIDE DEF op
  <2>3. QED
    BY <2>1, <2>2, <1>1, <1>3, <1>4, QuietUpdaterStep
<1>12. CASE DownloadEvent(i)
  <2>1. UNCHANGED <<candidates, pendingUpdate, installed>> /\ operations[i].kind = "download"
    BY <1>12 DEF DownloadEvent
  <2>2. update' = update /\ (updatePhase' # "restart-required" \/ updatePhase' = updatePhase)
    BY <1>12 DEF DownloadEvent, Tell, Reduced
  <2>3. PICK at \in {"started", "finished"} : operations' = [operations EXCEPT ![i] = [operations[i] EXCEPT !.at = at]]
    <3>1. CASE UNCHANGED operations /\ operations[i].at = "started"
      BY <3>1, <1>1, <1>5 DEF Operation
    <3>2. CASE ~(UNCHANGED operations /\ operations[i].at = "started")
      BY <3>2, <1>12 DEF DownloadEvent, SetOperation
    <3>3. QED
      BY <3>1, <3>2
  <2> DEFINE op == [operations[i] EXCEPT !.at = at]
  <2>4. op \in Operation /\ op.kind = "download"
    BY <1>5, <2>1 DEF Operation
  <2> HIDE DEF op
  <2>5. operations' = [operations EXCEPT ![i] = op]
    BY <2>3 DEF op
  <2>6. QED
    BY <2>1, <2>2, <2>4, <2>5, <1>1, <1>3, <1>4, QuietUpdaterStep
<1>13. CASE EndDownload(i)
  <2>1. operations' = [operations EXCEPT ![i] = Ended(operations[i])]
        /\ candidates' = [candidates EXCEPT ![operations[i].candidate].downloaded = TRUE]
        /\ UNCHANGED <<updatePhase, update, pendingUpdate, installed>>
    BY <1>13 DEF EndDownload, SetOperation
  <2>2. Ended(operations[i]) \in Operation /\ Ended(operations[i]).at = "ended"
    BY <1>5, EndedOperation
  <2>3. /\ candidates' \in Seq(Candidate) /\ Len(candidates') = Len(candidates)
        /\ \A c \in 1..Len(candidates) : candidates'[c].version = candidates[c].version
    BY <2>1, <1>1, DownloadedCandidates
  <2>4. QED
    BY <2>1, <2>2, <2>3, <1>1, <1>3, <1>4, QuietUpdaterStep
<1>14. CASE EndInstall(i)
  BY <1>14, <1>3, <1>4, UpdateInstalled
<1>15. QED
  BY <1>2, <1>6, <1>7, <1>8, <1>9, <1>10, <1>11, <1>12, <1>13, <1>14 DEF OperationFails

\* A click, a change of the page or a new version keeps the invariant.
LEMMA PageKeeps ==
  ASSUME UpdateInv, ClickCheck \/ ClickDownload \/ ClickInstall \/ RelaunchFails \/ LeavePage \/ OpenPage \/ Publish
  PROVE  UpdateInv'
<1>1. updatePage \in Nat /\ newest \in Nat
  BY DEF UpdateInv, UpdaterTypeOK
<1>2. CASE ClickCheck \/ ClickDownload \/ ClickInstall
  <2>1. PICK kind \in {"check", "download", "install"} : StartOperation(kind)
    BY <1>2 DEF ClickCheck, ClickDownload, ClickInstall
  <2>2. update' \in {update, NoVersion} /\ (updatePhase' = "restart-required" => updatePhase = "restart-required")
    BY <1>2 DEF ClickCheck, ClickDownload, ClickInstall, ShowAt, Reduced
  <2>3. QED
    BY <2>1, <2>2, <1>1, PageStepKeeps DEF StartOperation, versions
<1>3. CASE RelaunchFails \/ LeavePage \/ OpenPage \/ Publish
  <2>1. UNCHANGED <<operations, candidates, pendingUpdate, current, installed, crossed>>
    BY <1>3 DEF RelaunchFails, LeavePage, OpenPage, Publish, pluginState, versions
  <2>2. updatePage' \in Nat /\ newest' \in Nat
    BY <1>1, <1>3 DEF RelaunchFails, LeavePage, OpenPage, Publish, pageState, versions
  <2>3. update' \in {update, NoVersion} /\ (updatePhase' = "restart-required" => updatePhase = "restart-required")
    BY <1>3 DEF RelaunchFails, LeavePage, OpenPage, Publish, pageState, ShowAt, Reduced
  <2>4. QED
    BY <2>1, <2>2, <2>3, PageStepKeeps
<1>4. QED
  BY <1>2, <1>3

\* The updates found are newer than the program, and the page names the one kept.
THEOREM UpdateInvariant == UpdateSpec => []UpdateInv
<1>1. UpdateInit => UpdateInv
  BY EmptySeq DEF UpdateInit, UpdateInv, UpdaterTypeOK, FoundInv, InstallInv, RestartInv, NoCandidate, NoVersion
<1>2. UpdateInv /\ [UpdateNext]_updateVars => UpdateInv'
  <2> SUFFICES ASSUME UpdateInv, [UpdateNext]_updateVars PROVE UpdateInv'
    OBVIOUS
  <2>1. CASE UpdateNext
    BY <2>1, PageKeeps, RelaunchKeeps, UpdaterStepKeeps DEF UpdateNext
  <2>2. CASE UNCHANGED updateVars
    BY <2>2 DEF updateVars, pageState, pluginState, versions, UpdateInv, UpdaterTypeOK, FoundInv,
                InstallInv, RestartInv, Names, Installing
  <2>3. QED
    BY <2>1, <2>2
<1>3. QED
  BY <1>1, <1>2, PTL DEF UpdateSpec

\* An update installs what the page names, and the restart it asks for is into it.
THEOREM UpdatesAreAlwaysHonest == UpdateSpec => []UpdatesAreHonest
<1>1. ASSUME UpdateInv PROVE UpdatesAreHonest
  <2>1. DOMAIN operations = 1..Len(operations)
    BY LenProperties DEF UpdateInv, UpdaterTypeOK
  <2>2. InstallsWhatItNames
    BY <1>1, <2>1 DEF UpdateInv, InstallInv, InstallsWhatItNames, Names
  <2>3. RestartIsIntoTheUpdate
    BY <1>1 DEF UpdateInv, RestartInv, RestartIsIntoTheUpdate
  <2>4. QED
    BY <2>2, <2>3 DEF UpdatesAreHonest
<1>2. QED
  BY <1>1, UpdateInvariant, PTL

-----------------------------------------------------------------------------
(***************************************************************************)
(* The page and its federated application (WebRuntime), with and without   *)
(* the replay of a development build.                                      *)
(*                                                                         *)
(* The remote can replace one mount of a container by another.  The shell  *)
(* never needs it to: an attempt follows another one in its container only *)
(* after that one has come to nothing, so that at most one mount of a      *)
(* container is under way or rendered (OrderInv).                          *)
(***************************************************************************)
(* The attempt shown is the one that is not disposed; the others are behind it.           *)
ShownInv ==
  /\ view = NoView => phase = "loading"
  /\ view # NoView => Current \in Attempts /\ effect[Current].at # "none" /\ ~effect[Current].disposed
  /\ \A e \in Attempts : effect[e].at # "none" =>
       /\ e = Current \/ effect[e].disposed
       /\ e[1] <= view /\ (e[1] = view => e[2] <= attempt)

(* A mount that is not cancelled is the attempt's that is shown, and the pending one of the *)
(* container; that attempt's mount is cancelled only because it failed.                   *)
MountInv ==
  /\ \A e \in Attempts :
       /\ effect[e].loaded <=> mount[e].at # "none"
       /\ effect[e].at \in {"none", "loading"} => mount[e].at = "none"
       /\ mount[e].cancelled => mount[e].at # "none"
       /\ mount[e].at # "none" /\ ~mount[e].cancelled => e = Current /\ pending[e[1]] = e
       /\ mount[e].at = "rejected" => mount[e].cancelled
       /\ e = Current /\ mount[e].cancelled => mount[e].at = "rejected"
  /\ \A v \in Views : pending[v] # None =>
       pending[v][1] = v /\ mount[pending[v]].at # "none" /\ ~mount[pending[v]].cancelled

(* An attempt is followed by another one in its container only when it has come to nothing. *)
OrderInv ==
  \A e, o \in Attempts :
    e[1] = o[1] /\ e[2] < o[2] /\ effect[o].at # "none" => mount[e].at \in {"none", "rejected"}

(* What is recorded of a container is the one root in it; a mount that has rendered and is *)
(* not cancelled is recorded, and a cancelled one only until it cleans up.                *)
RecordInv ==
  /\ \A v \in Views : record[v] # None => record[v][1] = v /\ record[v] \in roots
  /\ \A e \in roots : record[e[1]] = e
  /\ \A e \in Attempts :
       /\ record[e[1]] = e => mount[e].at = "rendered" \/ (mount[e].at = "returned" /\ ~mount[e].cancelled)
       /\ mount[e].at = "rendering" => record[e[1]] = None
       /\ mount[e].at \in {"rendered", "returned"} /\ ~mount[e].cancelled => record[e[1]] = e

(* What the page says is what became of the mount of the attempt shown.                   *)
PhaseInv ==
  /\ phase = "ready" => effect[Current].at = "ended" /\ mount[Current].at = "returned"
  /\ phase = "error" => effect[Current].at = "ended" /\ mount[Current].at \in {"none", "rejected"}

WebInv == TypeOK /\ ShownInv /\ MountInv /\ OrderInv /\ RecordInv /\ PhaseInv

Effect == [at : {"none", "loading", "mounting", "ended"}, disposed : BOOLEAN, loaded : BOOLEAN]
Mount  == [at : {"none", "waiting", "importing", "rendering", "rendered", "returned", "rejected"},
           cancelled : BOOLEAN]

\* What changing a field of a mount or an effect leaves of the others.
LEMMA MountFields ==
  ASSUME NEW x \in Mount, NEW at \in {"waiting", "importing", "rendering", "rendered", "returned", "rejected"}
  PROVE  /\ [x EXCEPT !.at = at] \in Mount /\ [x EXCEPT !.at = at].at = at
         /\ [x EXCEPT !.at = at].cancelled = x.cancelled
         /\ [x EXCEPT !.cancelled = TRUE] \in Mount /\ [x EXCEPT !.cancelled = TRUE].at = x.at
         /\ [x EXCEPT !.cancelled = TRUE].cancelled = TRUE
         /\ [at |-> "waiting", cancelled |-> FALSE] \in Mount
         /\ [at |-> "rejected", cancelled |-> TRUE] \in Mount
BY DEF Mount

LEMMA EffectFields ==
  ASSUME NEW x \in Effect, NEW at \in {"loading", "mounting", "ended"}
  PROVE  /\ [x EXCEPT !.at = at] \in Effect /\ [x EXCEPT !.at = at].at = at
         /\ [x EXCEPT !.at = at].disposed = x.disposed
         /\ [x EXCEPT !.at = at].loaded = x.loaded
         /\ [x EXCEPT !.at = at, !.loaded = TRUE] \in Effect /\ [x EXCEPT !.at = at, !.loaded = TRUE].at = at
         /\ [x EXCEPT !.at = at, !.loaded = TRUE].disposed = x.disposed
         /\ [x EXCEPT !.at = at, !.loaded = TRUE].loaded = TRUE
         /\ [x EXCEPT !.disposed = TRUE] \in Effect /\ [x EXCEPT !.disposed = TRUE].at = x.at
         /\ [x EXCEPT !.disposed = TRUE].disposed = TRUE
         /\ [x EXCEPT !.disposed = TRUE].loaded = x.loaded
BY DEF Effect

\* An attempt is a view and a number.
LEMMA AttemptFacts ==
  ASSUME WebAssumption
  PROVE  /\ \A e \in Attempts : e[1] \in Views /\ e[2] \in 1..MaxAttempts /\ e = <<e[1], e[2]>> /\ e # None
         /\ None \notin Attempts /\ None[1] = 0
         /\ \A v \in Views : v \in Nat /\ v # NoView
         /\ \A v \in Views, n \in 1..MaxAttempts : <<v, n>> \in Attempts /\ <<v, n>>[1] = v /\ <<v, n>>[2] = n
BY DEF WebAssumption, Attempts, Views, None, NoView

LEMMA TypeFacts ==
  ASSUME TypeOK
  PROVE  /\ \A e \in Attempts : effect[e] \in Effect /\ mount[e] \in Mount
         /\ effect = [e \in Attempts |-> effect[e]] /\ mount = [e \in Attempts |-> mount[e]]
         /\ DOMAIN effect = Attempts /\ DOMAIN mount = Attempts
         /\ pending \in [Views -> Attempts \cup {None}] /\ record \in [Views -> Attempts \cup {None}]
BY DEF TypeOK, Effect, Mount

LEMMA WebInitially == ASSUME WebAssumption, Init PROVE WebInv
<1>1. TypeOK
  BY DEF Init, TypeOK, WebAssumption, NoEffect, NoMount, NoView
<1>2. \A e \in Attempts : effect[e].at = "none" /\ ~effect[e].loaded /\ mount[e].at = "none" /\ ~mount[e].cancelled
  BY DEF Init, NoEffect, NoMount
<1>3. ShownInv /\ PhaseInv
  BY <1>2 DEF Init, ShownInv, PhaseInv, NoView
<1>4. MountInv /\ OrderInv
  BY <1>2 DEF Init, MountInv, OrderInv
<1>5. RecordInv
  BY <1>2, AttemptFacts DEF Init, RecordInv
<1>6. QED
  BY <1>1, <1>3, <1>4, <1>5 DEF WebInv

\* Loads that arrive change nothing of the page and the remote.
LEMMA LoadsKeep ==
  ASSUME WebInv, TypeOK', UNCHANGED <<page, effect, remote>>
  PROVE  WebInv'
<1>1. UNCHANGED <<view, attempt, phase, effect, mount, pending, record, roots, Current>>
  BY DEF page, remote, Current
<1>2. ShownInv' /\ PhaseInv' /\ MountInv'
  BY <1>1 DEF WebInv, ShownInv, PhaseInv, MountInv
<1>3. OrderInv' /\ RecordInv'
  BY <1>1 DEF WebInv, OrderInv, RecordInv
<1>4. QED
  BY <1>2, <1>3 DEF WebInv

\* The mount of the attempt shown, as long as it is not cancelled, is the pending one.
LEMMA CurrentMount ==
  ASSUME WebAssumption, WebInv, NEW e \in Attempts, mount[e].at # "none"
  PROVE  /\ IsCurrentMount(e) <=> ~mount[e].cancelled
         /\ IsCurrentMount(e) => e = Current
BY DEF WebInv, MountInv, IsCurrentMount

\* What is rendered in a container is unmounted.
LEMMA UnrenderFacts ==
  ASSUME TypeOK, NEW v \in Views, Unrender(v)
  PROVE  /\ record' \in [Views -> Attempts \cup {None}] /\ roots' \subseteq Attempts
         /\ record'[v] = None /\ roots' = roots \ {record[v]}
         /\ \A u \in Views : u # v => record'[u] = record[u]
BY DEF TypeOK, Unrender

\* One mount goes on.
LEMMA SetMountFacts ==
  ASSUME TypeOK, NEW e \in Attempts,
         NEW at \in {"waiting", "importing", "rendering", "rendered", "returned", "rejected"}, SetMount(e, at)
  PROVE  /\ mount' \in [Attempts -> Mount] /\ mount'[e].at = at /\ mount'[e].cancelled = mount[e].cancelled
         /\ \A o \in Attempts : o # e => mount'[o] = mount[o]
<1>1. mount[e] \in Mount
  BY TypeFacts
<1>2. mount'[e] = [mount[e] EXCEPT !.at = at] /\ \A o \in Attempts : o # e => mount'[o] = mount[o]
  BY TypeFacts DEF SetMount
<1>3. mount'[e] \in Mount /\ mount'[e].at = at /\ mount'[e].cancelled = mount[e].cancelled
  <2>1. /\ [mount[e] EXCEPT !.at = at] \in Mount /\ [mount[e] EXCEPT !.at = at].at = at
        /\ [mount[e] EXCEPT !.at = at].cancelled = mount[e].cancelled
    <3> DEFINE x == mount[e]
    <3>1. x \in Mount
      BY <1>1
    <3> HIDE DEF x
    <3>2. /\ [x EXCEPT !.at = at] \in Mount /\ [x EXCEPT !.at = at].at = at
          /\ [x EXCEPT !.at = at].cancelled = x.cancelled
      BY <3>1 DEF Mount
    <3>3. QED
      BY <3>2 DEF x
  <2>2. QED
    BY <1>2, <2>1, Zenon
<1>4. mount' = [o \in Attempts |-> mount'[o]]
  BY TypeFacts DEF SetMount
<1>5. \A o \in Attempts : mount'[o] \in Mount
  BY <1>2, <1>3, TypeFacts
<1>6. QED
  BY <1>2, <1>3, <1>4, <1>5

\* A mount that goes on to `at' while the page, its effects and the pending mounts stay.
LEMMA MountGoesOn ==
  ASSUME WebAssumption, WebInv, NEW e \in Attempts,
         NEW at \in {"importing", "rendering", "rendered", "returned", "rejected"},
         mount[e].at \in {"waiting", "importing", "rendering", "rendered"},
         mount' \in [Attempts -> Mount], mount'[e].at = at,
         \A o \in Attempts : o # e => mount'[o] = mount[o],
         pending' \in [Views -> Attempts \cup {None}],
         \A v \in Views : v # e[1] => pending'[v] = pending[v],
         \/ mount'[e].cancelled = mount[e].cancelled /\ pending'[e[1]] = pending[e[1]]
         \/ mount'[e].cancelled /\ pending'[e[1]] = None /\ at = "rejected" /\ ~mount[e].cancelled,
         at = "rejected" => mount'[e].cancelled,
         UNCHANGED <<page, effect>>
  PROVE  ShownInv' /\ MountInv' /\ OrderInv' /\ PhaseInv'
<1>1. /\ UNCHANGED <<view, attempt, phase, effect, Current>>
      /\ TypeOK /\ ShownInv /\ MountInv /\ OrderInv /\ PhaseInv
  BY DEF page, Current, WebInv
<1>2. e[1] \in Views /\ e # None
  BY AttemptFacts
<1>3. ShownInv'
  BY <1>1 DEF ShownInv
<1>4. effect[e].loaded /\ effect[e].at \notin {"none", "loading"}
  BY <1>1 DEF MountInv
<1>5. MountInv'
  <2>1. ASSUME NEW o \in Attempts
        PROVE  /\ effect'[o].loaded <=> mount'[o].at # "none"
               /\ effect'[o].at \in {"none", "loading"} => mount'[o].at = "none"
               /\ mount'[o].cancelled => mount'[o].at # "none"
               /\ mount'[o].at # "none" /\ ~mount'[o].cancelled => o = Current' /\ pending'[o[1]] = o
               /\ mount'[o].at = "rejected" => mount'[o].cancelled
               /\ o = Current' /\ mount'[o].cancelled => mount'[o].at = "rejected"
    <3>1. CASE o # e
      <4>1. mount'[o] = mount[o]
        BY <3>1
      <4>2. mount[o].at # "none" /\ ~mount[o].cancelled => o = Current /\ pending[o[1]] = o
        BY <1>1 DEF MountInv
      <4>3. mount[o].at # "none" /\ ~mount[o].cancelled => pending'[o[1]] = o
        <5> SUFFICES ASSUME mount[o].at # "none" /\ ~mount[o].cancelled PROVE pending'[o[1]] = o
          OBVIOUS
        <5>1. e # Current
          BY <4>2, <3>1
        <5>2. mount[e].cancelled
          BY <5>1, <1>1 DEF MountInv
        <5>3. o[1] \in Views
          BY AttemptFacts
        <5>4. QED
          BY <4>2, <5>2, <5>3
      <4>4. QED
        BY <4>1, <4>2, <4>3, <1>1 DEF MountInv
    <3>2. CASE o = e
      <4>1. effect'[o].loaded /\ effect'[o].at \notin {"none", "loading"} /\ mount'[o].at # "none"
        BY <3>2, <1>1, <1>4
      <4>2. ~mount'[o].cancelled => o = Current' /\ pending'[o[1]] = o
        BY <3>2, <1>1 DEF MountInv
      <4>3. o = Current' /\ mount'[o].cancelled => mount'[o].at = "rejected"
        BY <3>2, <1>1 DEF MountInv
      <4>4. QED
        BY <4>1, <4>2, <4>3, <3>2
    <3>3. QED
      BY <3>1, <3>2
  <2>2. ASSUME NEW v \in Views, pending'[v] # None
        PROVE  pending'[v][1] = v /\ mount'[pending'[v]].at # "none" /\ ~mount'[pending'[v]].cancelled
    <3>1. pending'[v] = pending[v]
      BY <2>2
    <3>2. pending[v] \in Attempts /\ pending[v][1] = v /\ mount[pending[v]].at # "none" /\ ~mount[pending[v]].cancelled
      BY <2>2, <3>1, <1>1 DEF MountInv, TypeOK
    <3>3. CASE pending[v] = e
      <4>1. mount'[e].cancelled = mount[e].cancelled
        BY <2>2, <3>1, <3>2, <3>3
      <4>2. QED
        BY <3>1, <3>2, <3>3, <4>1
    <3>4. CASE pending[v] # e
      BY <3>1, <3>2, <3>4
    <3>5. QED
      BY <3>3, <3>4
  <2>3. QED
    BY <2>1, <2>2 DEF MountInv
<1>6. OrderInv'
  <2> SUFFICES ASSUME NEW d \in Attempts, NEW o \in Attempts, d[1] = o[1], d[2] < o[2], effect'[o].at # "none"
               PROVE  mount'[d].at \in {"none", "rejected"}
    BY DEF OrderInv
  <2>1. mount[d].at \in {"none", "rejected"}
    BY <1>1 DEF OrderInv
  <2>2. QED
    BY <2>1
<1>7. PhaseInv'
  <2>1. phase = "loading" \/ Current \notin Attempts \/ mount[Current].at \in {"returned", "none", "rejected"}
    BY <1>1 DEF PhaseInv, TypeOK
  <2>2. phase # "loading" => Current # e /\ Current \in Attempts
    BY <2>1, <1>1 DEF PhaseInv, ShownInv, TypeOK
  <2>3. QED
    BY <1>1, <2>2 DEF PhaseInv, TypeOK
<1>8. QED
  BY <1>3, <1>5, <1>6, <1>7

\* No other mount of the container is under way, or has rendered there.
LEMMA AloneInContainer ==
  ASSUME WebAssumption, WebInv, NEW e \in Attempts, NEW o \in Attempts, e # o, e[1] = o[1],
         mount[e].at \notin {"none", "rejected"}
  PROVE  mount[o].at \in {"none", "rejected"} /\ record[e[1]] # o
<1>1. e[2] # o[2] /\ e[2] \in Nat /\ o[2] \in Nat
  BY AttemptFacts
<1>2. effect[e].at # "none"
  BY DEF WebInv, MountInv
<1>3. mount[o].at \in {"none", "rejected"}
  <2>1. CASE o[2] < e[2]
    BY <2>1, <1>2 DEF WebInv, OrderInv
  <2>2. CASE e[2] < o[2] /\ effect[o].at # "none"
    BY <2>2 DEF WebInv, OrderInv
  <2>3. CASE effect[o].at = "none"
    BY <2>3 DEF WebInv, MountInv
  <2>4. QED
    BY <1>1, <2>1, <2>2, <2>3
<1>4. QED
  BY <1>3 DEF WebInv, RecordInv

\* The parts of the type invariant that the remote's steps can disturb.
LEMMA TypesStay ==
  ASSUME TypeOK, UNCHANGED <<page, effect>>,
         policy' \in {"none", "pending", "ok"},
         module' \in [Releases -> {"none", "policy", "fetch", "ok"}],
         runtime' \in [Releases -> {"none", "pending", "ok"}],
         mount' \in [Attempts -> Mount],
         pending' \in [Views -> Attempts \cup {None}],
         record' \in [Views -> Attempts \cup {None}],
         roots' \subseteq Attempts, faults' \in 0..MaxFaults
  PROVE  TypeOK'
BY Zenon DEF TypeOK, page, Mount

\* The previous mount has settled: the runtime is imported unless this one was cancelled.
LEMMA ReplaceKeeps ==
  ASSUME WebAssumption, WebInv, NEW e \in Attempts, Replace(e)
  PROVE  WebInv'
<1>1. TypeOK /\ RecordInv /\ MountInv
  BY DEF WebInv
<1>2. /\ mount[e].at = "waiting"
      /\ UNCHANGED <<page, effect, policy, module, pending, record, roots, faults>>
      /\ IF IsCurrentMount(e) THEN SetMount(e, "importing") ELSE SetMount(e, "returned") /\ UNCHANGED runtime
      /\ IsCurrentMount(e) =>
           runtime' = [runtime EXCEPT ![ReleaseOf[e[1]]] = IF @ = "none" THEN "pending" ELSE @]
  BY DEF Replace
<1>3. PICK at \in {"importing", "returned"} : SetMount(e, at) /\ (at = "returned" => mount[e].cancelled)
  BY <1>2, CurrentMount
<1>4. /\ mount' \in [Attempts -> Mount] /\ mount'[e].at = at /\ mount'[e].cancelled = mount[e].cancelled
      /\ \A o \in Attempts : o # e => mount'[o] = mount[o]
  BY <1>1, <1>3, SetMountFacts
<1>5. runtime' \in [Releases -> {"none", "pending", "ok"}]
  BY <1>1, <1>2 DEF TypeOK
<1>6. TypeOK'
  BY <1>1, <1>2, <1>4, <1>5, TypesStay DEF TypeOK
<1>7. ShownInv' /\ MountInv' /\ OrderInv' /\ PhaseInv'
  BY <1>1, <1>2, <1>4, MountGoesOn DEF TypeOK
<1>8. RecordInv'
  <2>1. ASSUME NEW o \in Attempts
        PROVE  /\ record'[o[1]] = o => mount'[o].at = "rendered" \/ (mount'[o].at = "returned" /\ ~mount'[o].cancelled)
               /\ mount'[o].at = "rendering" => record'[o[1]] = None
               /\ mount'[o].at \in {"rendered", "returned"} /\ ~mount'[o].cancelled => record'[o[1]] = o
    <3>1. CASE o = e
      BY <3>1, <1>1, <1>2, <1>3, <1>4 DEF RecordInv
    <3>2. CASE o # e
      BY <3>2, <1>1, <1>2, <1>4 DEF RecordInv
    <3>3. QED
      BY <3>1, <3>2
  <2>2. QED
    BY <2>1, <1>1, <1>2 DEF RecordInv
<1>9. QED
  BY <1>6, <1>7, <1>8 DEF WebInv

\* What was recorded of a container is unmounted, by a mount that renders, failed or was cancelled.
LEMMA UnrenderedKeeps ==
  ASSUME WebAssumption, WebInv, NEW e \in Attempts,
         mount[e].at \notin {"none", "rejected"},
         mount' \in [Attempts -> Mount], \A o \in Attempts : o # e => mount'[o] = mount[o],
         Unrender(e[1]),
         mount'[e].at \in {"rendering", "rejected", "waiting", "importing"} \/ mount'[e].cancelled
  PROVE  RecordInv'
<1>1. TypeOK /\ RecordInv /\ e[1] \in Views
  BY AttemptFacts DEF WebInv
<1>2. /\ record'[e[1]] = None /\ roots' = roots \ {record[e[1]]}
      /\ \A u \in Views : u # e[1] => record'[u] = record[u]
  BY <1>1, UnrenderFacts
<1>3. ASSUME NEW v \in Views, record'[v] # None PROVE record'[v][1] = v /\ record'[v] \in roots'
  <2>1. v # e[1] /\ record'[v] = record[v] /\ record[v][1] = v /\ record[v] \in roots
    BY <1>1, <1>2, <1>3 DEF RecordInv
  <2>2. record[v] # record[e[1]]
    <3>1. record[e[1]] # None => record[e[1]][1] = e[1]
      BY <1>1 DEF RecordInv
    <3>2. QED
      BY <2>1, <3>1, <1>3
  <2>3. QED
    BY <2>1, <2>2, <1>2
<1>4. ASSUME NEW o \in roots' PROVE record'[o[1]] = o
  <2>1. o \in roots /\ record[o[1]] = o /\ o \in Attempts /\ o[1] \in Views
    BY <1>1, <1>2, AttemptFacts DEF RecordInv, TypeOK
  <2>2. o[1] # e[1]
    BY <2>1, <1>2
  <2>3. QED
    BY <2>1, <2>2, <1>2
<1>5. ASSUME NEW o \in Attempts
      PROVE  /\ record'[o[1]] = o => mount'[o].at = "rendered" \/ (mount'[o].at = "returned" /\ ~mount'[o].cancelled)
             /\ mount'[o].at = "rendering" => record'[o[1]] = None
             /\ mount'[o].at \in {"rendered", "returned"} /\ ~mount'[o].cancelled => record'[o[1]] = o
  <2>1. o[1] \in Views /\ o # None
    BY AttemptFacts
  <2>2. CASE o = e
    BY <2>1, <2>2, <1>2
  <2>3. CASE o # e /\ o[1] = e[1]
    <3>1. mount[o].at \in {"none", "rejected"}
      BY <2>3, AloneInContainer
    <3>2. QED
      BY <2>1, <2>3, <3>1, <1>2
  <2>4. CASE o[1] # e[1]
    BY <2>1, <2>4, <1>1, <1>2 DEF RecordInv
  <2>5. QED
    BY <2>2, <2>3, <2>4
<1>6. QED
  BY <1>3, <1>4, <1>5 DEF RecordInv

\* The runtime is there: what was rendered goes, and this application is rendered.
LEMMA StartRenderingKeeps ==
  ASSUME WebAssumption, WebInv, NEW e \in Attempts, StartRendering(e)
  PROVE  WebInv'
<1>1. TypeOK /\ RecordInv /\ MountInv /\ e[1] \in Views
  BY AttemptFacts DEF WebInv
<1>2. mount[e].at = "importing" /\ UNCHANGED <<page, effect, loads, pending, faults>>
  BY DEF StartRendering
<1>3. CASE IsCurrentMount(e)
  <2>1. SetMount(e, "rendering") /\ Unrender(e[1])
    BY <1>3 DEF StartRendering
  <2>2. /\ mount' \in [Attempts -> Mount] /\ mount'[e].at = "rendering" /\ mount'[e].cancelled = mount[e].cancelled
        /\ \A o \in Attempts : o # e => mount'[o] = mount[o]
    BY <2>1, <1>1, SetMountFacts
  <2>3. TypeOK'
    BY <2>1, <2>2, <1>1, <1>2, TypesStay, UnrenderFacts DEF TypeOK, loads
  <2>4. RecordInv'
    BY <2>1, <2>2, <1>2, UnrenderedKeeps
  <2>5. QED
    BY <2>2, <2>3, <2>4, <1>1, <1>2, MountGoesOn DEF TypeOK, WebInv
<1>4. CASE ~IsCurrentMount(e)
  <2>1. SetMount(e, "returned") /\ UNCHANGED <<record, roots>> /\ mount[e].cancelled
    BY <1>2, <1>4, CurrentMount DEF StartRendering
  <2>2. /\ mount' \in [Attempts -> Mount] /\ mount'[e].at = "returned" /\ mount'[e].cancelled = mount[e].cancelled
        /\ \A o \in Attempts : o # e => mount'[o] = mount[o]
    BY <2>1, <1>1, SetMountFacts
  <2>3. TypeOK'
    BY <2>1, <2>2, <1>1, <1>2, TypesStay DEF TypeOK, loads
  <2>4. RecordInv'
    <3>1. ASSUME NEW o \in Attempts
          PROVE  /\ record'[o[1]] = o => mount'[o].at = "rendered" \/ (mount'[o].at = "returned" /\ ~mount'[o].cancelled)
                 /\ mount'[o].at = "rendering" => record'[o[1]] = None
                 /\ mount'[o].at \in {"rendered", "returned"} /\ ~mount'[o].cancelled => record'[o[1]] = o
      <4>1. CASE o = e
        BY <4>1, <1>1, <1>2, <2>1, <2>2 DEF RecordInv
      <4>2. CASE o # e
        BY <4>2, <1>1, <2>1, <2>2 DEF RecordInv
      <4>3. QED
        BY <4>1, <4>2
    <3>2. QED
      BY <3>1, <1>1, <2>1 DEF RecordInv
  <2>5. QED
    BY <2>2, <2>3, <2>4, <1>1, <1>2, MountGoesOn DEF TypeOK, WebInv
<1>5. QED
  BY <1>3, <1>4

\* The application is in its container.
LEMMA RenderKeeps ==
  ASSUME WebAssumption, WebInv, NEW e \in Attempts, Render(e)
  PROVE  WebInv'
<1>1. TypeOK /\ RecordInv /\ MountInv /\ e[1] \in Views /\ e # None
  BY AttemptFacts DEF WebInv
<1>2. /\ mount[e].at = "rendering" /\ UNCHANGED <<page, effect, loads, pending, faults>>
      /\ SetMount(e, "rendered") /\ roots' = roots \cup {e} /\ record' = [record EXCEPT ![e[1]] = e]
  BY DEF Render
<1>3. /\ mount' \in [Attempts -> Mount] /\ mount'[e].at = "rendered" /\ mount'[e].cancelled = mount[e].cancelled
      /\ \A o \in Attempts : o # e => mount'[o] = mount[o]
  BY <1>1, <1>2, SetMountFacts
<1>4. /\ record' \in [Views -> Attempts \cup {None}] /\ record'[e[1]] = e
      /\ \A u \in Views : u # e[1] => record'[u] = record[u]
  BY <1>1, <1>2 DEF TypeOK
<1>5. TypeOK'
  BY <1>1, <1>2, <1>3, <1>4, TypesStay DEF TypeOK, loads
<1>6. RecordInv'
  <2>1. ASSUME NEW v \in Views, record'[v] # None PROVE record'[v][1] = v /\ record'[v] \in roots'
    BY <2>1, <1>1, <1>2, <1>4 DEF RecordInv
  <2>2. ASSUME NEW o \in roots' PROVE record'[o[1]] = o
    <3>1. CASE o = e
      BY <3>1, <1>4
    <3>2. CASE o # e
      <4>1. o \in roots /\ record[o[1]] = o /\ o \in Attempts /\ o[1] \in Views /\ o # None
        BY <3>2, <1>1, <1>2, AttemptFacts DEF RecordInv, TypeOK
      <4>2. o[1] # e[1]
        BY <4>1, <1>1, <1>2 DEF RecordInv
      <4>3. QED
        BY <4>1, <4>2, <1>4
    <3>3. QED
      BY <3>1, <3>2
  <2>3. ASSUME NEW o \in Attempts
        PROVE  /\ record'[o[1]] = o => mount'[o].at = "rendered" \/ (mount'[o].at = "returned" /\ ~mount'[o].cancelled)
               /\ mount'[o].at = "rendering" => record'[o[1]] = None
               /\ mount'[o].at \in {"rendered", "returned"} /\ ~mount'[o].cancelled => record'[o[1]] = o
    <3>1. CASE o = e
      BY <3>1, <1>3, <1>4
    <3>2. CASE o # e /\ o[1] = e[1]
      <4>1. mount[o].at \in {"none", "rejected"}
        BY <3>2, <1>2, AloneInContainer
      <4>2. QED
        BY <3>2, <4>1, <1>3, <1>4
    <3>3. CASE o[1] # e[1]
      BY <3>3, <1>1, <1>3, <1>4, AttemptFacts DEF RecordInv
    <3>4. QED
      BY <3>1, <3>2, <3>3
  <2>4. QED
    BY <2>1, <2>2, <2>3 DEF RecordInv
<1>7. QED
  BY <1>1, <1>2, <1>3, <1>5, <1>6, MountGoesOn DEF TypeOK, WebInv

\* A mount ends: cancelled meanwhile, it takes its application away again.
LEMMA FinishMountKeeps ==
  ASSUME WebAssumption, WebInv, NEW e \in Attempts, FinishMount(e)
  PROVE  WebInv'
<1>1. TypeOK /\ RecordInv /\ MountInv /\ e[1] \in Views
  BY AttemptFacts DEF WebInv
<1>2. mount[e].at = "rendered" /\ UNCHANGED <<page, effect, loads, pending, faults>> /\ SetMount(e, "returned")
  BY DEF FinishMount
<1>3. /\ mount' \in [Attempts -> Mount] /\ mount'[e].at = "returned" /\ mount'[e].cancelled = mount[e].cancelled
      /\ \A o \in Attempts : o # e => mount'[o] = mount[o]
  BY <1>1, <1>2, SetMountFacts
<1>4. CASE IsCurrentMount(e)
  <2>1. UNCHANGED <<record, roots>> /\ ~mount[e].cancelled
    BY <1>2, <1>4, CurrentMount DEF FinishMount
  <2>2. TypeOK'
    BY <2>1, <1>1, <1>2, <1>3, TypesStay DEF TypeOK, loads
  <2>3. RecordInv'
    <3>1. ASSUME NEW o \in Attempts
          PROVE  /\ record'[o[1]] = o => mount'[o].at = "rendered" \/ (mount'[o].at = "returned" /\ ~mount'[o].cancelled)
                 /\ mount'[o].at = "rendering" => record'[o[1]] = None
                 /\ mount'[o].at \in {"rendered", "returned"} /\ ~mount'[o].cancelled => record'[o[1]] = o
      <4>1. CASE o = e
        BY <4>1, <1>1, <1>2, <1>3, <2>1 DEF RecordInv
      <4>2. CASE o # e
        BY <4>2, <1>1, <1>3, <2>1 DEF RecordInv
      <4>3. QED
        BY <4>1, <4>2
    <3>2. QED
      BY <3>1, <1>1, <2>1 DEF RecordInv
  <2>4. QED
    BY <2>2, <2>3, <1>1, <1>2, <1>3, MountGoesOn DEF TypeOK, WebInv
<1>5. CASE ~IsCurrentMount(e)
  <2>1. Unrender(e[1]) /\ mount[e].cancelled
    BY <1>2, <1>5, CurrentMount DEF FinishMount
  <2>2. TypeOK'
    BY <2>1, <1>1, <1>2, <1>3, TypesStay, UnrenderFacts DEF TypeOK, loads
  <2>3. mount'[e].cancelled
    BY <2>1, <1>3
  <2>4. RecordInv'
    BY <2>1, <2>3, <1>2, <1>3, UnrenderedKeeps
  <2>5. QED
    BY <2>2, <2>4, <1>1, <1>2, <1>3, MountGoesOn DEF TypeOK, WebInv
<1>6. QED
  BY <1>4, <1>5

\* The application does not render: a mount that is not cancelled takes its place away.
LEMMA RenderFailsKeeps ==
  ASSUME WebAssumption, WebInv, NEW e \in Attempts, RenderFails(e)
  PROVE  WebInv'
<1>1. TypeOK /\ RecordInv /\ MountInv /\ e[1] \in Views
  BY AttemptFacts DEF WebInv
<1>2. mount[e].at = "rendering" /\ UNCHANGED <<page, effect, loads>> /\ faults' \in 0..MaxFaults
  BY <1>1 DEF RenderFails, TypeOK, WebAssumption
<1>3. CASE IsCurrentMount(e)
  <2>1. /\ mount' = [mount EXCEPT ![e] = [at |-> "rejected", cancelled |-> TRUE]]
        /\ pending' = [pending EXCEPT ![e[1]] = None] /\ Unrender(e[1]) /\ ~mount[e].cancelled
    BY <1>2, <1>3, CurrentMount DEF RenderFails
  <2>2. /\ mount' \in [Attempts -> Mount] /\ mount'[e].at = "rejected" /\ mount'[e].cancelled
        /\ \A o \in Attempts : o # e => mount'[o] = mount[o]
    <3>1. [at |-> "rejected", cancelled |-> TRUE] \in Mount
      BY DEF Mount
    <3>2. mount'[e] = [at |-> "rejected", cancelled |-> TRUE] /\ \A o \in Attempts : o # e => mount'[o] = mount[o]
      BY <2>1, <1>1, TypeFacts
    <3>3. mount' = [o \in Attempts |-> mount'[o]] /\ \A o \in Attempts : mount'[o] \in Mount
      BY <2>1, <3>1, <3>2, <1>1, TypeFacts
    <3>4. QED
      BY <3>2, <3>3
  <2>3. /\ pending' \in [Views -> Attempts \cup {None}] /\ pending'[e[1]] = None
        /\ \A v \in Views : v # e[1] => pending'[v] = pending[v]
    BY <2>1, <1>1 DEF TypeOK
  <2>4. TypeOK'
    BY <2>1, <2>2, <2>3, <1>1, <1>2, TypesStay, UnrenderFacts DEF TypeOK, loads
  <2>5. RecordInv'
    BY <2>1, <2>2, <1>2, UnrenderedKeeps
  <2>6. QED
    BY <2>1, <2>2, <2>3, <2>4, <2>5, <1>2, MountGoesOn DEF WebInv
<1>4. CASE ~IsCurrentMount(e)
  <2>1. SetMount(e, "rejected") /\ UNCHANGED <<pending, record, roots>> /\ mount[e].cancelled
    BY <1>2, <1>4, CurrentMount DEF RenderFails
  <2>2. /\ mount' \in [Attempts -> Mount] /\ mount'[e].at = "rejected" /\ mount'[e].cancelled = mount[e].cancelled
        /\ \A o \in Attempts : o # e => mount'[o] = mount[o]
    BY <2>1, <1>1, SetMountFacts
  <2>3. TypeOK'
    BY <2>1, <2>2, <1>1, <1>2, TypesStay DEF TypeOK, loads
  <2>4. RecordInv'
    <3>1. ASSUME NEW o \in Attempts
          PROVE  /\ record'[o[1]] = o => mount'[o].at = "rendered" \/ (mount'[o].at = "returned" /\ ~mount'[o].cancelled)
                 /\ mount'[o].at = "rendering" => record'[o[1]] = None
                 /\ mount'[o].at \in {"rendered", "returned"} /\ ~mount'[o].cancelled => record'[o[1]] = o
      <4>1. CASE o = e
        BY <4>1, <1>1, <1>2, <2>1, <2>2 DEF RecordInv
      <4>2. CASE o # e
        BY <4>2, <1>1, <2>1, <2>2 DEF RecordInv
      <4>3. QED
        BY <4>1, <4>2
    <3>2. QED
      BY <3>1, <1>1, <2>1 DEF RecordInv
  <2>5. mount'[e].cancelled
    BY <2>1, <2>2
  <2>6. QED
    BY ZenonT(60), <2>1, <2>2, <2>3, <2>4, <2>5, <1>1, <1>2, MountGoesOn DEF TypeOK, WebInv
<1>5. QED
  BY <1>3, <1>4

\* The import of the runtime fails: so does every mount that waits for it.
LEMMA ImportFailsKeeps ==
  ASSUME WebAssumption, WebInv, NEW r \in Releases, ImportFails(r)
  PROVE  WebInv'
<1> DEFINE failed == {e \in Attempts : mount[e].at = "importing" /\ ReleaseOf[e[1]] = r}
<1>1. TypeOK /\ ShownInv /\ MountInv /\ OrderInv /\ RecordInv /\ PhaseInv
  BY DEF WebInv
<1>2. /\ UNCHANGED <<page, effect, policy, module, record, roots>> /\ faults' \in 0..MaxFaults
      /\ runtime' \in [Releases -> {"none", "pending", "ok"}]
      /\ mount' = [e \in Attempts |-> IF e \in failed THEN [at |-> "rejected", cancelled |-> TRUE] ELSE mount[e]]
      /\ pending' = [v \in Views |-> IF pending[v] \in failed THEN None ELSE pending[v]]
  BY <1>1 DEF ImportFails, TypeOK, WebAssumption
<1>3. /\ \A e \in Attempts : e \notin failed => mount'[e] = mount[e]
      /\ \A e \in failed : e \in Attempts /\ mount[e].at = "importing" /\ mount'[e].at = "rejected" /\ mount'[e].cancelled
      /\ mount' \in [Attempts -> Mount]
  <2>1. [at |-> "rejected", cancelled |-> TRUE] \in Mount
    BY DEF Mount
  <2>2. \A e \in Attempts : mount'[e] = IF e \in failed THEN [at |-> "rejected", cancelled |-> TRUE] ELSE mount[e]
    BY <1>2
  <2>3. \A e \in Attempts : mount'[e] \in Mount
    BY <2>1, <2>2, <1>1, TypeFacts
  <2>4. QED
    BY <2>2, <2>3, <1>2
<1> HIDE DEF failed
<1>4. /\ pending' \in [Views -> Attempts \cup {None}]
      /\ \A v \in Views : pending'[v] = IF pending[v] \in failed THEN None ELSE pending[v]
  BY <1>1, <1>2 DEF TypeOK
<1>5. UNCHANGED <<view, attempt, phase, effect, Current, record, roots>>
  BY <1>2 DEF page, Current
<1>6. TypeOK'
  BY <1>1, <1>2, <1>3, <1>4, TypesStay DEF TypeOK
<1>7. ShownInv' /\ OrderInv'
  BY <1>1, <1>3, <1>5 DEF ShownInv, OrderInv
<1>8. MountInv'
  <2>1. ASSUME NEW e \in Attempts
        PROVE  /\ effect'[e].loaded <=> mount'[e].at # "none"
               /\ effect'[e].at \in {"none", "loading"} => mount'[e].at = "none"
               /\ mount'[e].cancelled => mount'[e].at # "none"
               /\ mount'[e].at # "none" /\ ~mount'[e].cancelled => e = Current' /\ pending'[e[1]] = e
               /\ mount'[e].at = "rejected" => mount'[e].cancelled
               /\ e = Current' /\ mount'[e].cancelled => mount'[e].at = "rejected"
    <3>1. CASE e \in failed
      BY <3>1, <1>1, <1>3, <1>5 DEF MountInv
    <3>2. CASE e \notin failed
      BY <3>2, <1>1, <1>3, <1>4, <1>5, AttemptFacts DEF MountInv
    <3>3. QED
      BY <3>1, <3>2
  <2>2. ASSUME NEW v \in Views, pending'[v] # None
        PROVE  pending'[v][1] = v /\ mount'[pending'[v]].at # "none" /\ ~mount'[pending'[v]].cancelled
    <3>1. pending'[v] = pending[v] /\ pending[v] \in Attempts /\ pending[v] \notin failed
      BY <2>2, <1>1, <1>4 DEF TypeOK
    <3>2. mount'[pending[v]] = mount[pending[v]]
      BY <3>1, <1>3
    <3>3. QED
      BY <2>2, <3>1, <3>2, <1>1 DEF MountInv
  <2>3. QED
    BY <2>1, <2>2 DEF MountInv
<1>9. RecordInv'
  <2>1. ASSUME NEW o \in Attempts
        PROVE  /\ record'[o[1]] = o => mount'[o].at = "rendered" \/ (mount'[o].at = "returned" /\ ~mount'[o].cancelled)
               /\ mount'[o].at = "rendering" => record'[o[1]] = None
               /\ mount'[o].at \in {"rendered", "returned"} /\ ~mount'[o].cancelled => record'[o[1]] = o
    <3>1. CASE o \in failed
      BY <3>1, <1>1, <1>3, <1>5 DEF RecordInv
    <3>2. CASE o \notin failed
      BY <3>2, <1>1, <1>3, <1>5 DEF RecordInv
    <3>3. QED
      BY <3>1, <3>2
  <2>2. QED
    BY <2>1, <1>1, <1>5 DEF RecordInv
<1>10. PhaseInv'
  <2>1. phase \in {"ready", "error"} => Current \in Attempts /\ Current \notin failed
    BY <1>1, <1>3 DEF PhaseInv, ShownInv, TypeOK
  <2>2. QED
    BY <2>1, <1>1, <1>3, <1>5 DEF PhaseInv
<1>11. QED
  BY <1>6, <1>7, <1>8, <1>9, <1>10 DEF WebInv

\* A load fails, for every attempt that waits for it.
LEMMA FailedLoadKeeps ==
  ASSUME WebAssumption, WebInv, NEW failed, FailAttempts(failed),
         policy' \in {"none", "pending", "ok"}, module' \in [Releases -> {"none", "policy", "fetch", "ok"}],
         faults' \in 0..MaxFaults, UNCHANGED <<runtime, remote>>
  PROVE  WebInv'
<1> DEFINE over == {e \in Attempts : effect[e].at = "loading" /\ ReleaseOf[e[1]] \in failed}
<1>1. TypeOK /\ ShownInv /\ MountInv /\ OrderInv /\ RecordInv /\ PhaseInv
  BY DEF WebInv
<1>2. /\ effect' = [e \in Attempts |-> IF e \in over THEN [effect[e] EXCEPT !.at = "ended"] ELSE effect[e]]
      /\ phase' = IF Current \in over /\ ~effect[Current].disposed THEN "error" ELSE phase
      /\ UNCHANGED <<view, attempt>>
  BY DEF FailAttempts
<1>3. UNCHANGED <<view, attempt, Current, mount, pending, record, roots>>
  BY <1>2 DEF remote, Current
<1>4. /\ effect' \in [Attempts -> Effect]
      /\ \A e \in Attempts : effect'[e].disposed = effect[e].disposed /\ effect'[e].loaded = effect[e].loaded
      /\ \A e \in Attempts : e \notin over => effect'[e] = effect[e]
      /\ \A e \in over : e \in Attempts /\ effect[e].at = "loading" /\ effect'[e].at = "ended"
  <2>1. ASSUME NEW e \in Attempts
        PROVE  /\ effect'[e] \in Effect
               /\ effect'[e].disposed = effect[e].disposed /\ effect'[e].loaded = effect[e].loaded
               /\ e \notin over => effect'[e] = effect[e]
               /\ e \in over => effect[e].at = "loading" /\ effect'[e].at = "ended"
    <3>1. effect[e] \in Effect
      BY <1>1, TypeFacts
    <3> DEFINE x == effect[e]
    <3>2. effect'[e] = IF e \in over THEN [x EXCEPT !.at = "ended"] ELSE x
      BY SMTT(45), <1>2
    <3>3. e \in over => x.at = "loading"
      BY SMTT(45)
    <3>4. x \in Effect
      BY SMTT(45), <3>1
    <3> HIDE DEF x, over
    <3>5. /\ [x EXCEPT !.at = "ended"] \in Effect /\ [x EXCEPT !.at = "ended"].at = "ended"
          /\ [x EXCEPT !.at = "ended"].disposed = x.disposed /\ [x EXCEPT !.at = "ended"].loaded = x.loaded
      BY <3>4, EffectFields
    <3>6. /\ effect'[e] \in Effect /\ effect'[e].disposed = x.disposed /\ effect'[e].loaded = x.loaded
          /\ e \notin over => effect'[e] = x
          /\ e \in over => x.at = "loading" /\ effect'[e].at = "ended"
      BY <3>2, <3>3, <3>4, <3>5, Zenon
    <3>7. QED
      BY <3>6, Zenon DEF x
  <2>2. QED
    BY <2>1, <1>2
<1> HIDE DEF over
<1>5. TypeOK'
  BY <1>1, <1>2, <1>3, <1>4 DEF TypeOK, Effect
<1>6. ShownInv'
  <2>1. \A e \in Attempts : effect'[e].at = "none" <=> effect[e].at = "none"
    BY <1>4
  <2>2. view = NoView => phase' = "loading"
    <3>1. view = NoView => Current \notin Attempts
      BY AttemptFacts DEF Current, NoView
    <3>2. QED
      BY <3>1, <1>1, <1>2, <1>4 DEF ShownInv
  <2>3. view # NoView => Current \in Attempts /\ effect'[Current].at # "none" /\ ~effect'[Current].disposed
    BY <2>1, <1>1, <1>4 DEF ShownInv
  <2>4. ASSUME NEW e \in Attempts, effect'[e].at # "none"
        PROVE  (e = Current \/ effect'[e].disposed) /\ e[1] <= view /\ (e[1] = view => e[2] <= attempt)
    BY <2>1, <2>4, <1>1, <1>4 DEF ShownInv
  <2>5. QED
    BY <2>2, <2>3, <2>4, <1>3 DEF ShownInv
<1>7. MountInv'
  <2>1. ASSUME NEW e \in Attempts
        PROVE  /\ effect'[e].loaded <=> mount'[e].at # "none"
               /\ effect'[e].at \in {"none", "loading"} => mount'[e].at = "none"
    BY <1>1, <1>3, <1>4 DEF MountInv
  <2>2. QED
    BY <2>1, <1>1, <1>3 DEF MountInv
<1>8. OrderInv'
  BY <1>1, <1>3, <1>4 DEF OrderInv
<1>9. RecordInv'
  BY <1>1, <1>3 DEF RecordInv
<1>10. PhaseInv'
  <2>1. CASE Current \in over /\ ~effect[Current].disposed
    BY <2>1, <1>1, <1>2, <1>3, <1>4 DEF PhaseInv, MountInv
  <2>2. CASE ~(Current \in over /\ ~effect[Current].disposed)
    <3>1. phase' = phase
      BY <2>2, <1>2
    <3>2. phase \in {"ready", "error"} => Current \in Attempts /\ Current \notin over
      BY <1>1, <1>4 DEF PhaseInv, ShownInv, TypeOK
    <3>3. QED
      BY <3>1, <3>2, <1>1, <1>3, <1>4 DEF PhaseInv
  <2>3. QED
    BY <2>1, <2>2
<1>11. QED
  BY <1>5, <1>6, <1>7, <1>8, <1>9, <1>10 DEF WebInv

\* One effect goes on.
LEMMA EffectGoesOn ==
  ASSUME TypeOK, NEW e \in Attempts, NEW next \in Effect,
         effect' = [effect EXCEPT ![e] = next]
  PROVE  /\ effect' \in [Attempts -> Effect] /\ effect'[e] = next
         /\ \A o \in Attempts : o # e => effect'[o] = effect[o]
<1>1. effect'[e] = next /\ \A o \in Attempts : o # e => effect'[o] = effect[o]
  BY TypeFacts
<1>2. effect' = [o \in Attempts |-> effect'[o]] /\ \A o \in Attempts : effect'[o] \in Effect
  BY <1>1, TypeFacts
<1>3. QED
  BY <1>1, <1>2

\* The mount's promise is settled: the page says what became of it, unless it shows another.
LEMMA MountSettledKeeps ==
  ASSUME WebAssumption, WebInv, NEW e \in Attempts, MountSettled(e)
  PROVE  WebInv'
<1> DEFINE x == effect[e]
           next == [x EXCEPT !.at = "ended"]
<1>1. TypeOK /\ ShownInv /\ MountInv /\ OrderInv /\ RecordInv /\ PhaseInv
  BY DEF WebInv
<1>2. /\ effect[e].at = "mounting" /\ mount[e].at \in {"none", "returned", "rejected"}
      /\ UNCHANGED <<view, attempt, loads, remote, faults>>
      /\ phase' = IF effect[e].disposed THEN phase ELSE IF mount[e].at = "returned" THEN "ready" ELSE "error"
      /\ effect' = [effect EXCEPT ![e] = next]
  BY DEF MountSettled, Settled
<1>3. x \in Effect
  BY <1>1, TypeFacts
<1>4. /\ next \in Effect /\ next.at = "ended" /\ next.disposed = effect[e].disposed /\ next.loaded = effect[e].loaded
  BY <1>3 DEF Effect
<1> HIDE DEF next, x
<1>5. /\ effect' \in [Attempts -> Effect] /\ effect'[e] = next
      /\ \A o \in Attempts : o # e => effect'[o] = effect[o]
  BY <1>1, <1>2, <1>4, EffectGoesOn
<1>6. UNCHANGED <<view, attempt, Current, mount, pending, record, roots>>
  BY <1>2 DEF remote, Current
<1>7. TypeOK'
  BY <1>1, <1>2, <1>5 DEF TypeOK, Effect, loads, remote
<1>8. ~effect[e].disposed => e = Current /\ view # NoView
  <2>1. e[1] \in Views /\ e[1] <= view
    BY <1>1, <1>2, AttemptFacts DEF ShownInv
  <2>2. QED
    BY <2>1, <1>1, <1>2 DEF ShownInv, Views, NoView, TypeOK
<1>9. ShownInv'
  <2>1. ASSUME NEW o \in Attempts, effect'[o].at # "none"
        PROVE  (o = Current \/ effect'[o].disposed) /\ o[1] <= view /\ (o[1] = view => o[2] <= attempt)
    <3>1. CASE o = e
      BY <3>1, <1>1, <1>2, <1>4, <1>5 DEF ShownInv
    <3>2. CASE o # e
      BY <3>2, <2>1, <1>1, <1>5 DEF ShownInv
    <3>3. QED
      BY <3>1, <3>2
  <2>2. view # NoView => Current \in Attempts /\ effect'[Current].at # "none" /\ ~effect'[Current].disposed
    BY <1>1, <1>4, <1>5 DEF ShownInv
  <2>3. view = NoView => phase' = "loading"
    BY <1>1, <1>2, <1>8 DEF ShownInv
  <2>4. QED
    BY <2>1, <2>2, <2>3, <1>6 DEF ShownInv
<1>10. MountInv'
  <2>1. ASSUME NEW o \in Attempts
        PROVE  /\ effect'[o].loaded <=> mount'[o].at # "none"
               /\ effect'[o].at \in {"none", "loading"} => mount'[o].at = "none"
    <3>1. CASE o = e
      BY <3>1, <1>1, <1>4, <1>5, <1>6 DEF MountInv
    <3>2. CASE o # e
      BY <3>2, <1>1, <1>5, <1>6 DEF MountInv
    <3>3. QED
      BY <3>1, <3>2
  <2>2. QED
    BY <2>1, <1>1, <1>6 DEF MountInv
<1>11. OrderInv'
  BY <1>1, <1>2, <1>5, <1>6 DEF OrderInv
<1>12. RecordInv'
  BY <1>1, <1>6 DEF RecordInv
<1>13. PhaseInv'
  <2>1. CASE effect[e].disposed
    <3>1. phase \in {"ready", "error"} => Current \in Attempts /\ Current # e
      BY <2>1, <1>1 DEF PhaseInv, ShownInv, TypeOK
    <3>2. QED
      BY <2>1, <3>1, <1>1, <1>2, <1>5, <1>6 DEF PhaseInv
  <2>2. CASE ~effect[e].disposed
    BY <2>2, <1>2, <1>4, <1>5, <1>6, <1>8 DEF PhaseInv
  <2>3. QED
    BY <2>1, <2>2
<1>14. QED
  BY <1>7, <1>9, <1>10, <1>11, <1>12, <1>13 DEF WebInv

\* The module has arrived: the attempt shown mounts, one that is not shown any more ends.
LEMMA MountArrivedKeeps ==
  ASSUME WebAssumption, WebInv, NEW e \in Attempts, MountArrived(e)
  PROVE  WebInv'
<1> DEFINE x == effect[e]
           ended == [x EXCEPT !.at = "ended"]
           mounting == [x EXCEPT !.at = "mounting", !.loaded = TRUE]
<1>1. TypeOK /\ ShownInv /\ MountInv /\ OrderInv /\ RecordInv /\ PhaseInv
  BY DEF WebInv
<1>2. /\ effect[e].at = "loading" /\ UNCHANGED <<page, loads, faults>>
      /\ effect[e].disposed => effect' = [effect EXCEPT ![e] = ended] /\ UNCHANGED remote
      /\ ~effect[e].disposed => effect' = [effect EXCEPT ![e] = mounting] /\ CallMount(e)
  BY DEF MountArrived
<1>3. x \in Effect
  BY <1>1, TypeFacts
<1>4. /\ ended \in Effect /\ ended.at = "ended" /\ ended.disposed = effect[e].disposed /\ ended.loaded = effect[e].loaded
      /\ mounting \in Effect /\ mounting.at = "mounting" /\ mounting.disposed = effect[e].disposed
      /\ mounting.loaded = TRUE
  BY <1>3 DEF Effect
<1> HIDE DEF ended, mounting, x
<1>5. PICK next \in {ended, mounting} : effect' = [effect EXCEPT ![e] = next]
                                       /\ (next.loaded <=> ~effect[e].disposed)
  <2>1. ~effect[e].loaded
    BY <1>1, <1>2 DEF MountInv
  <2>2. CASE effect[e].disposed
    BY <2>1, <2>2, <1>2, <1>4
  <2>3. CASE ~effect[e].disposed
    BY <2>3, <1>2, <1>4
  <2>4. QED
    BY <2>2, <2>3
<1>6. next \in Effect /\ next.at \in {"ended", "mounting"} /\ next.disposed = effect[e].disposed
  BY <1>4
<1>7. /\ effect' \in [Attempts -> Effect] /\ effect'[e] = next
      /\ \A o \in Attempts : o # e => effect'[o] = effect[o]
  BY <1>1, <1>5, <1>6, EffectGoesOn
<1>8. UNCHANGED <<view, attempt, phase, Current>>
  BY <1>2 DEF page, Current
<1>9. mount[e].at = "none" /\ ~mount[e].cancelled /\ e[1] \in Views /\ e # None
  BY <1>1, <1>2, AttemptFacts DEF MountInv
<1>10. ~effect[e].disposed => e = Current
  BY <1>1, <1>2 DEF ShownInv
<1>11. ShownInv'
  <2>1. ASSUME NEW o \in Attempts, effect'[o].at # "none"
        PROVE  (o = Current \/ effect'[o].disposed) /\ o[1] <= view /\ (o[1] = view => o[2] <= attempt)
    <3>1. CASE o = e
      BY <3>1, <1>1, <1>2, <1>6, <1>7 DEF ShownInv
    <3>2. CASE o # e
      BY <3>2, <2>1, <1>1, <1>7 DEF ShownInv
    <3>3. QED
      BY <3>1, <3>2
  <2>2. view # NoView => Current \in Attempts /\ effect'[Current].at # "none" /\ ~effect'[Current].disposed
    BY <1>1, <1>6, <1>7 DEF ShownInv
  <2>3. QED
    BY <2>1, <2>2, <1>1, <1>8 DEF ShownInv
<1>12. e = Current => pending[e[1]] = None /\ record[e[1]] = None
  <2> SUFFICES ASSUME e = Current PROVE pending[e[1]] = None /\ record[e[1]] = None
    OBVIOUS
  <2>1. pending[e[1]] = None
    BY <1>1, <1>9 DEF MountInv, TypeOK
  <2>2. record[e[1]] = None
    <3> SUFFICES ASSUME record[e[1]] # None PROVE FALSE
      OBVIOUS
    <3>1. PICK o \in Attempts : o = record[e[1]] /\ o[1] = e[1]
      BY <1>1, <1>9 DEF RecordInv, TypeOK
    <3>2. mount[o].at \in {"rendered", "returned"}
      BY <3>1, <1>1 DEF RecordInv
    <3>3. o # e /\ effect[o].at # "none"
      BY <3>2, <1>1, <1>9 DEF MountInv
    <3>4. o[2] < e[2]
      <4>1. o[1] = view /\ o[2] <= attempt /\ e[2] = attempt
        BY <3>1, <3>3, <1>1 DEF ShownInv, Current
      <4>2. o[2] # e[2] /\ o[2] \in Nat /\ e[2] \in Nat
        BY <3>1, <3>3, AttemptFacts
      <4>3. QED
        BY <4>1, <4>2
    <3>5. QED
      BY <3>1, <3>2, <3>4, <1>1, <1>2 DEF OrderInv
  <2>3. QED
    BY <2>1, <2>2
<1>13. CASE effect[e].disposed
  <2>1. UNCHANGED <<mount, pending, record, roots>> /\ next.loaded = FALSE
    <3>1. UNCHANGED <<mount, pending, record, roots>> /\ ~next.loaded /\ next \in Effect
      BY <1>2, <1>5, <1>6, <1>13 DEF remote
    <3>2. QED
      BY <3>1 DEF Effect
  <2>2. TypeOK'
    BY <2>1, <1>1, <1>2, <1>7, <1>8 DEF TypeOK, Effect, loads
  <2>3. MountInv'
    <3>1. ASSUME NEW o \in Attempts
          PROVE  /\ effect'[o].loaded <=> mount'[o].at # "none"
                 /\ effect'[o].at \in {"none", "loading"} => mount'[o].at = "none"
      <4>1. CASE o = e
        BY <4>1, <2>1, <1>7, <1>9
      <4>2. CASE o # e
        BY <4>2, <2>1, <1>1, <1>7 DEF MountInv
      <4>3. QED
        BY <4>1, <4>2
    <3>2. QED
      BY <3>1, <2>1, <1>1, <1>8 DEF MountInv
  <2>4. OrderInv'
    BY <2>1, <1>1, <1>2, <1>7 DEF OrderInv
  <2>5. RecordInv'
    BY <2>1, <1>1 DEF RecordInv
  <2>6. PhaseInv'
    <3>1. phase \in {"ready", "error"} => Current \in Attempts /\ Current # e
      BY <1>1, <1>13 DEF PhaseInv, ShownInv, TypeOK
    <3>2. QED
      BY <3>1, <2>1, <1>1, <1>7, <1>8 DEF PhaseInv
  <2>7. QED
    BY <2>2, <2>3, <2>4, <2>5, <2>6, <1>11 DEF WebInv
<1>14. CASE ~effect[e].disposed
  <2>1. e = Current /\ pending[e[1]] = None /\ record[e[1]] = None /\ next.loaded = TRUE
    <3>1. e = Current /\ next.loaded /\ next \in Effect
      BY <1>5, <1>6, <1>10, <1>14
    <3>2. next.loaded = TRUE
      BY <3>1 DEF Effect
    <3>3. QED
      BY <3>1, <3>2, <1>12
  <2>2. /\ mount' = [o \in Attempts |-> IF o = e THEN [at |-> "waiting", cancelled |-> FALSE]
                                        ELSE IF o = None THEN [mount[o] EXCEPT !.cancelled = TRUE] ELSE mount[o]]
        /\ pending' = [pending EXCEPT ![e[1]] = e] /\ UNCHANGED <<record, roots>>
    BY <2>1, <1>2, <1>14 DEF CallMount
  <2>3. /\ mount' \in [Attempts -> Mount] /\ mount'[e].at = "waiting" /\ ~mount'[e].cancelled
        /\ \A o \in Attempts : o # e => mount'[o] = mount[o]
    <3>1. [at |-> "waiting", cancelled |-> FALSE] \in Mount
      BY DEF Mount
    <3>2. mount'[e] = [at |-> "waiting", cancelled |-> FALSE] /\ \A o \in Attempts : o # e => mount'[o] = mount[o]
      BY <2>2, AttemptFacts
    <3>3. \A o \in Attempts : mount'[o] \in Mount
      BY <3>1, <3>2, <1>1, TypeFacts
    <3>4. QED
      BY <2>2, <3>2, <3>3
  <2>4. /\ pending' \in [Views -> Attempts \cup {None}] /\ pending'[e[1]] = e
        /\ \A v \in Views : v # e[1] => pending'[v] = pending[v]
    BY <2>2, <1>1, <1>9 DEF TypeOK
  <2>5. TypeOK'
    BY <2>2, <2>3, <2>4, <1>1, <1>2, <1>7, <1>8 DEF TypeOK, Effect, Mount, loads
  <2>6. MountInv'
    <3>1. ASSUME NEW o \in Attempts
          PROVE  /\ effect'[o].loaded <=> mount'[o].at # "none"
                 /\ effect'[o].at \in {"none", "loading"} => mount'[o].at = "none"
                 /\ mount'[o].cancelled => mount'[o].at # "none"
                 /\ mount'[o].at # "none" /\ ~mount'[o].cancelled => o = Current' /\ pending'[o[1]] = o
                 /\ mount'[o].at = "rejected" => mount'[o].cancelled
                 /\ o = Current' /\ mount'[o].cancelled => mount'[o].at = "rejected"
      <4>1. CASE o = e
        BY <4>1, <2>1, <2>3, <2>4, <1>6, <1>7, <1>8
      <4>2. CASE o # e
        BY <4>2, <2>1, <2>3, <2>4, <1>1, <1>7, <1>8 DEF MountInv
      <4>3. QED
        BY <4>1, <4>2
    <3>2. ASSUME NEW v \in Views, pending'[v] # None
          PROVE  pending'[v][1] = v /\ mount'[pending'[v]].at # "none" /\ ~mount'[pending'[v]].cancelled
      <4>1. CASE v = e[1]
        BY <4>1, <2>3, <2>4
      <4>2. CASE v # e[1]
        <5>1. pending'[v] = pending[v] /\ pending[v] \in Attempts /\ pending[v][1] = v
          BY <4>2, <3>2, <2>4, <1>1 DEF MountInv, TypeOK
        <5>2. pending[v] # e
          BY <5>1, <4>2
        <5>3. QED
          BY <5>1, <5>2, <3>2, <2>3, <1>1 DEF MountInv
      <4>3. QED
        BY <4>1, <4>2
    <3>3. QED
      BY <3>1, <3>2 DEF MountInv
  <2>7. OrderInv'
    <3> SUFFICES ASSUME NEW d \in Attempts, NEW o \in Attempts, d[1] = o[1], d[2] < o[2], effect'[o].at # "none"
                 PROVE  mount'[d].at \in {"none", "rejected"}
      BY DEF OrderInv
    <3>1. effect[o].at # "none"
      BY <1>2, <1>7
    <3>2. d # e
      <4>1. e = d => o[1] = view /\ o[2] <= attempt /\ e[2] = attempt
        BY <3>1, <2>1, <1>1 DEF ShownInv, Current
      <4>2. o[2] \in Nat /\ d[2] \in Nat
        BY AttemptFacts
      <4>3. QED
        BY <4>1, <4>2
    <3>3. QED
      BY <3>1, <3>2, <2>3, <1>1 DEF OrderInv
  <2>8. RecordInv'
    <3>1. ASSUME NEW o \in Attempts
          PROVE  /\ record'[o[1]] = o => mount'[o].at = "rendered" \/ (mount'[o].at = "returned" /\ ~mount'[o].cancelled)
                 /\ mount'[o].at = "rendering" => record'[o[1]] = None
                 /\ mount'[o].at \in {"rendered", "returned"} /\ ~mount'[o].cancelled => record'[o[1]] = o
      <4>1. CASE o = e
        BY <4>1, <2>1, <2>2, <2>3, <1>9
      <4>2. CASE o # e
        <5>1. mount'[o] = mount[o] /\ record' = record
          BY <4>2, <2>2, <2>3
        <5>2. QED
          BY <5>1, <1>1 DEF RecordInv
      <4>3. QED
        BY <4>1, <4>2
    <3>2. QED
      BY <3>1, <2>2, <1>1 DEF RecordInv
  <2>9. PhaseInv'
    <3>1. phase = "loading"
      BY <2>1, <1>1, <1>2 DEF PhaseInv, TypeOK
    <3>2. QED
      BY <3>1, <1>8 DEF PhaseInv
  <2>10. QED
    BY <2>5, <2>6, <2>7, <2>8, <2>9, <1>11 DEF WebInv
<1>15. QED
  BY <1>13, <1>14

\* The cleanup of the effect shown: its mount is cancelled, and what it rendered goes.
LEMMA DisposeFacts ==
  ASSUME WebAssumption, WebInv, view # NoView, Dispose(Current)
  PROVE  /\ mount' \in [Attempts -> Mount] /\ mount'[Current].at = mount[Current].at
         /\ mount[Current].at # "none" => mount'[Current].cancelled
         /\ \A e \in Attempts : e # Current => mount'[e] = mount[e]
         /\ pending' \in [Views -> Attempts \cup {None}] /\ \A v \in Views : pending'[v] = None
         /\ TypeOK /\ record' \in [Views -> Attempts \cup {None}] /\ roots' \subseteq Attempts
         /\ mount[Current].at = "none" => mount' = mount
         /\ RecordInv'
<1>1. TypeOK /\ ShownInv /\ MountInv /\ OrderInv /\ RecordInv /\ PhaseInv
  BY DEF WebInv
<1>2. Current \in Attempts /\ Current # None /\ Current[1] = view /\ view \in Views
  BY <1>1, AttemptFacts DEF ShownInv, Current
<1>3. effect[Current].loaded <=> mount[Current].at # "none"
  BY <1>1, <1>2 DEF MountInv
<1>4. \A v \in Views : pending[v] # None => pending[v] = Current /\ v = view
  <2> SUFFICES ASSUME NEW v \in Views, pending[v] # None PROVE pending[v] = Current /\ v = view
    OBVIOUS
  <2>1. pending[v] \in Attempts /\ pending[v][1] = v /\ mount[pending[v]].at # "none" /\ ~mount[pending[v]].cancelled
    BY <1>1 DEF MountInv, TypeOK
  <2>2. QED
    BY <2>1, <1>1, <1>2 DEF MountInv
<1>5. CASE mount[Current].at = "none"
  <2>1. UNCHANGED <<mount, pending, record, roots>>
    BY <1>2, <1>3, <1>5 DEF Dispose, remote
  <2>2. \A v \in Views : pending[v] = None
    BY <1>1, <1>4, <1>5 DEF MountInv
  <2>3. RecordInv'
    BY <2>1, <1>1 DEF RecordInv
  <2>4. /\ mount \in [Attempts -> Mount] /\ roots \subseteq Attempts
        /\ pending \in [Views -> Attempts \cup {None}] /\ record \in [Views -> Attempts \cup {None}]
    BY <1>1 DEF TypeOK, Mount
  <2>5. QED
    BY <2>1, <2>2, <2>3, <2>4, <1>1, <1>5
<1>6. CASE mount[Current].at # "none" /\ pending[view] = None
  <2>1. UNCHANGED <<mount, pending, record, roots>>
    BY <1>2, <1>3, <1>6 DEF Dispose, CancelPending, remote
  <2>2. mount[Current].cancelled
    BY <1>1, <1>2, <1>6 DEF MountInv
  <2>3. \A v \in Views : pending[v] = None
    BY <1>4, <1>6
  <2>4. RecordInv'
    BY <2>1, <1>1 DEF RecordInv
  <2>5. /\ mount \in [Attempts -> Mount] /\ roots \subseteq Attempts
        /\ pending \in [Views -> Attempts \cup {None}] /\ record \in [Views -> Attempts \cup {None}]
    BY <1>1 DEF TypeOK, Mount
  <2>6. QED
    BY <2>1, <2>2, <2>3, <2>4, <2>5, <1>1, <1>6
<1>7. CASE mount[Current].at # "none" /\ pending[view] # None
  <2> DEFINE x == mount[Current]
  <2>1. pending[view] = Current
    BY <1>2, <1>4, <1>7
  <2>2. /\ mount' = [mount EXCEPT ![Current].cancelled = TRUE]
        /\ pending' = [pending EXCEPT ![view] = None] /\ Unrender(view)
    BY <2>1, <1>2, <1>3, <1>7 DEF Dispose, CancelPending
  <2>3. mount'[Current] = [x EXCEPT !.cancelled = TRUE] /\ \A e \in Attempts : e # Current => mount'[e] = mount[e]
    BY <2>2, <1>1, <1>2, TypeFacts
  <2>4. x \in Mount
    BY <1>1, <1>2, TypeFacts
  <2>5. mount'[Current] \in Mount /\ mount'[Current].at = x.at /\ mount'[Current].cancelled
    <3> HIDE DEF x
    <3>1. /\ [x EXCEPT !.cancelled = TRUE] \in Mount /\ [x EXCEPT !.cancelled = TRUE].at = x.at
          /\ [x EXCEPT !.cancelled = TRUE].cancelled
      BY <2>4 DEF Mount
    <3>2. QED
      BY <2>3, <3>1, Zenon
  <2>6. mount' \in [Attempts -> Mount]
    <3>1. mount' = [e \in Attempts |-> mount'[e]]
      BY <2>2, <1>1, TypeFacts
    <3>2. \A e \in Attempts : mount'[e] \in Mount
      BY <2>3, <2>5, <1>1, TypeFacts
    <3>3. QED
      BY <3>1, <3>2
  <2>7. pending' \in [Views -> Attempts \cup {None}] /\ \A v \in Views : pending'[v] = None
    BY <2>2, <1>1, <1>2, <1>4 DEF TypeOK
  <2>8. record' \in [Views -> Attempts \cup {None}] /\ roots' \subseteq Attempts
    BY <2>2, <1>1, <1>2, UnrenderFacts
  <2>9. RecordInv'
    <3>1. /\ record'[view] = None /\ roots' = roots \ {record[view]}
          /\ \A u \in Views : u # view => record'[u] = record[u]
      BY <2>2, <1>1, <1>2, UnrenderFacts
    <3>2. ASSUME NEW v \in Views, record'[v] # None PROVE record'[v][1] = v /\ record'[v] \in roots'
      <4>1. v # view /\ record'[v] = record[v] /\ record[v][1] = v /\ record[v] \in roots
        BY <3>1, <3>2, <1>1 DEF RecordInv
      <4>2. record[view] # None => record[view][1] = view
        BY <1>1, <1>2 DEF RecordInv
      <4>3. record[v] # record[view]
        BY <4>1, <4>2, <3>2
      <4>4. QED
        BY <4>1, <4>3, <3>1
    <3>3. ASSUME NEW o \in roots' PROVE record'[o[1]] = o
      <4>1. o \in roots /\ record[o[1]] = o /\ o[1] \in Views
        BY <3>1, <1>1, AttemptFacts DEF RecordInv, TypeOK
      <4>2. o[1] # view
        BY <4>1, <3>1
      <4>3. QED
        BY <4>1, <4>2, <3>1
    <3>4. ASSUME NEW o \in Attempts
          PROVE  /\ record'[o[1]] = o => mount'[o].at = "rendered" \/ (mount'[o].at = "returned" /\ ~mount'[o].cancelled)
                 /\ mount'[o].at = "rendering" => record'[o[1]] = None
                 /\ mount'[o].at \in {"rendered", "returned"} /\ ~mount'[o].cancelled => record'[o[1]] = o
      <4>1. o[1] \in Views /\ o # None
        BY AttemptFacts
      <4>2. CASE o = Current
        BY <4>1, <4>2, <2>5, <3>1, <1>2
      <4>3. CASE o # Current /\ o[1] = view
        <5>1. mount'[o] = mount[o] /\ (mount[o].at # "none" => mount[o].cancelled)
          BY <4>3, <2>3, <1>1 DEF MountInv
        <5>2. QED
          BY <4>1, <4>3, <5>1, <3>1, <1>2
      <4>4. CASE o[1] # view
        <5>1. mount'[o] = mount[o] /\ record'[o[1]] = record[o[1]]
          BY <4>1, <4>4, <2>3, <3>1, <1>2
        <5>2. QED
          BY <5>1, <1>1 DEF RecordInv
      <4>5. QED
        BY <4>2, <4>3, <4>4
    <3>5. QED
      BY <3>2, <3>3, <3>4 DEF RecordInv
  <2>10. QED
    BY <2>3, <2>5, <2>6, <2>7, <2>8, <2>9, <1>1, <1>7
<1>8. QED
  BY <1>5, <1>6, <1>7

\* Attempts that take the place of the one shown: the last of them is shown.
LEMMA NewAttempts ==
  ASSUME WebAssumption, WebInv, TypeOK', DisposeCurrent,
         NEW fresh \in SUBSET Attempts, Current' \in fresh, view' # NoView, view <= view', phase' = "loading",
         \A e \in fresh : effect[e].at = "none" /\ e[1] = view' /\ e[2] <= attempt',
         \A e \in fresh : effect'[e].at = "loading" /\ effect'[e].loaded = FALSE /\ (effect'[e].disposed <=> e # Current'),
         \A e \in Attempts \ fresh :
           /\ effect'[e].at = effect[e].at /\ effect'[e].loaded = effect[e].loaded
           /\ effect'[e].disposed <=> e = Current \/ effect[e].disposed,
         \A e \in Attempts : effect[e].at # "none" /\ e[1] = view' =>
           e[2] <= attempt' /\ mount[e].at \in {"none", "rejected"}
  PROVE  WebInv'
<1>1. TypeOK /\ ShownInv /\ MountInv /\ OrderInv /\ RecordInv /\ PhaseInv
  BY DEF WebInv
<1>2. view \in Nat /\ view' \in Nat /\ Current' \in Attempts
  BY <1>1 DEF TypeOK
<1>3. /\ mount' \in [Attempts -> Mount] /\ \A e \in Attempts : mount'[e].at = mount[e].at
      /\ \A e \in Attempts : mount[e].at # "none" => mount'[e].cancelled
      /\ \A e \in Attempts : mount[e].at = "none" => mount'[e] = mount[e]
      /\ \A v \in Views : pending'[v] = None
      /\ RecordInv'
  <2>1. CASE view = NoView
    <3>1. \A e \in Attempts : effect[e].at = "none"
      <4> SUFFICES ASSUME NEW e \in Attempts, effect[e].at # "none" PROVE FALSE
        OBVIOUS
      <4>1. e[1] <= view /\ e[1] \in Views
        BY <1>1, AttemptFacts DEF ShownInv
      <4>2. QED
        BY <4>1, <2>1 DEF Views, NoView
    <3>2. UNCHANGED <<mount, pending, record, roots>> /\ \A e \in Attempts : mount[e].at = "none"
      BY <3>1, <2>1, <1>1 DEF DisposeCurrent, remote, MountInv
    <3>3. \A v \in Views : pending[v] = None
      BY <3>2, <1>1 DEF MountInv, TypeOK
    <3>4. mount \in [Attempts -> Mount] /\ RecordInv'
      BY <3>2, <1>1 DEF TypeOK, Mount, RecordInv
    <3>5. QED
      BY <3>2, <3>3, <3>4
  <2>2. CASE view # NoView
    <3>1. Dispose(Current) /\ Current \in Attempts
      BY <2>2, <1>1 DEF DisposeCurrent, ShownInv
    <3>2. \A e \in Attempts : e # Current /\ mount[e].at # "none" => mount[e].cancelled
      BY <1>1 DEF MountInv
    <3>3. QED
      BY <3>1, <3>2, <2>2, DisposeFacts
  <2>3. QED
    BY <2>1, <2>2
<1>4. ShownInv'
  <2>1. ASSUME NEW e \in Attempts, effect'[e].at # "none"
        PROVE  (e = Current' \/ effect'[e].disposed) /\ e[1] <= view' /\ (e[1] = view' => e[2] <= attempt')
    <3>1. CASE e \in fresh
      BY <3>1, <1>2
    <3>2. CASE e \notin fresh
      <4>1. effect[e].at # "none"
        BY <2>1, <3>2
      <4>2. (e = Current \/ effect[e].disposed) /\ e[1] <= view /\ e[1] \in Nat
        BY <4>1, <1>1, AttemptFacts DEF ShownInv
      <4>3. QED
        BY <4>1, <4>2, <3>2, <1>2
    <3>3. QED
      BY <3>1, <3>2
  <2>2. Current' \in Attempts /\ effect'[Current'].at # "none" /\ ~effect'[Current'].disposed
    BY <1>2
  <2>3. QED
    BY <2>1, <2>2 DEF ShownInv
<1>5. MountInv'
  <2>1. ASSUME NEW e \in Attempts
        PROVE  /\ effect'[e].loaded <=> mount'[e].at # "none"
               /\ effect'[e].at \in {"none", "loading"} => mount'[e].at = "none"
               /\ mount'[e].cancelled => mount'[e].at # "none"
               /\ mount'[e].at # "none" /\ ~mount'[e].cancelled => e = Current' /\ pending'[e[1]] = e
               /\ mount'[e].at = "rejected" => mount'[e].cancelled
               /\ e = Current' /\ mount'[e].cancelled => mount'[e].at = "rejected"
    <3>1. CASE e \in fresh
      <4>1. mount[e].at = "none" /\ ~mount[e].cancelled
        BY <3>1, <1>1 DEF MountInv
      <4>2. QED
        BY <3>1, <4>1, <1>3
    <3>2. CASE e \notin fresh
      <4>1. e # Current'
        BY <3>2
      <4>2. mount'[e].cancelled => mount'[e].at # "none"
        BY <1>1, <1>3 DEF MountInv
      <4>3. mount'[e].at # "none" => mount'[e].cancelled
        BY <1>3
      <4>4. effect'[e].loaded <=> mount'[e].at # "none"
        BY <3>2, <1>1, <1>3 DEF MountInv
      <4>5. effect'[e].at \in {"none", "loading"} => mount'[e].at = "none"
        BY <3>2, <1>1, <1>3 DEF MountInv
      <4>6. QED
        BY <4>1, <4>2, <4>3, <4>4, <4>5
    <3>3. QED
      BY <3>1, <3>2
  <2>2. QED
    BY <2>1, <1>3 DEF MountInv
<1>6. OrderInv'
  <2> SUFFICES ASSUME NEW d \in Attempts, NEW o \in Attempts, d[1] = o[1], d[2] < o[2], effect'[o].at # "none"
               PROVE  mount[d].at \in {"none", "rejected"}
    BY <1>3 DEF OrderInv
  <2>1. CASE o \in fresh
    BY <2>1, <1>1 DEF MountInv
  <2>2. CASE o \notin fresh
    BY <2>2, <1>1 DEF OrderInv
  <2>3. QED
    BY <2>1, <2>2
<1>7. PhaseInv'
  BY DEF PhaseInv
<1>8. QED
  BY <1>3, <1>4, <1>5, <1>6, <1>7 DEF WebInv

\* Joining a load leaves it under way or done.
LEMMA JoinFacts ==
  ASSUME TypeOK, NEW r \in Releases, JoinLoad(r)
  PROVE  /\ policy' \in {"none", "pending", "ok"} /\ module' \in [Releases -> {"none", "policy", "fetch", "ok"}]
         /\ runtime' \in [Releases -> {"none", "pending", "ok"}]
BY DEF TypeOK, JoinLoad

\* The remote's variables keep their types when the effect shown is disposed of.
LEMMA DisposeTypes ==
  ASSUME WebAssumption, WebInv, DisposeCurrent
  PROVE  /\ mount' \in [Attempts -> Mount] /\ pending' \in [Views -> Attempts \cup {None}]
         /\ record' \in [Views -> Attempts \cup {None}] /\ roots' \subseteq Attempts
<1>1. CASE view = NoView
  BY <1>1 DEF DisposeCurrent, remote, WebInv, TypeOK, Mount
<1>2. CASE view # NoView
  BY <1>2, DisposeFacts DEF DisposeCurrent
<1>3. QED
  BY <1>1, <1>2

\* What the effects are after the one shown is disposed of.
LEMMA DisposedFacts ==
  ASSUME TypeOK, NEW e \in Attempts
  PROVE  /\ Disposed(effect)[e] \in Effect
         /\ Disposed(effect)[e].at = effect[e].at /\ Disposed(effect)[e].loaded = effect[e].loaded
         /\ Disposed(effect)[e].disposed <=> e = Current \/ effect[e].disposed
<1> DEFINE x == effect[e]
<1>1. Disposed(effect)[e] = IF e = Current THEN [x EXCEPT !.disposed = TRUE] ELSE x
  BY DEF Disposed
<1>2. x \in Effect
  BY TypeFacts
<1> HIDE DEF x
<1>3. /\ [x EXCEPT !.disposed = TRUE] \in Effect /\ [x EXCEPT !.disposed = TRUE].at = x.at
      /\ [x EXCEPT !.disposed = TRUE].loaded = x.loaded /\ [x EXCEPT !.disposed = TRUE].disposed
  BY <1>2 DEF Effect
<1>4. /\ Disposed(effect)[e] \in Effect
      /\ Disposed(effect)[e].at = x.at /\ Disposed(effect)[e].loaded = x.loaded
      /\ Disposed(effect)[e].disposed <=> e = Current \/ x.disposed
  BY <1>1, <1>2, <1>3, Zenon
<1>5. QED
  BY <1>4, Zenon DEF x

\* Another user, workspace or release.
LEMMA ShowKeeps ==
  ASSUME WebAssumption, WebInv, NEW v \in Views, Show(v)
  PROVE  WebInv'
<1> DEFINE last == IF Replays THEN 2 ELSE 1
           fresh == {e \in Attempts : e[1] = v /\ e[2] <= last}
<1>1. TypeOK /\ ShownInv
  BY DEF WebInv
<1>2. /\ v = view + 1 /\ view' = v /\ attempt' = last /\ phase' = "loading"
      /\ effect' = [e \in Attempts |->
           IF e[1] = v /\ e[2] <= last THEN [Loading EXCEPT !.disposed = e[2] < last] ELSE Disposed(effect)[e]]
      /\ JoinLoad(ReleaseOf[v]) /\ DisposeCurrent /\ UNCHANGED faults
  BY DEF Show
<1>3. last \in 1..MaxAttempts /\ v \in Nat /\ v # NoView /\ view \in Nat /\ v \in 0..MaxViews
  BY <1>1 DEF WebAssumption, Views, NoView, TypeOK
<1>4. Current' = <<v, last>> /\ Current' \in Attempts /\ Current'[1] = v /\ Current'[2] = last
  BY <1>2, <1>3, AttemptFacts DEF Current
<1> HIDE DEF last
<1>5. \A e \in Attempts : e[1] = v => effect[e].at = "none"
  BY <1>1, <1>2, <1>3 DEF ShownInv
<1>6. ASSUME NEW e \in fresh
      PROVE  /\ effect'[e] \in Effect /\ effect'[e].at = "loading" /\ effect'[e].loaded = FALSE
             /\ effect'[e].disposed <=> e # Current'
  <2>1. e \in Attempts /\ e[1] = v /\ e[2] <= last /\ e = <<e[1], e[2]>> /\ e[2] \in Nat
    BY AttemptFacts
  <2>2. effect'[e] = [Loading EXCEPT !.disposed = e[2] < last]
    BY <2>1, <1>2
  <2>3. (e[2] < last) \in BOOLEAN /\ (e[2] < last <=> e # Current')
    BY <2>1, <1>3, <1>4
  <2>4. \A b \in BOOLEAN : /\ [Loading EXCEPT !.disposed = b] \in Effect
                           /\ [Loading EXCEPT !.disposed = b].at = "loading"
                           /\ [Loading EXCEPT !.disposed = b].loaded = FALSE
                           /\ [Loading EXCEPT !.disposed = b].disposed = b
    BY DEF Loading, Effect
  <2>5. QED
    BY <2>2, <2>3, <2>4, Zenon
<1>7. \A e \in Attempts \ fresh : effect'[e] = Disposed(effect)[e]
  BY <1>2
<1>8. fresh \in SUBSET Attempts /\ \A e \in fresh : effect[e].at = "none" /\ e[1] = v /\ e[2] <= last
  BY <1>5
<1>9. Current' \in fresh
  BY <1>3, <1>4
<1>10. effect' = [e \in Attempts |-> effect'[e]]
  BY <1>2
<1> HIDE DEF fresh
<1>11. effect' \in [Attempts -> Effect]
  <2>1. \A e \in Attempts : effect'[e] \in Effect
    BY <1>1, <1>6, <1>7, DisposedFacts
  <2>2. QED
    BY <2>1, <1>10
<1>12. TypeOK'
  <2>1. ReleaseOf[v] \in Releases
    BY DEF WebAssumption
  <2>2. /\ policy' \in {"none", "pending", "ok"} /\ module' \in [Releases -> {"none", "policy", "fetch", "ok"}]
        /\ runtime' \in [Releases -> {"none", "pending", "ok"}]
    BY <2>1, <1>1, <1>2, JoinFacts
  <2>3. view' \in 0..MaxViews /\ attempt' \in 0..MaxAttempts /\ phase' \in {"loading", "ready", "error"}
        /\ faults' \in 0..MaxFaults
    BY <1>1, <1>2, <1>3 DEF TypeOK, WebAssumption
  <2>4. /\ mount' \in [Attempts -> Mount] /\ pending' \in [Views -> Attempts \cup {None}]
        /\ record' \in [Views -> Attempts \cup {None}] /\ roots' \subseteq Attempts
    BY <1>2, DisposeTypes
  <2>5. QED
    BY <1>11, <2>2, <2>3, <2>4, Zenon DEF TypeOK, Effect, Mount
<1>13. \A e \in Attempts \ fresh :
         /\ effect'[e].at = effect[e].at /\ effect'[e].loaded = effect[e].loaded
         /\ effect'[e].disposed <=> e = Current \/ effect[e].disposed
  <2> SUFFICES ASSUME NEW e \in Attempts \ fresh
               PROVE  /\ effect'[e].at = effect[e].at /\ effect'[e].loaded = effect[e].loaded
                      /\ effect'[e].disposed <=> e = Current \/ effect[e].disposed
    OBVIOUS
  <2>1. effect'[e] = Disposed(effect)[e] /\ e \in Attempts
    BY <1>7
  <2>2. /\ Disposed(effect)[e].at = effect[e].at /\ Disposed(effect)[e].loaded = effect[e].loaded
        /\ Disposed(effect)[e].disposed <=> e = Current \/ effect[e].disposed
    BY <2>1, <1>1, DisposedFacts
  <2>3. QED
    BY <2>1, <2>2, Zenon
<1>14. view' # NoView /\ view <= view' /\ \A e \in Attempts : ~(effect[e].at # "none" /\ e[1] = view')
  BY <1>2, <1>3, <1>5
<1>15. \A e \in fresh : effect'[e].at = "loading" /\ effect'[e].loaded = FALSE /\ (effect'[e].disposed <=> e # Current')
  BY <1>6
<1>16. QED
  BY ZenonT(60), <1>2, <1>8, <1>9, <1>12, <1>13, <1>14, <1>15, NewAttempts

\* The retry button.
LEMMA RetryKeeps ==
  ASSUME WebAssumption, WebInv, Retry
  PROVE  WebInv'
<1> DEFINE c == <<view, attempt + 1>>
           fresh == {c}
<1>1. TypeOK /\ ShownInv /\ PhaseInv /\ OrderInv
  BY DEF WebInv
<1>2. /\ view # NoView /\ phase = "error" /\ attempt < MaxAttempts
      /\ attempt' = attempt + 1 /\ phase' = "loading"
      /\ effect' = [Disposed(effect) EXCEPT ![c] = Loading]
      /\ JoinLoad(ReleaseOf[view]) /\ DisposeCurrent /\ UNCHANGED <<view, faults>>
  BY DEF Retry
<1>3. view \in Views /\ view \in Nat /\ attempt \in Nat /\ attempt + 1 \in 1..MaxAttempts /\ attempt + 1 \in 0..MaxAttempts
  BY <1>1, <1>2 DEF TypeOK, Views, NoView, WebAssumption
<1>4. c \in Attempts /\ c[1] = view /\ c[2] = attempt + 1 /\ Current' = c
  BY <1>2, <1>3, AttemptFacts DEF Current
<1>5. Current \in Attempts /\ Current[1] = view /\ Current[2] = attempt /\ Current # c
  BY <1>1, <1>2, <1>3, AttemptFacts DEF ShownInv, Current
<1>6. effect[c].at = "none"
  BY <1>1, <1>3, <1>4 DEF ShownInv
<1> HIDE DEF c
<1>7. /\ effect'[c] = Loading /\ \A e \in Attempts : e # c => effect'[e] = Disposed(effect)[e]
      /\ effect' = [e \in Attempts |-> effect'[e]]
  BY <1>2, <1>4 DEF Disposed
<1>8. Loading \in Effect /\ Loading.at = "loading" /\ Loading.loaded = FALSE /\ ~Loading.disposed
  BY DEF Loading, Effect
<1>9. effect' \in [Attempts -> Effect]
  <2>1. \A e \in Attempts : effect'[e] \in Effect
    BY <1>1, <1>7, <1>8, DisposedFacts
  <2>2. QED
    BY <2>1, <1>7
<1>10. TypeOK'
  <2>1. ReleaseOf[view] \in Releases
    BY <1>3 DEF WebAssumption
  <2>2. /\ policy' \in {"none", "pending", "ok"} /\ module' \in [Releases -> {"none", "policy", "fetch", "ok"}]
        /\ runtime' \in [Releases -> {"none", "pending", "ok"}]
    BY <2>1, <1>1, <1>2, JoinFacts
  <2>3. view' \in 0..MaxViews /\ attempt' \in 0..MaxAttempts /\ phase' \in {"loading", "ready", "error"}
        /\ faults' \in 0..MaxFaults
    BY <1>1, <1>2, <1>3 DEF TypeOK
  <2>4. /\ mount' \in [Attempts -> Mount] /\ pending' \in [Views -> Attempts \cup {None}]
        /\ record' \in [Views -> Attempts \cup {None}] /\ roots' \subseteq Attempts
    BY <1>2, DisposeTypes
  <2>5. QED
    BY <1>9, <2>2, <2>3, <2>4, Zenon DEF TypeOK, Effect, Mount
<1>11. \A e \in Attempts \ fresh :
         /\ effect'[e].at = effect[e].at /\ effect'[e].loaded = effect[e].loaded
         /\ effect'[e].disposed <=> e = Current \/ effect[e].disposed
  <2> SUFFICES ASSUME NEW e \in Attempts \ fresh
               PROVE  /\ effect'[e].at = effect[e].at /\ effect'[e].loaded = effect[e].loaded
                      /\ effect'[e].disposed <=> e = Current \/ effect[e].disposed
    OBVIOUS
  <2>1. effect'[e] = Disposed(effect)[e] /\ e \in Attempts
    BY <1>7
  <2>2. /\ Disposed(effect)[e].at = effect[e].at /\ Disposed(effect)[e].loaded = effect[e].loaded
        /\ Disposed(effect)[e].disposed <=> e = Current \/ effect[e].disposed
    BY <2>1, <1>1, DisposedFacts
  <2>3. QED
    BY <2>1, <2>2, Zenon
<1>12. ASSUME NEW e \in Attempts, effect[e].at # "none", e[1] = view'
       PROVE  e[2] <= attempt' /\ mount[e].at \in {"none", "rejected"}
  <2>1. e[2] <= attempt /\ e[2] \in Nat
    BY <1>1, <1>2, <1>12, AttemptFacts DEF ShownInv
  <2>2. CASE e = Current
    BY <2>1, <2>2, <1>1, <1>2, <1>3 DEF PhaseInv
  <2>3. CASE e # Current
    <3>1. e[2] < Current[2]
      <4>1. e = <<e[1], e[2]>> /\ e[1] = view
        BY <1>2, <1>12, AttemptFacts
      <4>2. e[2] # attempt
        BY <4>1, <2>3 DEF Current
      <4>3. QED
        BY <4>2, <2>1, <1>3, <1>5
    <3>2. effect[Current].at # "none"
      BY <1>1, <1>2 DEF ShownInv
    <3>3. mount[e].at \in {"none", "rejected"}
      BY <3>1, <3>2, <1>1, <1>2, <1>5, <1>12 DEF OrderInv
    <3>4. QED
      BY <3>3, <2>1, <1>2, <1>3
  <2>4. QED
    BY <2>2, <2>3
<1>13. /\ fresh \in SUBSET Attempts /\ Current' \in fresh
       /\ \A e \in fresh : effect[e].at = "none" /\ e[1] = view' /\ e[2] <= attempt'
       /\ \A e \in fresh : effect'[e].at = "loading" /\ effect'[e].loaded = FALSE /\ (effect'[e].disposed <=> e # Current')
       /\ view' # NoView /\ view <= view'
  BY <1>2, <1>3, <1>4, <1>6, <1>7, <1>8
<1> HIDE DEF fresh
<1>14. QED
  BY <1>2, <1>10, <1>11, <1>12, <1>13, NewAttempts

\* Every step of the shell, the remote and the network keeps the invariant.
LEMMA WebStep == ASSUME WebAssumption, WebInv, [Next]_vars PROVE WebInv'
<1> TypeOK
  BY DEF WebInv
<1>1. ASSUME RemoteStep PROVE WebInv'
  <2>1. ASSUME NEW r \in Releases, ImportRuntime(r) PROVE WebInv'
    <3>1. UNCHANGED <<page, effect, policy, module, remote, faults>>
          /\ runtime' = [runtime EXCEPT ![r] = "ok"]
      BY <2>1 DEF ImportRuntime
    <3>2. TypeOK'
      BY <3>1 DEF TypeOK, page, remote
    <3>3. QED
      BY <3>1, <3>2, LoadsKeep
  <2>2. QED
    BY <1>1, <2>1, ReplaceKeeps, StartRenderingKeeps, RenderKeeps, FinishMountKeeps DEF RemoteStep
<1>2. ASSUME ShellStep PROVE WebInv'
  <2>1. ASSUME LoadPolicy PROVE WebInv'
    <3>1. UNCHANGED <<page, effect, module, runtime, remote, faults>> /\ policy' = "ok"
      BY <2>1 DEF LoadPolicy
    <3>2. TypeOK'
      BY <3>1 DEF TypeOK, page, remote
    <3>3. QED
      BY <3>1, <3>2, LoadsKeep
  <2>2. ASSUME NEW r \in Releases, FetchModule(r) \/ LoadModule(r) PROVE WebInv'
    <3>1. PICK m \in {"fetch", "ok"} : UNCHANGED <<page, effect, policy, runtime, remote, faults>>
                                       /\ module' = [module EXCEPT ![r] = m]
      BY <2>2 DEF FetchModule, LoadModule
    <3>2. TypeOK'
      BY <3>1 DEF TypeOK, page, remote
    <3>3. QED
      BY <3>1, <3>2, LoadsKeep
  <2>3. QED
    BY <1>2, <2>1, <2>2, MountArrivedKeeps, MountSettledKeeps DEF ShellStep
<1>3. ASSUME Fault PROVE WebInv'
  <2>1. ASSUME PolicyFails PROVE WebInv'
    <3> DEFINE failed == {r \in Releases : module[r] = "policy"}
    <3>1. /\ FailAttempts(failed) /\ UNCHANGED <<runtime, remote>> /\ policy' = "none"
          /\ module' = Forget(module, failed) /\ faults' \in 0..MaxFaults
      BY <2>1 DEF PolicyFails, TypeOK, WebAssumption
    <3>2. module' \in [Releases -> {"none", "policy", "fetch", "ok"}]
      BY <3>1 DEF Forget, TypeOK
    <3>3. QED
      BY <3>1, <3>2, FailedLoadKeeps
  <2>2. ASSUME NEW r \in Releases, ModuleFails(r) PROVE WebInv'
    <3>1. /\ FailAttempts({r}) /\ UNCHANGED <<policy, runtime, remote>>
          /\ module' = Forget(module, {r}) /\ faults' \in 0..MaxFaults
      BY <2>2 DEF ModuleFails, TypeOK, WebAssumption
    <3>2. module' \in [Releases -> {"none", "policy", "fetch", "ok"}] /\ policy' \in {"none", "pending", "ok"}
      BY <3>1 DEF Forget, TypeOK
    <3>3. QED
      BY <3>1, <3>2, FailedLoadKeeps
  <2>3. QED
    BY <1>3, <2>1, <2>2, ImportFailsKeeps, RenderFailsKeeps DEF Fault
<1>4. CASE UNCHANGED vars
  <2>1. UNCHANGED <<page, effect, remote>> /\ TypeOK'
    BY <1>4 DEF vars, page, loads, remote, TypeOK
  <2>2. QED
    BY <2>1, LoadsKeep
<1>5. QED
  BY <1>1, <1>2, <1>3, <1>4, RetryKeeps, ShowKeeps DEF Next

\* The inductive invariant of the page: one attempt is shown, one mount of a container is under
\* way or rendered, and only a mount that is shown is not cancelled.
THEOREM WebInvariant == Spec => []WebInv
<1>1. Init => WebInv
  BY WebAssumption, WebInitially
<1>2. WebInv /\ [Next]_vars => WebInv'
  BY WebAssumption, WebStep
<1>3. QED
  BY <1>1, <1>2, PTL DEF Spec

\* Whenever a page is left, retried or replayed while policies, modules and mounts are under way
\* or fail, what it says is what is rendered, and no other application is left running, but one
\* that is about to notice that it was cancelled (FederationRuntime.tsx, remote.tsx, runtime.tsx).
THEOREM PageIsAlwaysTheApplication == Spec => []PageIsTheApplication
<1>1. WebInv => PageIsTheApplication
  <2> SUFFICES ASSUME WebInv PROVE PageIsTheApplication
    OBVIOUS
  <2>1. TypeOK /\ ShownInv /\ MountInv /\ RecordInv /\ PhaseInv
    BY DEF WebInv
  <2>2. ASSUME NEW e \in roots PROVE e = Current \/ (mount[e].at = "rendered" /\ record[e[1]] = e)
    <3>1. e \in Attempts /\ record[e[1]] = e
      BY <2>1 DEF RecordInv, TypeOK
    <3>2. QED
      BY <3>1, <2>1 DEF RecordInv, MountInv
  <2>3. phase \in {"ready", "error"} => Current \in Attempts /\ Current[1] = view /\ view \in Views
    BY <2>1, WebAssumption, AttemptFacts DEF ShownInv, Current, TypeOK
  <2>4. ASSUME phase = "ready" PROVE record[view] = Current /\ Current \in roots
    <3>1. mount[Current].at = "returned" /\ ~mount[Current].cancelled
      BY <2>1, <2>3, <2>4 DEF PhaseInv, MountInv
    <3>2. record[view] = Current /\ Current # None
      BY <3>1, <2>1, <2>3, <2>4, WebAssumption, AttemptFacts DEF RecordInv
    <3>3. QED
      BY <3>2, <2>1, <2>3, <2>4 DEF RecordInv
  <2>5. ASSUME phase = "error" PROVE record[view] = None
    <3> SUFFICES ASSUME record[view] # None PROVE FALSE
      OBVIOUS
    <3>1. PICK o \in Attempts : o = record[view] /\ o[1] = view
      BY <2>1, <2>3, <2>5 DEF RecordInv, TypeOK
    <3>2. mount[o].at \in {"rendered", "returned"}
      BY <3>1, <2>1 DEF RecordInv
    <3>3. o # Current /\ effect[o].at # "none"
      BY <3>2, <2>1, <2>5 DEF PhaseInv, MountInv
    <3>4. effect[Current].at # "none" /\ Current[2] = attempt /\ attempt \in Nat /\ o[2] \in Nat /\ o = <<view, o[2]>>
      BY <3>1, <2>1, <2>3, <2>5, WebAssumption, AttemptFacts DEF PhaseInv, Current, TypeOK
    <3>5. o[2] <= attempt /\ o[2] # attempt
      BY <3>1, <3>3, <3>4, <2>1 DEF ShownInv, Current
    <3>6. o[2] < Current[2] /\ o[1] = Current[1]
      BY <3>1, <3>4, <3>5, <2>3, <2>5
    <3>7. QED
      BY <3>1, <3>2, <3>4, <3>6, <2>3, <2>5 DEF WebInv, OrderInv
  <2>6. QED
    BY <2>2, <2>4, <2>5 DEF PageIsTheApplication, PhaseTellsTheApplication, NoGhostApplications
<1>2. QED
  BY <1>1, WebInvariant, PTL
=============================================================================
