---------------------------- MODULE HostRequests ----------------------------
(***************************************************************************)
(* What an application may ask of the web shell                            *)
(* (web-shell/src/runtime/hostApi.ts, pages/AppRuntimePage.tsx; web-sdk's  *)
(* bridge).  A federation application calls the Host API itself; what an   *)
(* iframe asks for arrives on its port, is checked first and then handed   *)
(* to the same Host API.  A text is told apart as far as a check does: a   *)
(* route by how it starts, a message by its length.                        *)
(***************************************************************************)
EXTENDS FiniteSets

BridgeMethods == {"broker.request", "locale.getCurrent", "navigation.navigate", "route.getCurrent",
                  "theme.getCurrent", "user.getSummary", "workspace.getCurrent"}

\* "missing" stands for every value of a wrong type.
Routes     == {"missing", "relative", "inside", "network", "backslash"}
Operations == {"notifications.show", "catalog.list", "other"}
Texts      == {"missing", "blank", "short", "long"}
Choices    == {"none", "known", "unknown"}

Requests ==
  [method : BridgeMethods \cup {"unknown"}, params : BOOLEAN, to : Routes, operation : Operations,
   payload : BOOLEAN, message : Texts, level : Choices, channel : Choices]

Capabilities == {"context.read", "navigation", "notifications", "api.fetch"}

Refused(code) == [does |-> "nothing", code |-> code]
Does(what) == [does |-> what, code |-> "none"]
-----------------------------------------------------------------------------
(* The Host API. *)

\* assertInternalRoute: an absolute route of the shell.
InternalRoute(to) == to = "inside"

\* validateNotification
ShowableMessage(message) == message = "short"

\* requireCapability before anything else is looked at.
WithCapability(capabilities, needed, outcome) ==
  IF needed \in capabilities THEN outcome ELSE Refused("capability_denied")

Broker(capabilities, r) ==
  CASE r.operation = "notifications.show" -> WithCapability(capabilities, "notifications",
         IF ShowableMessage(r.message) THEN Does("notify") ELSE Refused("invalid_request"))
    [] r.operation = "catalog.list" -> WithCapability(capabilities, "api.fetch", Does("catalog"))
    [] OTHER -> Refused("operation_denied")

\* The scoped Host API of a release with these capabilities.
HostApi(capabilities, r) ==
  CASE r.method = "broker.request" -> Broker(capabilities, r)
    [] r.method = "navigation.navigate" -> WithCapability(capabilities, "navigation",
         IF InternalRoute(r.to) THEN Does("navigate") ELSE Refused("navigation_denied"))
    [] OTHER -> WithCapability(capabilities, "context.read", Does("read"))
-----------------------------------------------------------------------------
(* The port. *)

\* validateBrokerRequest: the code of the refusal, or "none".
BrokerRefusal(r) ==
  IF ~r.params THEN "invalid_request"
  ELSE CASE r.operation = "notifications.show" ->
              IF r.payload /\ r.message # "missing" /\ r.level # "unknown" THEN "none" ELSE "invalid_request"
         [] r.operation = "catalog.list" ->
              IF r.payload => r.channel # "unknown" THEN "none" ELSE "invalid_request"
         [] OTHER -> "operation_denied"

\* expectRecord and expectString of a navigation.
NavigationRefusal(r) == IF r.params /\ r.to # "missing" THEN "none" ELSE "invalid_request"

PortRefusal(r) ==
  CASE r.method = "broker.request" -> BrokerRefusal(r)
    [] r.method = "navigation.navigate" -> NavigationRefusal(r)
    [] OTHER -> "none"

\* dispatchBridgeRequest; what is no request of the bridge is not answered.
Dispatch(capabilities, r) ==
  IF r.method \notin BridgeMethods THEN Refused("unanswered")
  ELSE IF PortRefusal(r) # "none" THEN Refused(PortRefusal(r))
  ELSE HostApi(capabilities, r)
-----------------------------------------------------------------------------
(* Properties *)

Needed == [navigate |-> "navigation", notify |-> "notifications", catalog |-> "api.fetch",
           read |-> "context.read"]

Effects == DOMAIN Needed

\* Nothing is done for an application that its release has not declared: not by the Host
\* API, and not on the port either (the order of the checks in hostApi.ts).
NothingUndeclared ==
  \A capabilities \in SUBSET Capabilities : \A r \in Requests :
    LET done == {HostApi(capabilities, r).does, Dispatch(capabilities, r).does} \cap Effects
    IN  \A what \in done : Needed[what] \in capabilities

\* A request on the port does what the same call does in the page, or it is refused: the
\* two kinds of application have one Host API.
PortOnlyRefuses ==
  \A capabilities \in SUBSET Capabilities : \A r \in Requests :
    Dispatch(capabilities, r).does \in {"nothing", HostApi(capabilities, r).does}

\* An application in an iframe navigates only to routes of the shell, shows no blank and no long
\* message, and asks on the port for no channel the catalog does not have.
OnlyWhatTheShellHas ==
  \A capabilities \in SUBSET Capabilities : \A r \in Requests :
    LET done == Dispatch(capabilities, r).does
    IN  /\ done = "navigate" => r.to = "inside"
        /\ done = "notify" => r.message = "short" /\ r.level # "unknown"
        /\ done = "catalog" => (r.payload => r.channel # "unknown")

HostApiProperties == NothingUndeclared /\ PortOnlyRefuses /\ OnlyWhatTheShellHas
=============================================================================
