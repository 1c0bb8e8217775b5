--------------------------- MODULE SessionFamilies --------------------------
(***************************************************************************)
(* Offline sign-in: the families of refresh tokens and access sessions of  *)
(* the API (postgres.repository.ts, auth.service.ts) and the desktop       *)
(* processes that use them (src-tauri/src/auth.rs).                        *)
(*                                                                         *)
(* A sign-in or a rotation inserts a PAIR, a refresh token and an access   *)
(* session, into a family.  A rotation and the end of a family are         *)
(* transactions of several statements under READ COMMITTED: a statement    *)
(* sees what was committed when it began, waits for the row locks of other *)
(* transactions, and never sees a row inserted since.  PostgreSQL breaks a *)
(* cycle of waits by aborting one of its members.                          *)
(*                                                                         *)
(* Each desktop process does one operation at a time (credential_lock);    *)
(* all processes of a user share one keyring entry.  A process stops       *)
(* waiting for an answer or dies; the request executes all the same, or    *)
(* not.                                                                    *)
(*                                                                         *)
(*   refresh, session   the committed rows                                 *)
(*   root     refreshFamilyId: the first pair of the family                *)
(*   lapsed   families whose refresh tokens have expired                   *)
(*   call     requests to the API up to the answer: kind, pair, statement, *)
(*            rows the statement has still to lock, locked rows            *)
(*   keyring  the stored credential                                        *)
(*   desk     what each desktop process is doing, with which pair          *)
(*   faults   counts crashes, errors and time-outs                         *)
(*   ended, calm   noted for the properties: that a family was ended, with *)
(*            or without a rotation in between; whether there was neither  *)
(*            a fault nor an overlap                                       *)
(*                                                                         *)
(* Sign-in itself is one step: nobody else knows the new pair.  Access     *)
(* sessions expire at any time: a desktop may always find its own close    *)
(* to expiry.  The time of a request is taken when its row is found.       *)
(***************************************************************************)
EXTENDS Naturals, FiniteSets

CONSTANTS
  Pairs, NoPair,
  Desktops,
  Calls, NoCall,   \* requests in execution at a time
  MaxFaults        \* bound on faults

ASSUME SessionAssumption ==
  /\ NoPair \notin Pairs
  /\ NoCall \notin Calls
  /\ MaxFaults \in Nat

VARIABLES refresh, session, root, lapsed, call, keyring, desk, faults, ended, calm

rows == <<refresh, session, root>>
vars == <<rows, lapsed, call, keyring, desk, faults, ended, calm>>

TokenRow(p)   == <<"token", p>>
SessionRow(p) == <<"session", p>>
Rows == {"token", "session"} \X Pairs

Fresh     == {p \in Pairs : root[p] = NoPair}
Family(f) == {p \in Pairs : root[p] = f}

Free   == [at |-> "free"]
Answer == [at : {"answered"}, pair : Pairs \cup {NoPair}]
Request ==
  [at : {"find", "retire", "tokens", "sessions"}, kind : {"rotate", "logout"}, pair : Pairs,
   todo : SUBSET Rows, locks : SUBSET Rows, raced : BOOLEAN]

Executing == {q \in Calls : call[q].at \notin {"free", "answered"}}

Quiet == [at |-> "idle", pair |-> NoPair, call |-> NoCall]

Init ==
  /\ refresh = [p \in Pairs |-> "none"]
  /\ session = [p \in Pairs |-> "none"]
  /\ root = [p \in Pairs |-> NoPair]
  /\ lapsed = {}
  /\ call = [q \in Calls |-> Free]
  /\ keyring = NoPair
  /\ desk = [d \in Desktops |-> Quiet]
  /\ faults = 0
  /\ ended = [p \in Pairs |-> "no"]
  /\ calm = TRUE
-----------------------------------------------------------------------------
(* Requests in the API. *)

\* Mutant: a transaction does not wait for the rows of another.
NeverHeld(q, row) == FALSE

HeldByOther(q, row) == \E o \in Executing \ {q} : row \in call[o].locks

Lock(q, row) ==
  /\ q \in Executing
  /\ row \in call[q].todo
  /\ ~HeldByOther(q, row)
  /\ call' = [call EXCEPT ![q].todo = @ \ {row}, ![q].locks = @ \cup {row}]
  /\ UNCHANGED <<rows, lapsed, keyring, desk, faults, ended, calm>>

\* A statement that begins: it will lock the committed rows it selects.
Statement(q, at, selected) ==
  /\ call' = [call EXCEPT ![q].at = at, ![q].todo = selected \ call[q].locks]
  /\ UNCHANGED <<rows, lapsed, keyring, desk, faults, ended, calm>>

\* Mutant: the sessions are revoked first.
SelectedReversed(at, f) ==
  IF at = "tokens" THEN {SessionRow(p) : p \in Family(f)} ELSE {TokenRow(p) : p \in Family(f)}

\* The rows of the two statements that end a family.
Selected(at, f) ==
  IF at = "tokens" THEN {TokenRow(p) : p \in Family(f)} ELSE {SessionRow(p) : p \in Family(f)}

\* Mutant: the refresh token is trusted as it is found, consumed or not.
UsableOnce(p) == refresh[p] \in {"live", "consumed"} /\ root[p] \notin lapsed

Usable(p) == refresh[p] = "live" /\ root[p] \notin lapsed

\* rotateRefreshSession with a usable token: the sessions of the family that are
\* not revoked are next.
Retire(q) ==
  LET p == call[q].pair
  IN  /\ call[q].at = "find" /\ call[q].kind = "rotate" /\ call[q].todo = {}
      /\ Usable(p)
      /\ Statement(q, "retire", {SessionRow(o) : o \in {o \in Family(root[p]) : session[o] = "live"}})

\* A token that was used, revoked or has expired, or a sign-out: the family ends,
\* first its refresh tokens, then its sessions.
EndTokens(q) ==
  /\ call[q].at = "find" /\ call[q].todo = {}
  /\ call[q].kind = "rotate" => ~Usable(call[q].pair)
  /\ Statement(q, "tokens", Selected("tokens", root[call[q].pair]))

EndSessions(q) ==
  /\ call[q].at = "tokens" /\ call[q].todo = {}
  /\ Statement(q, "sessions", Selected("sessions", root[call[q].pair]))

Waited(q) == \E d \in Desktops : desk[d].call = q

Answered(q, pair) == IF Waited(q) THEN [at |-> "answered", pair |-> pair] ELSE Free

\* Sets the locked rows of the kind, all of them live or older, to a new state.
Written(kind, old, locks, new) == [p \in Pairs |-> IF <<kind, p>> \in locks THEN new ELSE old[p]]

\* An ending that has selected tokens of the family is overtaken.
Overtaken(f, q) ==
  [o \in Calls |->
     IF o \in Executing \ {q} /\ call[o].at \in {"tokens", "sessions"} /\ root[call[o].pair] = f
     THEN [call[o] EXCEPT !.raced = TRUE] ELSE call[o]]

\* The end of the rotation: the token is consumed, the sessions are revoked, the
\* next pair is there.
CommitRotation(q, n) ==
  LET p == call[q].pair
  IN  /\ call[q].at = "retire" /\ call[q].todo = {}
      /\ n \in Fresh
      /\ refresh' = [refresh EXCEPT ![p] = "consumed", ![n] = "live"]
      /\ session' = [Written("session", session, call[q].locks, "revoked") EXCEPT ![n] = "live"]
      /\ root' = [root EXCEPT ![n] = root[p]]
      /\ call' = [Overtaken(root[p], q) EXCEPT ![q] = Answered(q, n)]
      /\ UNCHANGED <<lapsed, keyring, desk, faults, ended, calm>>

CommitEnd(q) ==
  LET f == root[call[q].pair]
  IN  /\ call[q].at = "sessions" /\ call[q].todo = {}
      /\ refresh' = Written("token", refresh, call[q].locks, "revoked")
      /\ session' = Written("session", session, call[q].locks, "revoked")
      /\ ended' = [ended EXCEPT ![f] =
                     IF ~call[q].raced THEN "undisturbed"
                     ELSE IF call[q].kind = "logout" THEN "signed_out" ELSE @]
      /\ call' = [call EXCEPT ![q] = Answered(q, NoPair)]
      /\ UNCHANGED <<root, lapsed, keyring, desk, faults, calm>>

RollBack(q) ==
  /\ q \in Executing
  /\ call' = [call EXCEPT ![q] = Answered(q, NoPair)]
  /\ UNCHANGED <<rows, lapsed, keyring, desk, ended>>

\* The request or its transaction fails: rate limit, connection, crash of the API.
Fail(q) ==
  /\ faults < MaxFaults
  /\ faults' = faults + 1
  /\ calm' = FALSE
  /\ RollBack(q)

\* Each of these transactions waits for a row that another of them holds.
Deadlocked(D) == \A q \in D : \E row \in call[q].todo : \E o \in D \ {q} : row \in call[o].locks

AbortDeadlock(q) ==
  /\ \E D \in SUBSET Executing : q \in D /\ Deadlocked(D)
  /\ RollBack(q)
  /\ UNCHANGED <<faults, calm>>

Lapse(f) ==
  /\ root[f] = f /\ f \notin lapsed
  /\ lapsed' = lapsed \cup {f}
  /\ UNCHANGED <<rows, call, keyring, desk, faults, ended, calm>>
-----------------------------------------------------------------------------
(* The desktop processes. *)

Alone(d) == \A o \in Desktops \ {d} : desk[o] = Quiet

\* There are pairs left for every rotation under way (bound of the model).
Affordable == Cardinality({q \in Executing : call[q].kind = "rotate"}) < Cardinality(Fresh)

FindRow(kind, p) == IF kind = "rotate" THEN TokenRow(p) ELSE SessionRow(p)

Send(d, q, kind, p, at) ==
  /\ call[q] = Free
  /\ call' = [call EXCEPT ![q] = [at |-> "find", kind |-> kind, pair |-> p,
                                  todo |-> {FindRow(kind, p)}, locks |-> {}, raced |-> FALSE]]
  /\ desk' = [desk EXCEPT ![d] = [at |-> at, pair |-> p, call |-> q]]

\* current, authenticated_request, register_device: the credential is loaded and
\* used, or close to expiry and renewed first.
Load(d) ==
  /\ desk[d] = Quiet
  /\ keyring # NoPair
  /\ desk' = [desk EXCEPT ![d] = [at |-> "use", pair |-> keyring, call |-> NoCall]]
  /\ calm' = (calm /\ Alone(d))
  /\ UNCHANGED <<rows, lapsed, call, keyring, faults, ended>>

LoadAndRenew(d, q) ==
  /\ desk[d] = Quiet
  /\ keyring # NoPair
  /\ Affordable
  /\ Send(d, q, "rotate", keyring, "renew")
  /\ calm' = (calm /\ Alone(d))
  /\ UNCHANGED <<rows, lapsed, keyring, faults, ended>>

\* The request succeeds, or fails without an answer that matters here.
Use(d) ==
  /\ desk[d].at \in {"use", "use_again"}
  /\ session[desk[d].pair] = "live"
  /\ desk' = [desk EXCEPT ![d] = Quiet]
  /\ UNCHANGED <<rows, lapsed, call, keyring, faults, ended, calm>>

\* 401: renew and try again, once.
RenewAndRetry(d, q) ==
  /\ desk[d].at = "use"
  /\ session[desk[d].pair] # "live"
  /\ Affordable
  /\ Send(d, q, "rotate", desk[d].pair, "renew_again")
  /\ UNCHANGED <<rows, lapsed, keyring, faults, ended, calm>>

Finish(d, stored) ==
  /\ keyring' = stored
  /\ desk' = [desk EXCEPT ![d] = Quiet]

RefusedAgain(d) ==
  /\ desk[d].at = "use_again"
  /\ session[desk[d].pair] # "live"
  /\ Finish(d, NoPair)
  /\ UNCHANGED <<rows, lapsed, call, faults, ended, calm>>

AnswerTo(d) == desk[d].call # NoCall /\ call[desk[d].call].at = "answered"

\* Mutant: the next pair is used but not saved.
RenewedUnsaved(d) ==
  /\ AnswerTo(d) /\ desk[d].at \in {"renew", "renew_again"}
  /\ call[desk[d].call].pair # NoPair
  /\ desk' = [desk EXCEPT ![d] =
                [at |-> IF desk[d].at = "renew" THEN "use" ELSE "use_again",
                 pair |-> call[desk[d].call].pair, call |-> NoCall]]
  /\ call' = [call EXCEPT ![desk[d].call] = Free]
  /\ UNCHANGED <<rows, keyring, lapsed, faults, ended, calm>>

\* refresh_credential: the next pair is saved, then used.
Renewed(d) ==
  /\ AnswerTo(d) /\ desk[d].at \in {"renew", "renew_again"}
  /\ call[desk[d].call].pair # NoPair
  /\ keyring' = call[desk[d].call].pair
  /\ desk' = [desk EXCEPT ![d] =
                [at |-> IF desk[d].at = "renew" THEN "use" ELSE "use_again",
                 pair |-> call[desk[d].call].pair, call |-> NoCall]]
  /\ call' = [call EXCEPT ![desk[d].call] = Free]
  /\ UNCHANGED <<rows, lapsed, faults, ended, calm>>

\* refresh_or_clear: whatever went wrong, the credential is deleted.
NotRenewed(d) ==
  /\ AnswerTo(d) /\ desk[d].at \in {"renew", "renew_again"}
  /\ call[desk[d].call].pair = NoPair
  /\ Finish(d, NoPair)
  /\ call' = [call EXCEPT ![desk[d].call] = Free]
  /\ UNCHANGED <<rows, lapsed, faults, ended, calm>>

\* logout deletes the credential first, and does not look at the answer.
Logout(d, q) ==
  /\ desk[d] = Quiet
  /\ keyring # NoPair
  /\ keyring' = NoPair
  /\ Send(d, q, "logout", keyring, "logout")
  /\ calm' = (calm /\ Alone(d))
  /\ UNCHANGED <<rows, lapsed, faults, ended>>

LoggedOut(d) ==
  /\ AnswerTo(d) /\ desk[d].at = "logout"
  /\ Finish(d, keyring)
  /\ call' = [call EXCEPT ![desk[d].call] = Free]
  /\ UNCHANGED <<rows, lapsed, faults, ended, calm>>

Login(d, n) ==
  /\ desk[d] = Quiet
  /\ n \in Fresh /\ Affordable
  /\ refresh' = [refresh EXCEPT ![n] = "live"]
  /\ session' = [session EXCEPT ![n] = "live"]
  /\ root' = [root EXCEPT ![n] = n]
  /\ keyring' = n
  /\ calm' = (calm /\ Alone(d))
  /\ UNCHANGED <<lapsed, call, desk, faults, ended>>

\* Whoever is gone does not take the answer.
Abandoned(d) ==
  IF desk[d].call = NoCall THEN call
  ELSE [call EXCEPT ![desk[d].call] = IF @.at = "answered" THEN Free ELSE @]

\* The HTTP client gives up, or the answer cannot be used or saved.
GiveUp(d) ==
  /\ desk[d].call # NoCall
  /\ faults < MaxFaults
  /\ faults' = faults + 1
  /\ calm' = FALSE
  /\ Finish(d, IF desk[d].at = "logout" THEN keyring ELSE NoPair)
  /\ call' = Abandoned(d)
  /\ UNCHANGED <<rows, lapsed, ended>>

Crash(d) ==
  /\ desk[d] # Quiet
  /\ faults < MaxFaults
  /\ faults' = faults + 1
  /\ calm' = FALSE
  /\ Finish(d, keyring)
  /\ call' = Abandoned(d)
  /\ UNCHANGED <<rows, lapsed, ended>>
-----------------------------------------------------------------------------
CallStep(q) ==
  \/ \E row \in Rows : Lock(q, row)
  \/ Retire(q)
  \/ EndTokens(q)
  \/ EndSessions(q)
  \/ \E n \in Pairs : CommitRotation(q, n)
  \/ CommitEnd(q)
  \/ Fail(q)
  \/ AbortDeadlock(q)

DeskStep(d) ==
  \/ Load(d)
  \/ Use(d)
  \/ RefusedAgain(d)
  \/ Renewed(d)
  \/ NotRenewed(d)
  \/ LoggedOut(d)
  \/ GiveUp(d)
  \/ Crash(d)
  \/ \E q \in Calls : LoadAndRenew(d, q) \/ RenewAndRetry(d, q) \/ Logout(d, q)
  \/ \E n \in Pairs : Login(d, n)

Next ==
  \/ \E q \in Calls : CallStep(q)
  \/ \E d \in Desktops : DeskStep(d)
  \/ \E f \in Pairs : Lapse(f)

Spec == Init /\ [][Next]_vars
-----------------------------------------------------------------------------
(* Properties *)

\* Rows, requests and desktop processes stay in their domains.
TypeOK ==
  /\ refresh \in [Pairs -> {"none", "live", "consumed", "revoked"}]
  /\ session \in [Pairs -> {"none", "live", "revoked"}]
  /\ root \in [Pairs -> Pairs \cup {NoPair}]
  /\ lapsed \subseteq Pairs
  /\ call \in [Calls -> {Free} \cup Answer \cup Request]
  /\ keyring \in Pairs \cup {NoPair}
  /\ desk \in [Desktops ->
       [at : {"idle", "use", "use_again", "renew", "renew_again", "logout"},
        pair : Pairs \cup {NoPair}, call : Calls \cup {NoCall}]]
  /\ faults \in 0..MaxFaults
  /\ ended \in [Pairs -> {"no", "signed_out", "undisturbed"}]
  /\ calm \in BOOLEAN

\* However often a token is sent, by however many processes at a time, a family has
\* at most one usable refresh token and at most one valid access session.
OneUsablePair ==
  \A p, o \in Pairs : p # o /\ root[p] = root[o] =>
    /\ ~(refresh[p] = "live" /\ refresh[o] = "live")
    /\ ~(session[p] = "live" /\ session[o] = "live")

\* An access session is valid only as long as the refresh token inserted with it is:
\* whatever a rotation and an end of the family miss of each other, they do not leave
\* access without a token that can still be revoked.
AccessNeedsItsToken == \A p \in Pairs : session[p] = "live" => refresh[p] = "live"

Dead(f) == \A p \in Family(f) : refresh[p] # "live" /\ session[p] # "live"

\* A family that a replay or a sign-out ended is dead for ever, unless a rotation
\* was committed while the ending was waiting for it.
EndedFamilyStaysDead == \A f \in Pairs : ended[f] = "undisturbed" => Dead(f)

\* A family gives access through one pair at a time, as a whole or not at all, and
\* never after it has ended undisturbed, in whatever order the statements of
\* rotations, replays and sign-outs take their locks.
FamiliesAreOne == OneUsablePair /\ AccessNeedsItsToken /\ EndedFamilyStaysDead

\* Processes that take turns and meet no fault lose the credential only to a
\* sign-out or to the end of its lifetime: no sequence of their operations makes a
\* renewed token look replayed.
KeptWhileUndisturbed ==
  [][(calm' /\ lapsed = {} /\ keyring # NoPair /\ keyring' = NoPair)
       => \E d \in Desktops : desk'[d].at = "logout"]_vars
=============================================================================
