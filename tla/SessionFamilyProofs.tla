------------------------- MODULE SessionFamilyProofs ------------------------
(***************************************************************************)
(* Proofs about SessionFamilies, what no number of desktop processes,      *)
(* requests, faults and rotations does to a family of refresh tokens, and  *)
(* about SignIn, where the sessions come from (second half).               *)
(*                                                                         *)
(* The argument is about rows, not about time.  A rotation keeps the row   *)
(* of its token locked from the moment it found it usable, so the token is *)
(* still the only usable one of its family when the rotation commits, and  *)
(* no other rotation can have added a pair since it selected the sessions  *)
(* to revoke.  An ending selects the sessions after it has locked the      *)
(* tokens, so it revokes the session of each token it revokes.             *)
(*                                                                         *)
(* The clients are looked at separately (CalmInv), and only while they     *)
(* take turns: a renewal that meets no other request is answered with a    *)
(* pair that works, and stored before anybody asks again.                  *)
(***************************************************************************)
EXTENDS SessionFamilies, SignIn, TLAPS

Reserved(q) == call[q].todo \cup call[q].locks

\* Rows of fresh pairs are absent; a family is named after its first pair.
RowsInv ==
  /\ \A p \in Pairs : root[p] = NoPair => refresh[p] = "none" /\ session[p] = "none"
  /\ \A p \in Pairs : root[p] # NoPair => root[root[p]] = root[p]

\* Whatever pair somebody holds or asks for has been issued.
PairsInv ==
  /\ keyring # NoPair => root[keyring] # NoPair
  /\ \A d \in Desktops :
       desk[d].at # "idle" => desk[d].pair \in Pairs /\ root[desk[d].pair] # NoPair
  /\ \A q \in Calls : call[q].at = "answered" /\ call[q].pair # NoPair => root[call[q].pair] # NoPair
  /\ \A q \in Executing : root[call[q].pair] # NoPair

LocksInv == \A q, o \in Executing : q # o => call[q].locks \cap call[o].locks = {}

\* Only rows that are there can be selected.
SelectedInv ==
  \A q \in Executing, p \in Pairs :
    TokenRow(p) \in Reserved(q) \/ SessionRow(p) \in Reserved(q) => root[p] # NoPair

FindInv ==
  \A q \in Executing : call[q].at = "find" =>
    Reserved(q) = {FindRow(call[q].kind, call[q].pair)}

\* The token of a rotation stays locked and usable; every valid session of its
\* family is among those the rotation revokes.
RetireInv ==
  \A q \in Executing : call[q].at = "retire" =>
    /\ TokenRow(call[q].pair) \in call[q].locks
    /\ refresh[call[q].pair] = "live"
    /\ \A o \in Pairs : root[o] = root[call[q].pair] /\ session[o] = "live" =>
         SessionRow(o) \in Reserved(q)

\* An ending revokes tokens of its family, and all of them unless a rotation was
\* committed meanwhile.
TokensInv ==
  \A q \in Executing : call[q].at = "tokens" => \A p \in Pairs :
    /\ TokenRow(p) \in Reserved(q) => root[p] = root[call[q].pair]
    /\ ~call[q].raced /\ root[p] = root[call[q].pair] => TokenRow(p) \in Reserved(q)

SessionsInv ==
  \A q \in Executing : call[q].at = "sessions" => \A p \in Pairs :
    /\ TokenRow(p) \notin call[q].todo
    /\ TokenRow(p) \in call[q].locks => SessionRow(p) \in Reserved(q)
    /\ ~call[q].raced /\ root[p] = root[call[q].pair] => TokenRow(p) \in call[q].locks

EndedInv == \A f \in Pairs : ended[f] # "no" => root[f] = f

FamilyInv == OneUsablePair /\ AccessNeedsItsToken /\ EndedInv /\ EndedFamilyStaysDead

RequestInv == LocksInv /\ SelectedInv /\ FindInv /\ RetireInv /\ TokensInv /\ SessionsInv

SessionInv == TypeOK /\ RowsInv /\ PairsInv /\ RequestInv /\ FamilyInv
----------------------------------------------------------------------------
(* Requests and rows *)

\* A request in execution has all its fields, one that is over has its answer.
LEMMA CallTypes ==
  ASSUME TypeOK, NEW q \in Calls
  PROVE  /\ q \in Executing => call[q] \in Request
         /\ q \notin Executing => call[q] \in {Free} \cup Answer
         /\ call[q].at = "answered" => call[q].pair \in Pairs \cup {NoPair}
<1>1. call[q] \in {Free} \cup Answer \cup Request
  BY DEF TypeOK
<1>2. CASE call[q] = Free
  BY <1>2 DEF Executing, Free
<1>3. CASE call[q] \in Answer
  BY <1>3 DEF Executing, Answer
<1>4. CASE call[q] \in Request
  BY <1>4 DEF Executing, Request
<1> QED
  BY <1>1, <1>2, <1>3, <1>4

\* The invariant holds while nobody has signed in.
LEMMA SessionStarts ==
  ASSUME Init
  PROVE  SessionInv
<1> USE SessionAssumption DEF Init
<1>1. TypeOK
  BY DEF TypeOK, Quiet, Free
<1>2. Executing = {}
  BY DEF Executing, Free
<1>3. RowsInv /\ FamilyInv
  BY DEF RowsInv, FamilyInv, OneUsablePair, AccessNeedsItsToken, EndedInv, EndedFamilyStaysDead
<1>4. PairsInv
  BY <1>2 DEF PairsInv, Quiet, Free
<1>5. RequestInv
  BY <1>2 DEF RequestInv, LocksInv, SelectedInv, FindInv, RetireInv, TokensInv, SessionsInv
<1> QED
  BY <1>1, <1>3, <1>4, <1>5 DEF SessionInv

\* What is said of rows alone is kept by steps that leave the rows alone.
LEMMA RowsKept ==
  ASSUME SessionInv, refresh' = refresh, session' = session, root' = root, ended' = ended
  PROVE  RowsInv' /\ FamilyInv'
BY DEF SessionInv, RowsInv, FamilyInv, OneUsablePair, AccessNeedsItsToken, EndedInv,
       EndedFamilyStaysDead, Dead, Family

\* A step that leaves the rows alone and at most ends requests.
LEMMA EndingRequests ==
  ASSUME SessionInv, UNCHANGED <<rows, ended>>, TypeOK', PairsInv',
         \A q \in Calls : call'[q] = call[q] \/ call'[q].at \in {"free", "answered"}
  PROVE  SessionInv'
<1> USE DEF rows
<1>1. Executing' \subseteq Executing /\ \A q \in Executing' : call'[q] = call[q]
  BY DEF Executing
<1>2. RowsInv' /\ FamilyInv'
  BY RowsKept
<1>3. \A q \in Executing' : Reserved(q)' = Reserved(q)
  BY <1>1 DEF Reserved
<1>4. LocksInv' /\ SelectedInv' /\ FindInv'
  BY <1>1, <1>3 DEF SessionInv, RequestInv, LocksInv, SelectedInv, FindInv
<1>5. RetireInv' /\ TokensInv' /\ SessionsInv'
  BY <1>1, <1>3 DEF SessionInv, RequestInv, RetireInv, TokensInv, SessionsInv
<1> QED
  BY <1>2, <1>4, <1>5 DEF SessionInv, RequestInv

\* Requests go on with the rows they have reserved; some of them are locked now.
LEMMA ReservationsKept ==
  ASSUME RequestInv, refresh' = refresh, session' = session, root' = root,
         Executing' = Executing, LocksInv',
         \A o \in Executing :
           /\ call'[o].at = call[o].at /\ call'[o].kind = call[o].kind
           /\ call'[o].pair = call[o].pair /\ call'[o].raced = call[o].raced
           /\ Reserved(o)' = Reserved(o)
           /\ call[o].locks \subseteq call'[o].locks
           /\ call'[o].todo \subseteq call[o].todo
  PROVE  RequestInv'
<1>1. SelectedInv'
  BY DEF RequestInv, SelectedInv
<1>2. FindInv'
  BY DEF RequestInv, FindInv
<1>3. RetireInv'
  BY DEF RequestInv, RetireInv
<1>4. TokensInv'
  BY DEF RequestInv, TokensInv
<1>5. SessionsInv'
  <2> SUFFICES ASSUME NEW o \in Executing, call[o].at = "sessions", NEW p \in Pairs
               PROVE  /\ TokenRow(p) \notin call'[o].todo
                      /\ TokenRow(p) \in call'[o].locks => SessionRow(p) \in Reserved(o)'
                      /\ ~call'[o].raced /\ root'[p] = root'[call'[o].pair] =>
                           TokenRow(p) \in call'[o].locks
    BY DEF SessionsInv
  <2>1. /\ TokenRow(p) \notin call[o].todo
        /\ TokenRow(p) \in call[o].locks => SessionRow(p) \in Reserved(o)
        /\ ~call[o].raced /\ root[p] = root[call[o].pair] => TokenRow(p) \in call[o].locks
    BY DEF RequestInv, SessionsInv
  <2>2. TokenRow(p) \in call'[o].locks => TokenRow(p) \in call[o].locks
    BY <2>1 DEF Reserved
  <2> QED
    BY <2>1, <2>2
<1> QED
  BY <1>1, <1>2, <1>3, <1>4, <1>5 DEF RequestInv

\* A statement gets a row that nobody else has.
LEMMA LockKeeps ==
  ASSUME SessionInv, NEW q \in Calls, NEW row \in Rows, Lock(q, row)
  PROVE  SessionInv'
<1>0. TypeOK /\ q \in Executing /\ call[q] \in Request
  BY CallTypes DEF SessionInv, Lock
<1>1. /\ call'[q] \in Request
      /\ call'[q].at = call[q].at /\ call'[q].kind = call[q].kind
      /\ call'[q].pair = call[q].pair /\ call'[q].raced = call[q].raced
      /\ call'[q].todo = call[q].todo \ {row} /\ call'[q].locks = call[q].locks \cup {row}
  BY <1>0 DEF TypeOK, Request, Lock
<1>2. \A o \in Calls \ {q} : call'[o] = call[o]
  BY <1>0 DEF TypeOK, Lock
<1>3. TypeOK'
  BY <1>0, <1>1 DEF TypeOK, Lock, rows
<1>4. Executing' = Executing
  BY <1>1, <1>2 DEF Executing
<1>5. \A o \in Executing : /\ call'[o].at = call[o].at /\ call'[o].kind = call[o].kind
                           /\ call'[o].pair = call[o].pair /\ call'[o].raced = call[o].raced
                           /\ Reserved(o)' = Reserved(o)
                           /\ call[o].locks \subseteq call'[o].locks
                           /\ call'[o].todo \subseteq call[o].todo
  <2>1. row \in call[q].todo
    BY DEF Lock
  <2> QED
    BY <1>1, <1>2, <2>1 DEF Executing, Reserved
<1>6. /\ refresh' = refresh /\ session' = session /\ root' = root /\ ended' = ended
      /\ desk' = desk /\ keyring' = keyring /\ lapsed' = lapsed
  BY DEF Lock, rows
<1>7. RowsInv' /\ FamilyInv'
  BY <1>6, RowsKept
<1>8. PairsInv'
  <2>1. \A o \in Calls : call'[o].at = "answered" => call'[o] = call[o]
    BY <1>0, <1>1, <1>2 DEF Executing
  <2> QED
    BY <2>1, <1>4, <1>5, <1>6 DEF SessionInv, PairsInv
<1>9. LocksInv'
  <2>1. \A o \in Executing \ {q} : row \notin call[o].locks
    BY DEF HeldByOther, Lock
  <2> QED
    BY <1>1, <1>2, <1>4, <2>1 DEF SessionInv, RequestInv, LocksInv, Executing
<1>10. RequestInv'
  BY <1>4, <1>5, <1>6, <1>9, ReservationsKept DEF SessionInv
<1> QED
  BY <1>3, <1>7, <1>8, <1>10 DEF SessionInv

\* A request begins a statement: what it selects is as its kind demands.
LEMMA StatementKeeps ==
  ASSUME SessionInv, NEW q \in Executing, NEW at \in {"retire", "tokens", "sessions"},
         NEW selected \in SUBSET Rows, Statement(q, at, selected),
         call[q].todo = {},
         \A p \in Pairs : TokenRow(p) \in selected \/ SessionRow(p) \in selected => root[p] # NoPair,
         at = "retire" =>
           /\ TokenRow(call[q].pair) \in call[q].locks
           /\ refresh[call[q].pair] = "live"
           /\ \A o \in Pairs : root[o] = root[call[q].pair] /\ session[o] = "live" =>
                SessionRow(o) \in selected \cup call[q].locks,
         at = "tokens" => \A p \in Pairs :
           /\ TokenRow(p) \in selected \cup call[q].locks => root[p] = root[call[q].pair]
           /\ root[p] = root[call[q].pair] => TokenRow(p) \in selected,
         at = "sessions" => \A p \in Pairs :
           /\ TokenRow(p) \notin selected
           /\ TokenRow(p) \in call[q].locks => SessionRow(p) \in selected
           /\ ~call[q].raced /\ root[p] = root[call[q].pair] => TokenRow(p) \in call[q].locks
  PROVE  SessionInv'
<1>0. TypeOK /\ q \in Calls /\ call[q] \in Request
  BY CallTypes DEF SessionInv, Executing
<1>1. /\ call'[q] \in Request
      /\ call'[q].at = at /\ call'[q].kind = call[q].kind
      /\ call'[q].pair = call[q].pair /\ call'[q].raced = call[q].raced
      /\ call'[q].todo = selected \ call[q].locks /\ call'[q].locks = call[q].locks
  BY ZenonT(60), <1>0 DEF TypeOK, Request, Statement
<1>2. \A o \in Calls \ {q} : call'[o] = call[o]
  BY <1>0 DEF TypeOK, Statement
<1>3. TypeOK'
  BY <1>0, <1>1 DEF TypeOK, Statement, rows
<1>4. Executing' = Executing
  BY <1>1, <1>2 DEF Executing
<1>5. /\ refresh' = refresh /\ session' = session /\ root' = root /\ ended' = ended
      /\ desk' = desk /\ keyring' = keyring /\ lapsed' = lapsed
  BY DEF Statement, rows
<1>6. RowsInv' /\ FamilyInv'
  BY <1>5, RowsKept
<1>7. Reserved(q)' = selected \cup call[q].locks
  BY <1>1 DEF Reserved
<1>8. \A o \in Executing \ {q} : call'[o] = call[o] /\ Reserved(o)' = Reserved(o)
  BY <1>2 DEF Executing, Reserved
<1>9. PairsInv'
  <2>1. \A o \in Calls : call'[o].at = "answered" => call'[o] = call[o]
    BY <1>0, <1>1, <1>2 DEF Executing
  <2>2. \A o \in Executing : call'[o].pair = call[o].pair
    BY <1>1, <1>8
  <2> QED
    BY <2>1, <2>2, <1>4, <1>5 DEF SessionInv, PairsInv
<1>10. LocksInv'
  BY <1>1, <1>4, <1>8 DEF SessionInv, RequestInv, LocksInv
<1>11. SelectedInv'
  <2>1. \A p \in Pairs : TokenRow(p) \in call[q].locks \/ SessionRow(p) \in call[q].locks => root[p] # NoPair
    BY DEF SessionInv, RequestInv, SelectedInv, Reserved
  <2> QED
    BY <2>1, <1>4, <1>5, <1>7, <1>8 DEF SessionInv, RequestInv, SelectedInv
<1>12. FindInv'
  BY <1>1, <1>4, <1>8 DEF SessionInv, RequestInv, FindInv
<1>13. RetireInv'
  BY <1>1, <1>4, <1>5, <1>7, <1>8 DEF SessionInv, RequestInv, RetireInv
<1>14. TokensInv'
  BY <1>1, <1>4, <1>5, <1>7, <1>8 DEF SessionInv, RequestInv, TokensInv
<1>15. SessionsInv'
  BY <1>1, <1>4, <1>5, <1>7, <1>8 DEF SessionInv, RequestInv, SessionsInv
<1> QED
  BY <1>3, <1>6, <1>9, <1>10, <1>11, <1>12, <1>13, <1>14, <1>15 DEF SessionInv, RequestInv

\* Rows of tokens are told from rows of sessions, and rows of one pair from those of another.
LEMMA RowFacts ==
  /\ \A p, o \in Pairs : TokenRow(p) # SessionRow(o)
  /\ \A p, o \in Pairs : (TokenRow(p) = TokenRow(o) \/ SessionRow(p) = SessionRow(o)) => p = o
  /\ \A p \in Pairs : TokenRow(p) \in Rows /\ SessionRow(p) \in Rows
BY DEF TokenRow, SessionRow, Rows

\* A rotation has found its token usable and selects the sessions to revoke.
LEMMA RetireKeeps ==
  ASSUME SessionInv, NEW q \in Calls, Retire(q)
  PROVE  SessionInv'
<1> DEFINE sel == {SessionRow(o) : o \in {o \in Family(root[call[q].pair]) : session[o] = "live"}}
<1>1. /\ call[q].at = "find" /\ call[q].kind = "rotate" /\ call[q].todo = {}
      /\ Usable(call[q].pair) /\ Statement(q, "retire", sel)
  BY DEF Retire
<1>2. q \in Executing /\ call[q] \in Request
  BY <1>1, CallTypes DEF Executing, SessionInv
<1>3. call[q].pair \in Pairs /\ root[call[q].pair] # NoPair
  BY <1>2 DEF Request, SessionInv, PairsInv
<1>4. sel \in SUBSET Rows
  BY RowFacts DEF Family
<1>5. \A p \in Pairs : TokenRow(p) \notin sel /\ (SessionRow(p) \in sel <=> p \in Family(root[call[q].pair]) /\ session[p] = "live")
  BY RowFacts DEF Family
<1>6. TokenRow(call[q].pair) \in call[q].locks
  <2>1. Reserved(q) = {TokenRow(call[q].pair)}
    BY <1>1, <1>2 DEF SessionInv, RequestInv, FindInv, FindRow
  <2> QED
    BY <2>1, <1>1 DEF Reserved
<1>7. refresh[call[q].pair] = "live"
  BY <1>1 DEF Usable
<1>8. \A p \in Pairs : SessionRow(p) \in sel => root[p] # NoPair
  BY <1>3, <1>5 DEF Family
<1>9. \A o \in Pairs : root[o] = root[call[q].pair] /\ session[o] = "live" => SessionRow(o) \in sel
  BY <1>5 DEF Family
<1> HIDE DEF sel
<1> QED
  BY <1>1, <1>2, <1>4, <1>5, <1>6, <1>7, <1>8, <1>9, StatementKeeps

\* An ending selects the tokens of its family.
LEMMA EndTokensKeeps ==
  ASSUME SessionInv, NEW q \in Calls, EndTokens(q)
  PROVE  SessionInv'
<1> DEFINE sel == Selected("tokens", root[call[q].pair])
<1>1. /\ call[q].at = "find" /\ call[q].todo = {} /\ Statement(q, "tokens", sel)
  BY DEF EndTokens
<1>2. q \in Executing /\ call[q] \in Request
  BY <1>1, CallTypes DEF Executing, SessionInv
<1>3. call[q].pair \in Pairs /\ root[call[q].pair] # NoPair
  BY <1>2 DEF Request, SessionInv, PairsInv
<1>4. sel = {TokenRow(p) : p \in Family(root[call[q].pair])}
  BY DEF Selected
<1>5. sel \in SUBSET Rows
  BY <1>4, RowFacts DEF Family
<1>6. \A p \in Pairs : SessionRow(p) \notin sel /\ (TokenRow(p) \in sel <=> root[p] = root[call[q].pair])
  BY <1>4, RowFacts DEF Family
<1>7. \A p \in Pairs : TokenRow(p) \in call[q].locks => root[p] = root[call[q].pair]
  <2>1. Reserved(q) = {FindRow(call[q].kind, call[q].pair)}
    BY <1>1, <1>2 DEF SessionInv, RequestInv, FindInv
  <2>2. call[q].locks \subseteq {TokenRow(call[q].pair), SessionRow(call[q].pair)}
    BY <2>1 DEF Reserved, FindRow
  <2> QED
    BY <2>2, <1>3, RowFacts
<1> HIDE DEF sel
<1> QED
  BY <1>1, <1>2, <1>3, <1>5, <1>6, <1>7, StatementKeeps

\* An ending has locked the tokens and selects the sessions.
LEMMA EndSessionsKeeps ==
  ASSUME SessionInv, NEW q \in Calls, EndSessions(q)
  PROVE  SessionInv'
<1> DEFINE sel == Selected("sessions", root[call[q].pair])
<1>1. /\ call[q].at = "tokens" /\ call[q].todo = {} /\ Statement(q, "sessions", sel)
  BY DEF EndSessions
<1>2. q \in Executing /\ call[q] \in Request
  BY <1>1, CallTypes DEF Executing, SessionInv
<1>3. call[q].pair \in Pairs /\ root[call[q].pair] # NoPair
  BY <1>2 DEF Request, SessionInv, PairsInv
<1>4. sel = {SessionRow(p) : p \in Family(root[call[q].pair])}
  BY DEF Selected
<1>5. sel \in SUBSET Rows
  BY <1>4, RowFacts DEF Family
<1>6. \A p \in Pairs : TokenRow(p) \notin sel /\ (SessionRow(p) \in sel <=> root[p] = root[call[q].pair])
  BY <1>4, RowFacts DEF Family
<1>7. \A p \in Pairs : /\ TokenRow(p) \in call[q].locks => root[p] = root[call[q].pair]
                       /\ ~call[q].raced /\ root[p] = root[call[q].pair] => TokenRow(p) \in call[q].locks
  BY <1>1, <1>2 DEF SessionInv, RequestInv, TokensInv, Reserved
<1> HIDE DEF sel
<1> QED
  BY <1>1, <1>2, <1>3, <1>5, <1>6, <1>7, StatementKeeps

\* What is left of a request that is over.
LEMMA AnswerTypes ==
  ASSUME NEW q \in Calls, NEW pair \in Pairs \cup {NoPair}
  PROVE  /\ Answered(q, pair) \in {Free} \cup Answer
         /\ Answered(q, pair).at \in {"free", "answered"}
         /\ Answered(q, pair).at = "answered" => Answered(q, pair).pair = pair
BY DEF Answered, Free, Answer

\* While a rotation is about to commit, it is the only one of its family that may.
LEMMA RotationAlone ==
  ASSUME SessionInv, NEW q \in Executing, call[q].at = "retire",
         NEW o \in Executing \ {q}, call[o].at = "retire"
  PROVE  root[call[o].pair] # root[call[q].pair]
<1>1. call[q] \in Request /\ call[o] \in Request
  BY CallTypes DEF SessionInv, Executing
<1>2. call[q].pair \in Pairs /\ call[o].pair \in Pairs
  BY <1>1 DEF Request
<1>3. refresh[call[q].pair] = "live" /\ TokenRow(call[q].pair) \in call[q].locks
  BY DEF SessionInv, RequestInv, RetireInv
<1>4. refresh[call[o].pair] = "live" /\ TokenRow(call[o].pair) \in call[o].locks
  BY DEF SessionInv, RequestInv, RetireInv
<1>5. call[q].pair # call[o].pair
  BY <1>3, <1>4 DEF SessionInv, RequestInv, LocksInv
<1> QED
  BY <1>2, <1>3, <1>4, <1>5 DEF SessionInv, FamilyInv, OneUsablePair

\* A rotation commits: the next pair is the only usable one of its family.
LEMMA CommitRotationKeeps ==
  ASSUME SessionInv, NEW q \in Calls, NEW n \in Pairs, CommitRotation(q, n)
  PROVE  SessionInv'
<1> DEFINE p == call[q].pair
           f == root[p]
<1>1. /\ call[q].at = "retire" /\ call[q].todo = {} /\ root[n] = NoPair
      /\ lapsed' = lapsed /\ keyring' = keyring /\ desk' = desk /\ faults' = faults
      /\ ended' = ended /\ calm' = calm
  BY DEF CommitRotation, Fresh
<1>2. TypeOK /\ q \in Executing /\ call[q] \in Request
  BY <1>1, CallTypes DEF Executing, SessionInv
<1>3. p \in Pairs /\ f \in Pairs /\ f # NoPair /\ p # n /\ root[f] = f
  BY <1>1, <1>2 DEF Request, SessionInv, PairsInv, RowsInv, TypeOK
<1>4. /\ refresh' = [refresh EXCEPT ![p] = "consumed", ![n] = "live"]
      /\ session' = [Written("session", session, call[q].locks, "revoked") EXCEPT ![n] = "live"]
      /\ root' = [root EXCEPT ![n] = f]
      /\ call' = [Overtaken(f, q) EXCEPT ![q] = Answered(q, n)]
  BY DEF CommitRotation
<1>5. /\ root'[n] = f /\ refresh'[n] = "live" /\ session'[n] = "live" /\ refresh'[p] = "consumed"
      /\ \A o \in Pairs \ {n} : root'[o] = root[o]
      /\ \A o \in Pairs \ {n, p} : refresh'[o] = refresh[o]
      /\ \A o \in Pairs \ {n} : session'[o] = IF SessionRow(o) \in call[q].locks THEN "revoked" ELSE session[o]
  BY <1>2, <1>3, <1>4 DEF TypeOK, Written, SessionRow
<1>6. /\ call'[q] = Answered(q, n)
      /\ \A o \in Calls \ {q} :
           call'[o] = IF o \in Executing \ {q} /\ call[o].at \in {"tokens", "sessions"} /\ root[call[o].pair] = f
                      THEN [call[o] EXCEPT !.raced = TRUE] ELSE call[o]
  BY <1>4 DEF Overtaken
<1>7. \A o \in Executing \ {q} :
        /\ call'[o] \in Request
        /\ call'[o].at = call[o].at /\ call'[o].kind = call[o].kind
        /\ call'[o].pair = call[o].pair /\ call'[o].todo = call[o].todo
        /\ call'[o].locks = call[o].locks
        /\ ~call'[o].raced => ~call[o].raced
        /\ call[o].at \in {"tokens", "sessions"} /\ root[call[o].pair] = f => call'[o].raced
  <2> TAKE o \in Executing \ {q}
  <2>1. o \in Calls /\ call[o] \in Request
    BY <1>2, CallTypes DEF Executing
  <2>2. CASE call[o].at \in {"tokens", "sessions"} /\ root[call[o].pair] = f
    BY ZenonT(60), <2>1, <2>2, <1>6 DEF Request
  <2>3. CASE ~(call[o].at \in {"tokens", "sessions"} /\ root[call[o].pair] = f)
    BY <2>1, <2>3, <1>6
  <2> QED
    BY <2>2, <2>3
<1>8. \A o \in Calls \ Executing : call'[o] = call[o]
  BY <1>2, <1>6
<1>9. Executing' = Executing \ {q}
  BY <1>6, <1>7, <1>8, AnswerTypes DEF Executing
<1>10. TypeOK'
  <2>1. call' \in [Calls -> {Free} \cup Answer \cup Request]
    <3>1. \A o \in Calls : call'[o] \in {Free} \cup Answer \cup Request
      BY <1>2, <1>6, <1>7, <1>8, AnswerTypes DEF TypeOK
    <3>2. call' = [o \in Calls |-> call'[o]]
      BY <1>4 DEF Overtaken
    <3> QED
      BY <3>1, <3>2
  <2>2. refresh' \in [Pairs -> {"none", "live", "consumed", "revoked"}]
    BY <1>2, <1>4 DEF TypeOK
  <2>3. session' \in [Pairs -> {"none", "live", "revoked"}]
    <3>1. Written("session", session, call[q].locks, "revoked") \in [Pairs -> {"none", "live", "revoked"}]
      BY <1>2 DEF TypeOK, Written
    <3> QED
      BY <3>1, <1>4
  <2>4. root' \in [Pairs -> Pairs \cup {NoPair}]
    BY <1>2, <1>3, <1>4 DEF TypeOK
  <2> QED
    BY <1>1, <1>2, <2>1, <2>2, <2>3, <2>4 DEF TypeOK
<1> HIDE DEF p, f
<1>11. RowsInv'
  <2>1. \A o \in Pairs : SessionRow(o) \in call[q].locks => root[o] # NoPair
    BY <1>2 DEF SessionInv, RequestInv, SelectedInv, Reserved
  <2>2. \A o \in Pairs : root'[o] = NoPair => refresh'[o] = "none" /\ session'[o] = "none"
    <3> SUFFICES ASSUME NEW o \in Pairs, root'[o] = NoPair
                 PROVE  refresh'[o] = "none" /\ session'[o] = "none"
      OBVIOUS
    <3>1. o # n /\ root[o] = NoPair
      BY <1>3, <1>5
    <3>2. o # p
      BY <1>3, <3>1 DEF f
    <3> QED
      BY <3>1, <3>2, <1>5, <2>1 DEF SessionInv, RowsInv
  <2>3. \A o \in Pairs : root'[o] # NoPair => root'[root'[o]] = root'[o]
    <3> SUFFICES ASSUME NEW o \in Pairs, root'[o] # NoPair
                 PROVE  root'[root'[o]] = root'[o]
      OBVIOUS
    <3>1. CASE o = n
      <4>1. f # n
        BY <1>1, <1>3
      <4> QED
        BY <4>1, <3>1, <1>3, <1>5
    <3>2. CASE o # n
      <4>1. root'[o] = root[o] /\ root[root[o]] = root[o] /\ root[o] \in Pairs
        BY <3>2, <1>2, <1>5 DEF SessionInv, RowsInv, TypeOK
      <4>2. root[o] # n
        BY <4>1, <1>1
      <4> QED
        BY <4>1, <4>2, <1>5
    <3> QED
      BY <3>1, <3>2
  <2> QED
    BY <2>2, <2>3 DEF RowsInv
<1>12. PairsInv'
  <2>1. \A o \in Pairs : root[o] # NoPair => root'[o] # NoPair
    BY <1>1, <1>5
  <2>2. keyring' # NoPair => root'[keyring'] # NoPair
    BY <2>1, <1>1, <1>2 DEF SessionInv, PairsInv, TypeOK
  <2>3. \A d \in Desktops :
          desk'[d].at # "idle" => desk'[d].pair \in Pairs /\ root'[desk'[d].pair] # NoPair
    BY <2>1, <1>1 DEF SessionInv, PairsInv
  <2>4. \A o \in Calls : call'[o].at = "answered" /\ call'[o].pair # NoPair => root'[call'[o].pair] # NoPair
    <3> SUFFICES ASSUME NEW o \in Calls, call'[o].at = "answered", call'[o].pair # NoPair
                 PROVE  root'[call'[o].pair] # NoPair
      OBVIOUS
    <3>1. CASE o = q
      BY <3>1, <1>3, <1>5, <1>6, AnswerTypes
    <3>2. CASE o # q
      <4>1. o \notin Executing
        BY <3>2, <1>9 DEF Executing
      <4>2. call'[o] = call[o] /\ call[o].pair \in Pairs
        BY <4>1, <1>2, <1>8, CallTypes
      <4> QED
        BY <4>2, <2>1 DEF SessionInv, PairsInv
    <3> QED
      BY <3>1, <3>2
  <2>5. \A o \in Executing' : root'[call'[o].pair] # NoPair
    <3>1. \A o \in Executing \ {q} : call'[o].pair = call[o].pair /\ call[o].pair \in Pairs
      BY <1>7 DEF Request
    <3> QED
      BY <3>1, <2>1, <1>9 DEF SessionInv, PairsInv
  <2> QED
    BY <2>2, <2>3, <2>4, <2>5 DEF PairsInv
<1>13. FamilyInv'
  <2>1. refresh[p] = "live" /\ TokenRow(p) \in call[q].locks
    BY <1>1, <1>2 DEF SessionInv, RequestInv, RetireInv, p
  <2>2. \A o \in Pairs : root[o] = f /\ session[o] = "live" => SessionRow(o) \in call[q].locks
    BY <1>1, <1>2 DEF SessionInv, RequestInv, RetireInv, Reserved, p, f
  <2>3. \A o \in Pairs \ {n} : root[o] = f => refresh'[o] # "live" /\ session'[o] # "live"
    BY <2>1, <2>2, <1>2, <1>3, <1>5 DEF SessionInv, FamilyInv, OneUsablePair, f
  <2>4. \A o \in Pairs \ {n} : (refresh'[o] = "live" => refresh[o] = "live")
                             /\ (session'[o] = "live" => session[o] = "live")
    BY <1>3, <1>5
  <2>5. OneUsablePair'
    BY <2>3, <2>4, <1>5 DEF SessionInv, FamilyInv, OneUsablePair
  <2>6. AccessNeedsItsToken'
    <3> SUFFICES ASSUME NEW o \in Pairs, session'[o] = "live" PROVE refresh'[o] = "live"
      BY DEF AccessNeedsItsToken
    <3>1. CASE o = n
      BY <3>1, <1>5
    <3>2. CASE o # n
      <4>1. root[o] # f
        BY <3>2, <2>3
      <4>2. o # p
        BY <4>1 DEF f
      <4> QED
        BY <3>2, <4>2, <2>4, <1>5 DEF SessionInv, FamilyInv, AccessNeedsItsToken
    <3> QED
      BY <3>1, <3>2
  <2>7. EndedInv'
    <3> SUFFICES ASSUME NEW g \in Pairs, ended[g] # "no" PROVE root'[g] = g
      BY <1>1 DEF EndedInv
    <3>1. root[g] = g
      BY DEF SessionInv, FamilyInv, EndedInv
    <3> QED
      BY <3>1, <1>1, <1>5, SessionAssumption
  <2>8. EndedFamilyStaysDead'
    <3> SUFFICES ASSUME NEW g \in Pairs, ended[g] = "undisturbed", NEW o \in Pairs, root'[o] = g
                 PROVE  refresh'[o] # "live" /\ session'[o] # "live"
      BY <1>1 DEF EndedFamilyStaysDead, Dead, Family
    <3>1. \A x \in Pairs : root[x] = g => refresh[x] # "live" /\ session[x] # "live"
      BY DEF SessionInv, FamilyInv, EndedFamilyStaysDead, Dead, Family
    <3>2. g # f
      BY <3>1, <2>1, <1>3 DEF f
    <3> QED
      BY <3>1, <3>2, <2>4, <1>5
  <2> QED
    BY <2>5, <2>6, <2>7, <2>8 DEF FamilyInv
<1>14. \A o \in Executing \ {q} : Reserved(o)' = Reserved(o)
  BY <1>7 DEF Reserved
<1>15. \A o \in Executing \ {q}, x \in Pairs :
         TokenRow(x) \in Reserved(o) \/ SessionRow(x) \in Reserved(o) => x # n
  BY <1>1 DEF SessionInv, RequestInv, SelectedInv
<1>16. \A o \in Executing \ {q} : call[o].pair \in Pairs /\ call[o].pair # n
  <2>1. \A o \in Executing \ {q} : call[o].pair \in Pairs
    BY <1>7 DEF Request
  <2> QED
    BY <2>1, <1>1 DEF SessionInv, PairsInv
<1>17. LocksInv' /\ FindInv'
  BY <1>7, <1>9, <1>14 DEF SessionInv, RequestInv, LocksInv, FindInv
<1>18. SelectedInv'
  BY <1>3, <1>5, <1>9, <1>14, <1>15 DEF SessionInv, RequestInv, SelectedInv
<1>19. RetireInv'
  <2> SUFFICES ASSUME NEW o \in Executing \ {q}, call[o].at = "retire"
               PROVE  /\ TokenRow(call[o].pair) \in call[o].locks
                      /\ refresh'[call[o].pair] = "live"
                      /\ \A x \in Pairs : root'[x] = root'[call[o].pair] /\ session'[x] = "live" =>
                           SessionRow(x) \in Reserved(o)
    BY <1>7, <1>9, <1>14 DEF RetireInv
  <2>1. /\ TokenRow(call[o].pair) \in call[o].locks
        /\ refresh[call[o].pair] = "live"
        /\ \A x \in Pairs : root[x] = root[call[o].pair] /\ session[x] = "live" =>
             SessionRow(x) \in Reserved(o)
    BY DEF SessionInv, RequestInv, RetireInv
  <2>2. root[call[o].pair] # f
    BY <1>1, <1>2, RotationAlone DEF f, p
  <2>3. refresh'[call[o].pair] = "live"
    BY <2>1, <2>2, <1>5, <1>16 DEF f
  <2>4. \A x \in Pairs : root'[x] = root'[call[o].pair] /\ session'[x] = "live" =>
          x # n /\ root[x] = root[call[o].pair] /\ session[x] = "live"
    BY <2>2, <1>5, <1>16
  <2> QED
    BY <2>1, <2>3, <2>4
<1>20. TokensInv'
  <2> SUFFICES ASSUME NEW o \in Executing \ {q}, call[o].at = "tokens", NEW x \in Pairs
               PROVE  /\ TokenRow(x) \in Reserved(o) => root'[x] = root'[call[o].pair]
                      /\ ~call'[o].raced /\ root'[x] = root'[call[o].pair] => TokenRow(x) \in Reserved(o)
    BY <1>7, <1>9, <1>14 DEF TokensInv
  <2>1. /\ TokenRow(x) \in Reserved(o) => root[x] = root[call[o].pair]
        /\ ~call[o].raced /\ root[x] = root[call[o].pair] => TokenRow(x) \in Reserved(o)
    BY DEF SessionInv, RequestInv, TokensInv
  <2>2. TokenRow(x) \in Reserved(o) => x # n
    BY <1>15
  <2>3. root'[call[o].pair] = root[call[o].pair]
    BY <1>5, <1>16
  <2>4. ~call'[o].raced => ~call[o].raced /\ root[call[o].pair] # f
    BY <1>7
  <2> QED
    BY <2>1, <2>2, <2>3, <2>4, <1>5
<1>21. SessionsInv'
  <2> SUFFICES ASSUME NEW o \in Executing \ {q}, call[o].at = "sessions", NEW x \in Pairs
               PROVE  /\ TokenRow(x) \notin call[o].todo
                      /\ TokenRow(x) \in call[o].locks => SessionRow(x) \in Reserved(o)
                      /\ ~call'[o].raced /\ root'[x] = root'[call[o].pair] => TokenRow(x) \in call[o].locks
    BY <1>7, <1>9, <1>14 DEF SessionsInv
  <2>1. /\ TokenRow(x) \notin call[o].todo
        /\ TokenRow(x) \in call[o].locks => SessionRow(x) \in Reserved(o)
        /\ ~call[o].raced /\ root[x] = root[call[o].pair] => TokenRow(x) \in call[o].locks
    BY DEF SessionInv, RequestInv, SessionsInv
  <2>2. root'[call[o].pair] = root[call[o].pair]
    BY <1>5, <1>16
  <2>3. ~call'[o].raced => ~call[o].raced /\ root[call[o].pair] # f
    BY <1>7
  <2> QED
    BY <2>1, <2>2, <2>3, <1>5
<1> QED
  BY <1>10, <1>11, <1>12, <1>13, <1>17, <1>18, <1>19, <1>20, <1>21 DEF SessionInv, RequestInv

\* An ending commits: no token is revoked without its session.
LEMMA CommitEndKeeps ==
  ASSUME SessionInv, NEW q \in Calls, CommitEnd(q)
  PROVE  SessionInv'
<1> DEFINE f == root[call[q].pair]
<1>1. /\ call[q].at = "sessions" /\ call[q].todo = {}
      /\ refresh' = Written("token", refresh, call[q].locks, "revoked")
      /\ session' = Written("session", session, call[q].locks, "revoked")
      /\ ended' = [ended EXCEPT ![f] =
                     IF ~call[q].raced THEN "undisturbed"
                     ELSE IF call[q].kind = "logout" THEN "signed_out" ELSE @]
      /\ call' = [call EXCEPT ![q] = Answered(q, NoPair)]
      /\ root' = root /\ lapsed' = lapsed /\ keyring' = keyring /\ desk' = desk
      /\ faults' = faults /\ calm' = calm
  BY DEF CommitEnd
<1>2. TypeOK /\ q \in Executing /\ call[q] \in Request
  BY <1>1, CallTypes DEF Executing, SessionInv
<1>3. call[q].pair \in Pairs /\ f \in Pairs /\ root[f] = f
  BY <1>2 DEF Request, SessionInv, PairsInv, RowsInv, TypeOK
<1>4. \A x \in Pairs :
        /\ refresh'[x] = IF TokenRow(x) \in call[q].locks THEN "revoked" ELSE refresh[x]
        /\ session'[x] = IF SessionRow(x) \in call[q].locks THEN "revoked" ELSE session[x]
  BY <1>1 DEF Written, TokenRow, SessionRow
<1>5. \A x \in Pairs :
        /\ TokenRow(x) \in call[q].locks => SessionRow(x) \in call[q].locks
        /\ ~call[q].raced /\ root[x] = f => TokenRow(x) \in call[q].locks
  BY <1>1, <1>2 DEF SessionInv, RequestInv, SessionsInv, Reserved
<1>6. /\ \A g \in Pairs \ {f} : ended'[g] = ended[g]
      /\ ended'[f] = "undisturbed" => ~call[q].raced \/ ended[f] = "undisturbed"
      /\ ended' \in [Pairs -> {"no", "signed_out", "undisturbed"}]
  BY <1>1, <1>2, <1>3 DEF TypeOK
<1>7. call'[q] = Answered(q, NoPair) /\ \A o \in Calls \ {q} : call'[o] = call[o]
  BY <1>1, <1>2 DEF TypeOK
<1>8. Executing' = Executing \ {q}
  BY <1>7, AnswerTypes DEF Executing
<1>9. TypeOK'
  <2>1. call' \in [Calls -> {Free} \cup Answer \cup Request]
    BY <1>1, <1>2, AnswerTypes DEF TypeOK
  <2>2. refresh' \in [Pairs -> {"none", "live", "consumed", "revoked"}]
    BY <1>1, <1>2 DEF TypeOK, Written
  <2>3. session' \in [Pairs -> {"none", "live", "revoked"}]
    BY <1>1, <1>2 DEF TypeOK, Written
  <2> QED
    BY <1>1, <1>2, <1>6, <2>1, <2>2, <2>3 DEF TypeOK
<1> HIDE DEF f
<1>10. RowsInv'
  <2>1. \A x \in Pairs : TokenRow(x) \in call[q].locks \/ SessionRow(x) \in call[q].locks => root[x] # NoPair
    BY <1>2 DEF SessionInv, RequestInv, SelectedInv, Reserved
  <2> QED
    BY <2>1, <1>1, <1>4 DEF SessionInv, RowsInv
<1>11. PairsInv'
  <2>1. \A o \in Calls : call'[o].at = "answered" /\ call'[o].pair # NoPair => o # q
    BY <1>7, AnswerTypes
  <2>2. \A o \in Calls : call'[o].at = "answered" /\ call'[o].pair # NoPair => root'[call'[o].pair] # NoPair
    BY <2>1, <1>1, <1>7 DEF SessionInv, PairsInv
  <2>3. \A o \in Executing' : root'[call'[o].pair] # NoPair
    BY <1>1, <1>7, <1>8 DEF SessionInv, PairsInv, Executing
  <2> QED
    BY <2>2, <2>3, <1>1 DEF SessionInv, PairsInv
<1>12. \A x \in Pairs : (refresh'[x] = "live" => refresh[x] = "live")
                      /\ (session'[x] = "live" => session[x] = "live")
  BY <1>4
<1>13. FamilyInv'
  <2>1. OneUsablePair'
    BY <1>1, <1>12 DEF SessionInv, FamilyInv, OneUsablePair
  <2>2. AccessNeedsItsToken'
    BY <1>4, <1>5 DEF SessionInv, FamilyInv, AccessNeedsItsToken
  <2>3. EndedInv'
    BY <1>1, <1>3, <1>6 DEF SessionInv, FamilyInv, EndedInv
  <2>4. EndedFamilyStaysDead'
    <3> SUFFICES ASSUME NEW g \in Pairs, ended'[g] = "undisturbed", NEW x \in Pairs, root[x] = g
                 PROVE  refresh'[x] # "live" /\ session'[x] # "live"
      BY <1>1 DEF EndedFamilyStaysDead, Dead, Family
    <3>1. CASE ended[g] = "undisturbed"
      BY <3>1, <1>12 DEF SessionInv, FamilyInv, EndedFamilyStaysDead, Dead, Family
    <3>2. CASE ended[g] # "undisturbed"
      <4>1. g = f /\ ~call[q].raced
        BY <3>2, <1>6
      <4> QED
        BY <4>1, <1>4, <1>5
    <3> QED
      BY <3>1, <3>2
  <2> QED
    BY <2>1, <2>2, <2>3, <2>4 DEF FamilyInv
<1>14. \A o \in Executing' : o \in Executing /\ call'[o] = call[o] /\ Reserved(o)' = Reserved(o)
  BY <1>7, <1>8 DEF Reserved, Executing
<1>15. LocksInv' /\ SelectedInv' /\ FindInv'
  BY <1>1, <1>14 DEF SessionInv, RequestInv, LocksInv, SelectedInv, FindInv
<1>16. RetireInv'
  <2> SUFFICES ASSUME NEW o \in Executing \ {q}, call[o].at = "retire"
               PROVE  /\ TokenRow(call[o].pair) \in call[o].locks
                      /\ refresh'[call[o].pair] = "live"
                      /\ \A x \in Pairs : root[x] = root[call[o].pair] /\ session'[x] = "live" =>
                           SessionRow(x) \in Reserved(o)
    BY <1>1, <1>8, <1>14 DEF RetireInv
  <2>1. /\ TokenRow(call[o].pair) \in call[o].locks
        /\ refresh[call[o].pair] = "live"
        /\ \A x \in Pairs : root[x] = root[call[o].pair] /\ session[x] = "live" =>
             SessionRow(x) \in Reserved(o)
    BY DEF SessionInv, RequestInv, RetireInv
  <2>2. call[o].pair \in Pairs
    BY <1>2, CallTypes DEF Executing, Request
  <2>3. TokenRow(call[o].pair) \notin call[q].locks
    BY <2>1, <1>2 DEF SessionInv, RequestInv, LocksInv
  <2> QED
    BY <2>1, <2>2, <2>3, <1>4, <1>12
<1>17. TokensInv' /\ SessionsInv'
  BY <1>1, <1>14 DEF SessionInv, RequestInv, TokensInv, SessionsInv
<1> QED
  BY <1>9, <1>10, <1>11, <1>13, <1>15, <1>16, <1>17 DEF SessionInv, RequestInv
----------------------------------------------------------------------------
(* Desktop processes *)

\* A new request is sent for a pair that has been issued.
LEMMA SendKeeps ==
  ASSUME SessionInv, NEW d \in Desktops, NEW q \in Calls, NEW p \in Pairs, root[p] # NoPair,
         NEW kind \in {"rotate", "logout"}, NEW at \in {"renew", "renew_again", "logout"},
         Send(d, q, kind, p, at), keyring' \in {keyring, NoPair}, calm' \in BOOLEAN,
         UNCHANGED <<rows, lapsed, faults, ended>>
  PROVE  SessionInv'
<1> DEFINE new == [at |-> "find", kind |-> kind, pair |-> p,
                   todo |-> {FindRow(kind, p)}, locks |-> {}, raced |-> FALSE]
<1>1. /\ call[q] = Free
      /\ call' = [call EXCEPT ![q] = new]
      /\ desk' = [desk EXCEPT ![d] = [at |-> at, pair |-> p, call |-> q]]
      /\ refresh' = refresh /\ session' = session /\ root' = root /\ ended' = ended
      /\ lapsed' = lapsed /\ faults' = faults
  BY DEF Send, rows
<1>2. TypeOK /\ q \notin Executing
  BY <1>1 DEF SessionInv, Executing, Free
<1>3. new \in Request /\ new.at = "find"
  BY RowFacts DEF Request, FindRow
<1>4. call'[q] = new /\ \A o \in Calls \ {q} : call'[o] = call[o]
  BY <1>1, <1>2 DEF TypeOK
<1>5. Executing' = Executing \cup {q}
  BY <1>3, <1>4 DEF Executing
<1>6. \A o \in Executing : o # q /\ call'[o] = call[o] /\ Reserved(o)' = Reserved(o)
  BY <1>2, <1>4 DEF Executing, Reserved
<1>7. /\ call'[q].at = "find" /\ call'[q].kind = kind /\ call'[q].pair = p
      /\ call'[q].locks = {} /\ Reserved(q)' = {FindRow(kind, p)}
  BY <1>4 DEF Reserved
<1>8. TypeOK'
  <2>1. call' \in [Calls -> {Free} \cup Answer \cup Request]
    BY <1>1, <1>2, <1>3 DEF TypeOK
  <2>2. desk'[d] \in [at : {"idle", "use", "use_again", "renew", "renew_again", "logout"},
                      pair : Pairs \cup {NoPair}, call : Calls \cup {NoCall}]
    BY <1>1, <1>2 DEF TypeOK
  <2> HIDE DEF new
  <2>3. desk' \in [Desktops -> [at : {"idle", "use", "use_again", "renew", "renew_again", "logout"},
                                pair : Pairs \cup {NoPair}, call : Calls \cup {NoCall}]]
    BY <1>1, <1>2, <2>2 DEF TypeOK
  <2> QED
    BY <1>1, <1>2, <2>1, <2>3 DEF TypeOK
<1> HIDE DEF new
<1>9. RowsInv' /\ FamilyInv'
  BY <1>1, RowsKept
<1>10. PairsInv'
  <2>1. keyring' # NoPair => root'[keyring'] # NoPair
    BY <1>1 DEF SessionInv, PairsInv
  <2>2. desk'[d].pair = p /\ \A o \in Desktops \ {d} : desk'[o] = desk[o]
    BY <1>1, <1>2 DEF TypeOK
  <2>3. \A o \in Desktops :
          desk'[o].at # "idle" => desk'[o].pair \in Pairs /\ root'[desk'[o].pair] # NoPair
    BY <1>1, <2>2 DEF SessionInv, PairsInv
  <2>4. \A o \in Calls : call'[o].at = "answered" /\ call'[o].pair # NoPair => root'[call'[o].pair] # NoPair
    BY <1>1, <1>4, <1>7 DEF SessionInv, PairsInv
  <2>5. \A o \in Executing' : root'[call'[o].pair] # NoPair
    BY <1>1, <1>5, <1>6, <1>7 DEF SessionInv, PairsInv
  <2> QED
    BY <2>1, <2>3, <2>4, <2>5 DEF PairsInv
<1>11. LocksInv'
  BY <1>5, <1>6, <1>7 DEF SessionInv, RequestInv, LocksInv
<1>12. SelectedInv'
  <2>1. \A x \in Pairs : TokenRow(x) = FindRow(kind, p) \/ SessionRow(x) = FindRow(kind, p) => x = p
    BY RowFacts DEF FindRow
  <2>2. \A x \in Pairs : TokenRow(x) \in Reserved(q)' \/ SessionRow(x) \in Reserved(q)' => root'[x] # NoPair
    BY <2>1, <1>1, <1>7
  <2>3. \A o \in Executing, x \in Pairs :
          TokenRow(x) \in Reserved(o)' \/ SessionRow(x) \in Reserved(o)' => root'[x] # NoPair
    BY <1>1, <1>6 DEF SessionInv, RequestInv, SelectedInv
  <2> QED
    BY <2>2, <2>3, <1>5 DEF SelectedInv
<1>13. FindInv'
  BY <1>5, <1>6, <1>7 DEF SessionInv, RequestInv, FindInv
<1>14. RetireInv'
  BY <1>1, <1>5, <1>6, <1>7 DEF SessionInv, RequestInv, RetireInv
<1>15. TokensInv' /\ SessionsInv'
  BY <1>1, <1>5, <1>6, <1>7 DEF SessionInv, RequestInv, TokensInv, SessionsInv
<1> QED
  BY <1>8, <1>9, <1>10, <1>11, <1>12, <1>13, <1>14, <1>15 DEF SessionInv, RequestInv

\* A sign-in starts a family of its own.
LEMMA LoginKeeps ==
  ASSUME SessionInv, NEW d \in Desktops, NEW n \in Pairs, Login(d, n)
  PROVE  SessionInv'
<1>1. /\ root[n] = NoPair
      /\ refresh' = [refresh EXCEPT ![n] = "live"]
      /\ session' = [session EXCEPT ![n] = "live"]
      /\ root' = [root EXCEPT ![n] = n]
      /\ keyring' = n /\ calm' = (calm /\ Alone(d))
      /\ lapsed' = lapsed /\ call' = call /\ desk' = desk /\ faults' = faults /\ ended' = ended
  BY DEF Login, Fresh
<1>2. TypeOK /\ NoPair \notin Pairs
  BY SessionAssumption DEF SessionInv
<1>3. /\ root'[n] = n /\ refresh'[n] = "live" /\ session'[n] = "live"
      /\ \A x \in Pairs \ {n} : root'[x] = root[x] /\ refresh'[x] = refresh[x] /\ session'[x] = session[x]
  BY <1>1, <1>2 DEF TypeOK
<1>4. \A x \in Pairs \ {n} : root[x] # n
  <2>1. \A x \in Pairs : root[x] # NoPair => root[root[x]] # NoPair
    BY DEF SessionInv, RowsInv
  <2> QED
    BY <2>1, <1>1, <1>2
<1>5. TypeOK'
  <2>1. refresh' \in [Pairs -> {"none", "live", "consumed", "revoked"}]
    BY <1>1, <1>2 DEF TypeOK
  <2>2. session' \in [Pairs -> {"none", "live", "revoked"}]
    BY <1>1, <1>2 DEF TypeOK
  <2>3. root' \in [Pairs -> Pairs \cup {NoPair}]
    BY <1>1, <1>2 DEF TypeOK
  <2>4. calm' \in BOOLEAN
    BY <1>1, <1>2, Zenon DEF TypeOK
  <2> QED
    BY <1>1, <1>2, <2>1, <2>2, <2>3, <2>4 DEF TypeOK
<1>6. RowsInv'
  <2>1. \A x \in Pairs : root'[x] = NoPair => refresh'[x] = "none" /\ session'[x] = "none"
    BY <1>2, <1>3 DEF SessionInv, RowsInv
  <2>2. \A x \in Pairs : root'[x] # NoPair => root'[root'[x]] = root'[x]
    <3> SUFFICES ASSUME NEW x \in Pairs \ {n}, root[x] # NoPair PROVE root'[root[x]] = root[x]
      BY <1>3
    <3>1. root[x] \in Pairs /\ root[x] # n /\ root[root[x]] = root[x]
      BY <1>2, <1>4 DEF SessionInv, RowsInv, TypeOK
    <3> QED
      BY <3>1, <1>3
  <2> QED
    BY <2>1, <2>2 DEF RowsInv
<1>7. \A x \in Pairs : root[x] # NoPair => x # n /\ root'[x] # NoPair
  BY <1>1, <1>3
<1>8. Executing' = Executing /\ \A o \in Executing : call'[o] = call[o] /\ Reserved(o)' = Reserved(o)
  BY <1>1 DEF Executing, Reserved
<1>9. \A o \in Executing : call[o].pair \in Pairs /\ call[o].pair # n
  <2>1. \A o \in Executing : call[o].pair \in Pairs
    BY <1>2, CallTypes DEF Executing, Request
  <2> QED
    BY <2>1, <1>1 DEF SessionInv, PairsInv
<1>10. PairsInv'
  <2>1. \A o \in Calls : call[o].at = "answered" /\ call[o].pair # NoPair => root'[call[o].pair] # NoPair
    BY <1>2, <1>7, CallTypes DEF SessionInv, PairsInv
  <2>2. \A o \in Desktops : desk[o].at # "idle" => desk[o].pair \in Pairs /\ root'[desk[o].pair] # NoPair
    BY <1>7 DEF SessionInv, PairsInv
  <2>3. \A o \in Executing : root'[call[o].pair] # NoPair
    BY <1>7, <1>9 DEF SessionInv, PairsInv
  <2>4. root'[keyring'] # NoPair
    BY <1>1, <1>2, <1>3
  <2> QED
    BY <1>1, <1>8, <2>1, <2>2, <2>3, <2>4 DEF PairsInv
<1>11. FamilyInv'
  <2>1. OneUsablePair'
    BY <1>2, <1>3, <1>4 DEF SessionInv, FamilyInv, OneUsablePair
  <2>2. AccessNeedsItsToken'
    BY <1>3 DEF SessionInv, FamilyInv, AccessNeedsItsToken
  <2>3. EndedInv'
    BY <1>1, <1>3 DEF SessionInv, FamilyInv, EndedInv
  <2>4. EndedFamilyStaysDead'
    <3> SUFFICES ASSUME NEW g \in Pairs, ended[g] = "undisturbed", NEW x \in Pairs, root'[x] = g
                 PROVE  refresh'[x] # "live" /\ session'[x] # "live"
      BY <1>1 DEF EndedFamilyStaysDead, Dead, Family
    <3>1. g # n
      BY <1>1, <1>2 DEF SessionInv, FamilyInv, EndedInv
    <3>2. x # n /\ root[x] = g
      BY <3>1, <1>3
    <3> QED
      BY <3>2, <1>3 DEF SessionInv, FamilyInv, EndedFamilyStaysDead, Dead, Family
  <2> QED
    BY <2>1, <2>2, <2>3, <2>4 DEF FamilyInv
<1>12. \A o \in Executing, x \in Pairs :
         TokenRow(x) \in Reserved(o) \/ SessionRow(x) \in Reserved(o) => x # n
  BY <1>1 DEF SessionInv, RequestInv, SelectedInv
<1>13. LocksInv' /\ FindInv'
  BY <1>8 DEF SessionInv, RequestInv, LocksInv, FindInv
<1>14. SelectedInv'
  BY <1>7, <1>8 DEF SessionInv, RequestInv, SelectedInv
<1>15. \A o \in Executing, x \in Pairs :
         root'[x] = root'[call[o].pair] <=> x # n /\ root[x] = root[call[o].pair]
  BY <1>3, <1>4, <1>9
<1>16. RetireInv'
  BY <1>3, <1>8, <1>9, <1>15 DEF SessionInv, RequestInv, RetireInv
<1>17. TokensInv'
  BY <1>8, <1>12, <1>15 DEF SessionInv, RequestInv, TokensInv
<1>18. SessionsInv'
  BY <1>8, <1>15 DEF SessionInv, RequestInv, SessionsInv
<1> QED
  BY <1>5, <1>6, <1>10, <1>11, <1>13, <1>14, <1>16, <1>17, <1>18 DEF SessionInv, RequestInv

\* A step of a desktop process that takes an answer, or sends nothing.
LEMMA DeskKeeps ==
  ASSUME SessionInv, NEW d \in Desktops,
         NEW at \in {"idle", "use", "use_again"}, NEW p \in Pairs \cup {NoPair},
         at # "idle" => p # NoPair,
         desk' = [desk EXCEPT ![d] = [at |-> at, pair |-> p, call |-> NoCall]],
         keyring' \in {keyring, NoPair, p},
         p # NoPair => root[p] # NoPair,
         \/ call' = call
         \/ \E q \in Calls : call' = [call EXCEPT ![q] = IF @.at = "answered" THEN Free ELSE @],
         faults' \in 0..MaxFaults, calm' \in BOOLEAN,
         UNCHANGED <<rows, lapsed, ended>>
  PROVE  SessionInv'
<1>1. \A o \in Calls : call'[o] = call[o] \/ (call[o].at = "answered" /\ call'[o] = Free)
  BY DEF SessionInv, TypeOK
<1>2. TypeOK'
  <2>1. call' \in [Calls -> {Free} \cup Answer \cup Request]
    BY DEF SessionInv, TypeOK
  <2>2. desk' \in [Desktops -> [at : {"idle", "use", "use_again", "renew", "renew_again", "logout"},
                                pair : Pairs \cup {NoPair}, call : Calls \cup {NoCall}]]
    BY DEF SessionInv, TypeOK
  <2> QED
    BY <2>1, <2>2 DEF SessionInv, TypeOK, rows
<1>3. PairsInv'
  <2>1. root' = root
    BY DEF rows
  <2>2. keyring' # NoPair => root'[keyring'] # NoPair
    BY <2>1 DEF SessionInv, PairsInv
  <2>3. /\ desk'[d].at = at /\ desk'[d].pair = p
        /\ \A o \in Desktops \ {d} : desk'[o] = desk[o]
    BY DEF SessionInv, TypeOK
  <2>4. \A o \in Desktops :
          desk'[o].at # "idle" => desk'[o].pair \in Pairs /\ root'[desk'[o].pair] # NoPair
    BY <2>1, <2>3 DEF SessionInv, PairsInv
  <2>5. \A o \in Calls : call'[o].at = "answered" => call'[o] = call[o]
    BY <1>1 DEF Free
  <2>6. \A o \in Executing' : o \in Executing /\ call'[o] = call[o]
    BY <1>1 DEF Executing, Free
  <2> QED
    BY <2>1, <2>2, <2>4, <2>5, <2>6 DEF SessionInv, PairsInv, Executing
<1>4. \A o \in Calls : call'[o] = call[o] \/ call'[o].at \in {"free", "answered"}
  BY <1>1 DEF Free
<1> QED
  BY <1>2, <1>3, <1>4, EndingRequests

\* A request that fails leaves at most an answer without a pair.
LEMMA RollBackKeeps ==
  ASSUME SessionInv, NEW q \in Calls, RollBack(q), faults' \in 0..MaxFaults, calm' \in BOOLEAN
  PROVE  SessionInv'
<1>1. /\ call' = [call EXCEPT ![q] = Answered(q, NoPair)]
      /\ lapsed' = lapsed /\ keyring' = keyring /\ desk' = desk
      /\ refresh' = refresh /\ session' = session /\ root' = root /\ ended' = ended
  BY DEF RollBack, rows
<1>2. call'[q] = Answered(q, NoPair) /\ \A o \in Calls \ {q} : call'[o] = call[o]
  BY <1>1 DEF SessionInv, TypeOK
<1>3. TypeOK'
  BY <1>1, AnswerTypes DEF SessionInv, TypeOK
<1>4. PairsInv'
  <2>1. \A o \in Calls : call'[o].at = "answered" /\ call'[o].pair # NoPair => o # q
    BY <1>2, AnswerTypes
  <2>2. \A o \in Executing' : o # q
    BY <1>2, AnswerTypes DEF Executing
  <2> QED
    BY <2>1, <2>2, <1>1, <1>2 DEF SessionInv, PairsInv, Executing
<1>5. \A o \in Calls : call'[o] = call[o] \/ call'[o].at \in {"free", "answered"}
  BY <1>2, AnswerTypes
<1> QED
  BY <1>1, <1>3, <1>4, <1>5, EndingRequests DEF rows

\* Whatever a request in execution does.
LEMMA CallStepKeeps ==
  ASSUME SessionInv, NEW q \in Calls, CallStep(q)
  PROVE  SessionInv'
<1>1. CASE \E row \in Rows : Lock(q, row)
  BY <1>1, LockKeeps
<1>2. CASE Retire(q)
  BY <1>2, RetireKeeps
<1>3. CASE EndTokens(q)
  BY <1>3, EndTokensKeeps
<1>4. CASE EndSessions(q)
  BY <1>4, EndSessionsKeeps
<1>5. CASE \E n \in Pairs : CommitRotation(q, n)
  BY <1>5, CommitRotationKeeps
<1>6. CASE CommitEnd(q)
  BY <1>6, CommitEndKeeps
<1>7. CASE Fail(q)
  <2>0. faults < MaxFaults /\ faults' = faults + 1 /\ calm' = FALSE /\ faults \in 0..MaxFaults
    BY <1>7 DEF Fail, SessionInv, TypeOK
  <2>1. faults' \in 0..MaxFaults
    BY <2>0, SessionAssumption
  <2>2. calm' \in BOOLEAN
    BY <2>0
  <2> QED
    BY <1>7, <2>1, <2>2, RollBackKeeps DEF Fail
<1>8. CASE AbortDeadlock(q)
  <2>1. faults' \in 0..MaxFaults /\ calm' \in BOOLEAN
    BY <1>8 DEF AbortDeadlock, SessionInv, TypeOK
  <2> QED
    BY <1>8, <2>1, RollBackKeeps DEF AbortDeadlock
<1> QED
  BY <1>1, <1>2, <1>3, <1>4, <1>5, <1>6, <1>7, <1>8 DEF CallStep

\* Whatever a desktop process does.
LEMMA DeskStepKeeps ==
  ASSUME SessionInv, NEW d \in Desktops, DeskStep(d)
  PROVE  SessionInv'
<1>0. /\ faults \in 0..MaxFaults /\ calm \in BOOLEAN
      /\ keyring # NoPair => keyring \in Pairs /\ root[keyring] # NoPair
      /\ faults < MaxFaults => faults + 1 \in 0..MaxFaults
  <2>1. /\ faults \in 0..MaxFaults /\ calm \in BOOLEAN
        /\ keyring # NoPair => keyring \in Pairs /\ root[keyring] # NoPair
    BY DEF SessionInv, TypeOK, PairsInv
  <2>2. faults < MaxFaults => faults + 1 \in 0..MaxFaults
    BY <2>1, SessionAssumption
  <2> QED
    BY <2>1, <2>2
<1>q. Quiet = [at |-> "idle", pair |-> NoPair, call |-> NoCall]
  BY DEF Quiet
<1>1. CASE Load(d)
  BY <1>0, <1>1, DeskKeeps DEF Load
<1>2. CASE Use(d)
  BY <1>0, <1>2, <1>q, DeskKeeps DEF Use
<1>3. CASE RefusedAgain(d)
  BY <1>0, <1>3, <1>q, DeskKeeps DEF RefusedAgain, Finish
<1>a. AnswerTo(d) =>
        /\ desk[d].call \in Calls /\ call[desk[d].call].at = "answered"
        /\ [call EXCEPT ![desk[d].call] = Free]
             = [call EXCEPT ![desk[d].call] = IF @.at = "answered" THEN Free ELSE @]
  BY DEF AnswerTo, SessionInv, TypeOK
<1>b. \/ Abandoned(d) = call
      \/ \E q \in Calls : Abandoned(d) = [call EXCEPT ![q] = IF @.at = "answered" THEN Free ELSE @]
  BY DEF Abandoned, SessionInv, TypeOK
<1>4. CASE Renewed(d)
  <2> DEFINE at == IF desk[d].at = "renew" THEN "use" ELSE "use_again"
             p == call[desk[d].call].pair
  <2>1. AnswerTo(d) /\ p # NoPair
    BY <1>4 DEF Renewed
  <2>2. p \in Pairs /\ root[p] # NoPair
    BY <2>1, <1>a, CallTypes DEF SessionInv, PairsInv
  <2>3. at \in {"use", "use_again"}
    OBVIOUS
  <2>4. /\ keyring' = p /\ desk' = [desk EXCEPT ![d] = [at |-> at, pair |-> p, call |-> NoCall]]
        /\ call' = [call EXCEPT ![desk[d].call] = Free]
        /\ faults' = faults /\ calm' = calm /\ UNCHANGED <<rows, lapsed, ended>>
    BY <1>4 DEF Renewed
  <2> HIDE DEF at, p
  <2> QED
    BY <1>0, <1>a, <2>1, <2>2, <2>3, <2>4, DeskKeeps
<1>5. CASE NotRenewed(d)
  <2>1. /\ AnswerTo(d) /\ keyring' \in {keyring, NoPair}
        /\ desk' = [desk EXCEPT ![d] = [at |-> "idle", pair |-> NoPair, call |-> NoCall]]
        /\ call' = [call EXCEPT ![desk[d].call] = Free]
        /\ faults' = faults /\ calm' = calm /\ UNCHANGED <<rows, lapsed, ended>>
    BY <1>5, <1>q DEF NotRenewed, Finish
  <2> QED
    BY <1>0, <1>a, <2>1, DeskKeeps
<1>6. CASE LoggedOut(d)
  <2>1. /\ AnswerTo(d) /\ keyring' \in {keyring, NoPair}
        /\ desk' = [desk EXCEPT ![d] = [at |-> "idle", pair |-> NoPair, call |-> NoCall]]
        /\ call' = [call EXCEPT ![desk[d].call] = Free]
        /\ faults' = faults /\ calm' = calm /\ UNCHANGED <<rows, lapsed, ended>>
    BY <1>6, <1>q DEF LoggedOut, Finish
  <2> QED
    BY <1>0, <1>a, <2>1, DeskKeeps
<1>7. CASE GiveUp(d)
  <2>1. /\ keyring' \in {keyring, NoPair} /\ call' = Abandoned(d)
        /\ desk' = [desk EXCEPT ![d] = [at |-> "idle", pair |-> NoPair, call |-> NoCall]]
        /\ faults < MaxFaults /\ faults' = faults + 1 /\ calm' = FALSE
        /\ UNCHANGED <<rows, lapsed, ended>>
    BY <1>7, <1>q DEF GiveUp, Finish
  <2> QED
    BY <1>0, <1>b, <2>1, DeskKeeps
<1>8. CASE Crash(d)
  <2>1. /\ keyring' \in {keyring, NoPair} /\ call' = Abandoned(d)
        /\ desk' = [desk EXCEPT ![d] = [at |-> "idle", pair |-> NoPair, call |-> NoCall]]
        /\ faults < MaxFaults /\ faults' = faults + 1 /\ calm' = FALSE
        /\ UNCHANGED <<rows, lapsed, ended>>
    BY <1>8, <1>q DEF Crash, Finish
  <2> QED
    BY <1>0, <1>b, <2>1, DeskKeeps
<1>9. ASSUME NEW q \in Calls, LoadAndRenew(d, q) PROVE SessionInv'
  BY <1>0, <1>9, SendKeeps DEF LoadAndRenew
<1>10. ASSUME NEW q \in Calls, RenewAndRetry(d, q) PROVE SessionInv'
  BY <1>0, <1>10, SendKeeps DEF RenewAndRetry, SessionInv, PairsInv
<1>11. ASSUME NEW q \in Calls, Logout(d, q) PROVE SessionInv'
  BY <1>0, <1>11, SendKeeps DEF Logout
<1>12. ASSUME NEW n \in Pairs, Login(d, n) PROVE SessionInv'
  BY <1>12, LoginKeeps
<1> QED
  BY <1>1, <1>2, <1>3, <1>4, <1>5, <1>6, <1>7, <1>8, <1>9, <1>10, <1>11, <1>12 DEF DeskStep

\* The tokens of a family expire.
LEMMA LapseKeeps ==
  ASSUME SessionInv, NEW f \in Pairs, Lapse(f)
  PROVE  SessionInv'
<1>1. /\ lapsed' = lapsed \cup {f} /\ call' = call /\ keyring' = keyring /\ desk' = desk
      /\ faults' = faults /\ calm' = calm /\ UNCHANGED <<rows, ended>>
  BY DEF Lapse
<1>2. TypeOK' /\ PairsInv'
  BY <1>1 DEF SessionInv, TypeOK, PairsInv, Executing, rows
<1> QED
  BY <1>1, <1>2, EndingRequests

\* Whatever happens next.
LEMMA SessionStepKeeps ==
  ASSUME SessionInv, [Next]_vars
  PROVE  SessionInv'
<1>1. CASE \E q \in Calls : CallStep(q)
  BY <1>1, CallStepKeeps
<1>2. CASE \E d \in Desktops : DeskStep(d)
  BY <1>2, DeskStepKeeps
<1>3. CASE \E f \in Pairs : Lapse(f)
  BY <1>3, LapseKeeps
<1>4. CASE UNCHANGED vars
  <2>1. UNCHANGED <<rows, ended>> /\ call' = call
    BY <1>4 DEF vars
  <2>2. TypeOK' /\ PairsInv'
    BY <1>4 DEF vars, SessionInv, TypeOK, PairsInv, Executing, rows
  <2> QED
    BY <2>1, <2>2, EndingRequests
<1> QED
  BY <1>1, <1>2, <1>3, <1>4 DEF Next
----------------------------------------------------------------------------
(* The credential of processes that take turns *)

Renewing == {"renew", "renew_again"}
Live(p)  == refresh[p] = "live" /\ session[p] = "live"

\* A renewal goes on with the stored token, or is answered with a pair that works.
RenewalSound(c) ==
  \/ c.at \in {"find", "retire"} /\ c.kind = "rotate" /\ c.pair = keyring
  \/ c.at = "answered" /\ c.pair # NoPair /\ Live(c.pair)

\* One process is at work, every request is its own, and what is stored works until
\* its renewal is answered.
CalmInv ==
  calm /\ lapsed = {} =>
    /\ \A d, o \in Desktops : desk[d] # Quiet /\ desk[o] # Quiet => d = o
    /\ \A q \in Calls : call[q] # Free => Waited(q)
    /\ \A d \in Desktops :
         /\ desk[d].at = "idle" => desk[d] = Quiet
         /\ desk[d].at \in {"use", "use_again"} => desk[d].call = NoCall /\ desk[d].pair = keyring
         /\ desk[d].at \in Renewing =>
              /\ desk[d].call \in Calls /\ desk[d].pair = keyring
              /\ RenewalSound(call[desk[d].call])
         /\ desk[d].at = "logout" => desk[d].call \in Calls /\ keyring = NoPair
    /\ \/ keyring = NoPair
       \/ Live(keyring)
       \/ \E d \in Desktops : desk[d].at \in Renewing /\ call[desk[d].call].at = "answered"

\* Nobody else is at work, and every request is of the one who is.
LEMMA InTurn ==
  ASSUME SessionInv, CalmInv, calm, lapsed = {}, NEW d \in Desktops,
         desk[d] # Quiet \/ Alone(d)
  PROVE  /\ \A o \in Desktops \ {d} : desk[o] = Quiet
         /\ \A q \in Calls : call[q] # Free => desk[d].call = q /\ desk[d] # Quiet
<1>1. \A o \in Desktops \ {d} : desk[o] = Quiet
  BY DEF CalmInv, Alone
<1>2. ASSUME NEW q \in Calls, call[q] # Free
      PROVE  desk[d].call = q /\ desk[d] # Quiet
  <2>1. PICK o \in Desktops : desk[o].call = q
    BY <1>2 DEF CalmInv, Waited
  <2>2. desk[o] # Quiet
    BY <2>1, SessionAssumption DEF Quiet
  <2> QED
    BY <1>1, <2>1, <2>2
<1> QED
  BY <1>1, <1>2

\* What a request is at its places.
LEMMA CallPlaces ==
  ASSUME SessionInv, NEW q \in Calls
  PROVE  /\ call[q].at = "free" <=> call[q] = Free
         /\ q \in Executing <=> call[q].at \notin {"free", "answered"}
         /\ q \in Executing => call[q] # Free /\ call[q] \in Request
<1>1. call[q] \in {Free} \cup Answer \cup Request
  BY DEF SessionInv, TypeOK
<1> QED
  BY <1>1 DEF Free, Answer, Request, Executing

\* A step of a request that answers a renewal with a pair that works, or goes on with it.
LEMMA RequestInTurn ==
  ASSUME SessionInv, CalmInv, NEW q \in Executing,
         UNCHANGED <<desk, keyring, lapsed>>, calm' => calm,
         \A o \in Calls \ {q} : call[o] = Free => call'[o] = call[o],
         \A d \in Desktops :
           calm' /\ lapsed = {} /\ desk[d].call = q /\ desk[d].at \in Renewing =>
             /\ RenewalSound(call[q])'
             /\ call'[q].at = "answered" \/ (Live(keyring) => Live(keyring)')
  PROVE  CalmInv'
<1> SUFFICES ASSUME calm', lapsed' = {}
             PROVE  CalmInv'
  BY DEF CalmInv
<1>0. calm /\ lapsed = {} /\ q \in Calls /\ call[q] # Free
  BY CallPlaces DEF Executing
<1>1. PICK d \in Desktops : desk[d].call = q
  BY <1>0 DEF CalmInv, Waited
<1>2. desk[d] # Quiet
  BY <1>0, <1>1, SessionAssumption DEF Quiet
<1>3. /\ \A o \in Desktops \ {d} : desk[o] = Quiet
      /\ \A o \in Calls \ {q} : call[o] = Free
  BY <1>0, <1>1, <1>2, InTurn
<1>4. \A o \in Calls : call'[o] # Free => Waited(o)'
  BY <1>1, <1>3 DEF Waited
<1>5. Quiet.at = "idle"
  BY DEF Quiet
<1>6. desk[d].at \in Renewing \cup {"logout"}
  <2>1. desk[d].at \in {"idle", "use", "use_again", "renew", "renew_again", "logout"}
    BY DEF SessionInv, TypeOK
  <2> QED
    BY <1>0, <1>1, <1>2, <2>1, SessionAssumption DEF CalmInv, Renewing
<1>7. CASE desk[d].at = "logout"
  BY <1>0, <1>1, <1>3, <1>4, <1>5, <1>7 DEF CalmInv, Renewing
<1>8. CASE desk[d].at \in Renewing
  <2>1. /\ RenewalSound(call[q])'
        /\ call'[q].at = "answered" \/ (Live(keyring) => Live(keyring)')
    BY <1>0, <1>1, <1>8
  <2>2. keyring = NoPair \/ Live(keyring)
    <3>1. call[q].at # "answered"
      BY <1>0, CallPlaces
    <3>2. \A o \in Desktops : desk[o].at \in Renewing => o = d
      BY <1>3, <1>5 DEF Renewing
    <3> QED
      BY <1>0, <1>1, <3>1, <3>2 DEF CalmInv
  <2>3. \/ keyring' = NoPair
        \/ Live(keyring)'
        \/ \E o \in Desktops : desk'[o].at \in Renewing /\ call'[desk'[o].call].at = "answered"
    BY <1>1, <1>8, <2>1, <2>2
  <2>4. \A o \in Desktops :
          /\ desk'[o].at = "idle" => desk'[o] = Quiet
          /\ desk'[o].at \in {"use", "use_again"} => desk'[o].call = NoCall /\ desk'[o].pair = keyring'
          /\ desk'[o].at = "logout" => desk'[o].call \in Calls /\ keyring' = NoPair
    BY <1>0 DEF CalmInv
  <2>5. \A o \in Desktops : desk'[o].at \in Renewing =>
          /\ desk'[o].call \in Calls /\ desk'[o].pair = keyring'
          /\ RenewalSound(call[desk[o].call])'
    <3> SUFFICES ASSUME NEW o \in Desktops, desk'[o].at \in Renewing
                 PROVE  /\ desk'[o].call \in Calls /\ desk'[o].pair = keyring'
                        /\ RenewalSound(call[desk[o].call])'
      OBVIOUS
    <3>1. o = d
      BY <1>3, <1>5 DEF Renewing
    <3>2. desk'[o].call = q /\ desk'[o].pair = keyring'
      BY <1>0, <1>1, <1>8, <3>1 DEF CalmInv
    <3> QED
      BY <1>0, <2>1, <3>2
  <2>6. \A o, e \in Desktops : desk'[o] # Quiet /\ desk'[e] # Quiet => o = e
    BY <1>3
  <2> QED
    BY <1>4, <2>3, <2>4, <2>5, <2>6 DEF CalmInv
<1> QED
  BY <1>6, <1>7, <1>8

\* Requests in execution: a renewal alone with its family finds its token usable.
LEMMA CallKeepsCalm ==
  ASSUME SessionInv, CalmInv, NEW q \in Calls, CallStep(q)
  PROVE  CalmInv'
<1> USE DEF rows
<1>0. /\ call \in [Calls -> {Free} \cup Answer \cup Request]
      /\ NoPair \notin Pairs /\ keyring \in Pairs \cup {NoPair}
  BY SessionAssumption DEF SessionInv, TypeOK
<1>1. ASSUME NEW d \in Desktops, calm, lapsed = {}, desk[d].call = q, desk[d].at \in Renewing,
             q \in Executing
      PROVE  /\ call[q].at \in {"find", "retire"} /\ call[q].kind = "rotate"
             /\ call[q].pair = keyring /\ keyring \in Pairs
             /\ Executing = {q} /\ Waited(q) /\ Live(keyring)
  <2>1. call[q].at # "answered" /\ call[q] \in Request /\ desk[d] # Quiet
    BY <1>1, CallPlaces DEF Quiet, Renewing
  <2>2. call[q].at \in {"find", "retire"} /\ call[q].kind = "rotate" /\ call[q].pair = keyring
    BY <1>1, <2>1 DEF CalmInv, RenewalSound
  <2>3. \A o \in Calls : call[o] # Free => o = q
    BY <1>1, <2>1, InTurn
  <2>4. \A o \in Desktops : desk[o].at \in Renewing => o = d
    BY <1>1, <2>1, InTurn DEF Quiet, Renewing
  <2>5. keyring \in Pairs
    BY <2>1, <2>2 DEF Request
  <2>6. Live(keyring)
    BY <1>0, <1>1, <2>1, <2>4, <2>5 DEF CalmInv
  <2>7. Executing = {q}
    BY <1>1, <2>3, CallPlaces DEF Executing
  <2> QED
    BY <1>1, <2>2, <2>5, <2>6, <2>7 DEF Waited
<1>2. ASSUME NEW row \in Rows, Lock(q, row) PROVE CalmInv'
  <2>1. q \in Executing /\ call[q] \in Request
    BY <1>2, CallPlaces DEF Lock
  <2>2. call'[q].at = call[q].at /\ call'[q].kind = call[q].kind /\ call'[q].pair = call[q].pair
    BY <1>0, <1>2, <2>1 DEF Request, Lock
  <2>3. \A o \in Calls \ {q} : call'[o] = call[o]
    BY <1>0, <1>2 DEF Lock
  <2> QED
    BY <1>0, <1>1, <1>2, <2>1, <2>2, <2>3, RequestInTurn DEF Lock, RenewalSound, Live
<1>3. ASSUME NEW at, NEW S, Statement(q, at, S), q \in Executing,
             at = "retire" \/ call[q].kind = "logout" \/ call[q].at = "tokens" \/ ~Usable(call[q].pair)
      PROVE  CalmInv'
  <2>1. call[q] \in Request
    BY <1>3, CallPlaces
  <2>2. call'[q].at = at /\ call'[q].kind = call[q].kind /\ call'[q].pair = call[q].pair
    BY <1>0, <1>3, <2>1 DEF Request, Statement
  <2>3. \A o \in Calls \ {q} : call'[o] = call[o]
    BY <1>0, <1>3 DEF Statement
  <2>4. ASSUME NEW d \in Desktops, calm, lapsed = {}, desk[d].call = q, desk[d].at \in Renewing
        PROVE  RenewalSound(call[q])' /\ Live(keyring)'
    <3>1. /\ call[q].at \in {"find", "retire"} /\ call[q].kind = "rotate"
          /\ call[q].pair = keyring /\ Live(keyring)
      BY <1>1, <1>3, <2>4
    <3>2. at = "retire"
      BY <1>3, <2>4, <3>1 DEF Usable, Live
    <3> QED
      BY <1>3, <2>2, <3>1, <3>2 DEF RenewalSound, Live, Statement
  <2>5. UNCHANGED <<desk, keyring, lapsed, calm>>
    BY <1>3 DEF Statement
  <2> QED
    BY <1>3, <2>3, <2>4, <2>5, RequestInTurn
<1>4. CASE Retire(q)
  BY <1>3, <1>4 DEF Retire, Executing
<1>5. CASE EndTokens(q)
  <2>1. call[q].at = "find" /\ q \in Executing
    BY <1>5 DEF EndTokens, Executing
  <2>2. call[q].kind \in {"rotate", "logout"}
    BY <2>1, CallPlaces DEF Request
  <2> QED
    BY <1>3, <1>5, <2>1, <2>2 DEF EndTokens
<1>6. CASE EndSessions(q)
  BY <1>3, <1>6 DEF EndSessions, Executing
<1>7. ASSUME NEW n \in Pairs, CommitRotation(q, n) PROVE CalmInv'
  <2> DEFINE p == call[q].pair
  <2>1. q \in Executing /\ call[q].at = "retire" /\ n \in Fresh
    BY <1>7 DEF CommitRotation, Executing
  <2>2. Overtaken(root[p], q) \in [Calls -> {Overtaken(root[p], q)[o] : o \in Calls}]
        /\ \A o \in Calls : o \notin Executing => Overtaken(root[p], q)[o] = call[o]
    BY DEF Overtaken
  <2>3. call' = [Overtaken(root[p], q) EXCEPT ![q] = Answered(q, n)]
    BY <1>7 DEF CommitRotation
  <2>4. \A o \in Calls \ {q} : call[o] = Free => call'[o] = call[o]
    BY <2>2, <2>3, CallPlaces
  <2>5. call'[q] = Answered(q, n)
    BY <2>2, <2>3
  <2>6. refresh'[n] = "live" /\ session'[n] = "live"
    <3>1. refresh' = [[refresh EXCEPT ![p] = "consumed"] EXCEPT ![n] = "live"]
      BY <1>7 DEF CommitRotation
    <3>2. /\ session' = [Written("session", session, call[q].locks, "revoked") EXCEPT ![n] = "live"]
          /\ Written("session", session, call[q].locks, "revoked") \in
               [Pairs -> {Written("session", session, call[q].locks, "revoked")[o] : o \in Pairs}]
      BY <1>7 DEF CommitRotation, Written
    <3> QED
      BY <3>1, <3>2 DEF SessionInv, TypeOK
  <2>7. \A d \in Desktops : desk[d].call = q => RenewalSound(call[q])' /\ call'[q].at = "answered"
    BY <1>0, <2>5, <2>6 DEF Answered, Waited, RenewalSound, Live
  <2>8. UNCHANGED <<desk, keyring, lapsed, calm>>
    BY <1>7 DEF CommitRotation
  <2> QED
    BY <2>1, <2>4, <2>7, <2>8, RequestInTurn
<1>8. CASE CommitEnd(q)
  <2>1. q \in Executing /\ call[q].at = "sessions"
    BY <1>8 DEF CommitEnd, Executing
  <2>2. UNCHANGED <<desk, keyring, lapsed, calm>> /\ \A o \in Calls \ {q} : call'[o] = call[o]
    BY <1>0, <1>8 DEF CommitEnd
  <2> QED
    BY <1>1, <2>1, <2>2, RequestInTurn
<1>9. CASE Fail(q)
  BY <1>9 DEF Fail, CalmInv
<1>10. CASE AbortDeadlock(q)
  <2>1. /\ q \in Executing /\ UNCHANGED <<desk, keyring, lapsed, calm>>
        /\ \A o \in Calls \ {q} : call'[o] = call[o]
    BY <1>0, <1>10 DEF AbortDeadlock, RollBack
  <2>2. Executing # {q}
    BY <1>10 DEF AbortDeadlock, Deadlocked
  <2> QED
    BY <1>1, <2>1, <2>2, RequestInTurn
<1> QED
  BY <1>2, <1>4, <1>5, <1>6, <1>7, <1>8, <1>9, <1>10 DEF CallStep

\* A step of the process at work: what it does next, and what becomes of the others.
LEMMA ProcessInTurn ==
  ASSUME SessionInv, CalmInv, NEW d \in Desktops, calm' => calm, UNCHANGED lapsed,
         NEW thread, desk' = [desk EXCEPT ![d] = thread],
         calm' /\ lapsed = {} =>
           /\ desk[d] # Quiet \/ Alone(d)
           /\ \A q \in Calls : call'[q] # Free => thread.call = q
           /\ thread.at = "idle" => thread = Quiet
           /\ thread.at \in {"use", "use_again"} => thread.call = NoCall /\ thread.pair = keyring'
           /\ thread.at \in Renewing =>
                /\ thread.call \in Calls /\ thread.pair = keyring'
                /\ RenewalSound(call[thread.call])'
           /\ thread.at = "logout" => thread.call \in Calls /\ keyring' = NoPair
           /\ keyring' = NoPair \/ Live(keyring)'
  PROVE  CalmInv'
<1> SUFFICES ASSUME calm', lapsed' = {}
             PROVE  CalmInv'
  BY DEF CalmInv
<1>1. \A o \in Desktops \ {d} : desk[o] = Quiet
  BY InTurn
<1>2. desk'[d] = thread /\ \A o \in Desktops \ {d} : desk'[o] = Quiet
  BY <1>1 DEF SessionInv, TypeOK
<1>3. Quiet.at = "idle"
  BY DEF Quiet
<1>4. \A o \in Desktops :
        /\ desk'[o].at = "idle" => desk'[o] = Quiet
        /\ desk'[o].at \in {"use", "use_again"} => desk'[o].call = NoCall /\ desk'[o].pair = keyring'
        /\ desk'[o].at = "logout" => desk'[o].call \in Calls /\ keyring' = NoPair
  BY <1>2, <1>3
<1>5. \A o \in Desktops : desk'[o].at \in Renewing =>
        /\ desk'[o].call \in Calls /\ desk'[o].pair = keyring'
        /\ RenewalSound(call[desk[o].call])'
  <2> SUFFICES ASSUME NEW o \in Desktops, desk'[o].at \in Renewing
               PROVE  /\ desk'[o].call \in Calls /\ desk'[o].pair = keyring'
                      /\ RenewalSound(call[desk[o].call])'
    OBVIOUS
  <2>1. desk'[o] = thread
    BY <1>2, <1>3 DEF Renewing
  <2> QED
    BY <2>1 DEF RenewalSound, Live
<1>6. \A q \in Calls : call'[q] # Free => Waited(q)'
  BY <1>2 DEF Waited
<1>7. \A o, e \in Desktops : desk'[o] # Quiet /\ desk'[e] # Quiet => o = e
  BY <1>2
<1> QED
  BY <1>4, <1>5, <1>6, <1>7 DEF CalmInv

\* Whether a pair works is told by the rows of its token and its session.
LEMMA LiveKept ==
  ASSUME UNCHANGED <<refresh, session>>, NEW p
  PROVE  Live(p)' <=> Live(p)
BY DEF Live

\* The process at work: it uses and renews what is stored, and deletes it to sign out.
LEMMA DeskKeepsCalm ==
  ASSUME SessionInv, CalmInv, NEW d \in Desktops, DeskStep(d)
  PROVE  CalmInv' /\ (calm' /\ lapsed = {} /\ keyring # NoPair /\ keyring' = NoPair => desk'[d].at = "logout")
<1> DEFINE Kept == CalmInv' /\ (calm' /\ lapsed = {} /\ keyring # NoPair /\ keyring' = NoPair => desk'[d].at = "logout")
<1> USE SessionAssumption DEF rows
<1>0. /\ call \in [Calls -> {Free} \cup Answer \cup Request]
      /\ desk[d].at \in {"idle", "use", "use_again", "renew", "renew_again", "logout"}
      /\ Quiet.at = "idle" /\ Quiet.call = NoCall
      /\ desk \in [Desktops -> {desk[o] : o \in Desktops}]
  BY DEF SessionInv, TypeOK, Quiet
<1>1. ASSUME calm, lapsed = {}, desk[d].at \in {"use", "use_again"}
      PROVE  /\ desk[d] # Quiet /\ desk[d].call = NoCall /\ desk[d].pair = keyring
             /\ \A q \in Calls : call[q] = Free
             /\ keyring \in Pairs /\ Live(keyring)
  <2>1. desk[d] # Quiet /\ desk[d].call = NoCall /\ desk[d].pair = keyring
    BY <1>0, <1>1 DEF CalmInv
  <2>2. \A q \in Calls : call[q] = Free
    BY <1>1, <2>1, InTurn
  <2>3. keyring \in Pairs
    BY <1>0, <1>1, <2>1 DEF SessionInv, PairsInv
  <2>4. \A o \in Desktops : desk[o].at \notin Renewing
    BY <1>0, <1>1, <2>1, InTurn DEF Renewing
  <2> QED
    BY <1>1, <2>1, <2>2, <2>3, <2>4 DEF CalmInv
<1>2. ASSUME calm, lapsed = {}, Alone(d), desk[d] = Quiet
      PROVE  (\A q \in Calls : call[q] = Free) /\ (keyring = NoPair \/ Live(keyring))
  <2>1. \A q \in Calls : call[q] = Free
    BY <1>2, InTurn
  <2>2. \A o \in Desktops : desk[o].at \notin Renewing
    BY <1>0, <1>2 DEF Renewing, Alone
  <2> QED
    BY <1>2, <2>1, <2>2 DEF CalmInv
<1>3. ASSUME AnswerTo(d), calm, lapsed = {}
      PROVE  /\ desk[d].call \in Calls /\ desk[d] # Quiet
             /\ \A q \in Calls \ {desk[d].call} : call[q] = Free
             /\ desk[d].at \in Renewing =>
                  call[desk[d].call].pair # NoPair /\ Live(call[desk[d].call].pair)
             /\ desk[d].at = "logout" => keyring = NoPair
  <2>1. desk[d].call \in Calls /\ desk[d] # Quiet
    BY <1>3, <1>0 DEF AnswerTo, SessionInv, TypeOK
  <2> QED
    BY <1>3, <2>1, InTurn DEF AnswerTo, CalmInv, RenewalSound
<1>4. CASE Load(d)
  BY <1>2, <1>4, ProcessInTurn, LiveKept DEF Load, Renewing
<1>5. CASE Use(d)
  BY <1>0, <1>1, <1>5, ProcessInTurn, LiveKept DEF Use, Renewing
<1>6. CASE RefusedAgain(d)
  <2>1. desk' = [desk EXCEPT ![d] = Quiet] /\ UNCHANGED <<rows, lapsed, call, calm>>
        /\ desk[d].at = "use_again" /\ session[desk[d].pair] # "live"
    BY <1>6 DEF RefusedAgain, Finish
  <2>2. ~(calm /\ lapsed = {})
    BY <1>1, <2>1 DEF Live
  <2> QED
    BY <2>1, <2>2, ProcessInTurn
<1>7. CASE Renewed(d)
  <2> DEFINE p == call[desk[d].call].pair
             thread == [at |-> IF desk[d].at = "renew" THEN "use" ELSE "use_again",
                        pair |-> p, call |-> NoCall]
  <2>1. /\ AnswerTo(d) /\ desk[d].at \in Renewing /\ p # NoPair
        /\ keyring' = p /\ desk' = [desk EXCEPT ![d] = thread]
        /\ call' = [call EXCEPT ![desk[d].call] = Free] /\ UNCHANGED <<rows, lapsed, calm>>
    BY <1>7 DEF Renewed, Renewing
  <2>2. thread.at \in {"use", "use_again"} /\ thread.call = NoCall /\ thread.pair = keyring'
    BY <2>1
  <2>3. ASSUME calm, lapsed = {}
        PROVE  desk[d] # Quiet /\ (\A q \in Calls : call'[q] = Free) /\ Live(keyring)'
    BY <1>0, <1>3, <2>1, <2>3, LiveKept
  <2> HIDE DEF thread
  <2>4. thread.at \notin Renewing \cup {"idle", "logout"}
    BY <2>2 DEF Renewing
  <2>5. CalmInv'
    BY <2>1, <2>2, <2>3, <2>4, ProcessInTurn
  <2> QED
    BY <2>1, <2>5
<1>8. CASE NotRenewed(d)
  <2>1. /\ AnswerTo(d) /\ desk[d].at \in Renewing /\ call[desk[d].call].pair = NoPair
        /\ desk' = [desk EXCEPT ![d] = Quiet] /\ UNCHANGED <<lapsed, calm>>
    BY <1>8 DEF NotRenewed, Renewing, Finish
  <2>2. ~(calm /\ lapsed = {})
    BY <1>3, <2>1
  <2> QED
    BY <2>1, <2>2, ProcessInTurn
<1>9. CASE LoggedOut(d)
  <2>1. /\ AnswerTo(d) /\ desk[d].at = "logout" /\ keyring' = keyring
        /\ call' = [call EXCEPT ![desk[d].call] = Free]
        /\ desk' = [desk EXCEPT ![d] = Quiet] /\ UNCHANGED <<lapsed, calm>>
    BY <1>9 DEF LoggedOut, Finish
  <2>2. ASSUME calm, lapsed = {}
        PROVE  desk[d] # Quiet /\ (\A q \in Calls : call'[q] = Free) /\ keyring' = NoPair
    BY <1>0, <1>3, <2>1, <2>2
  <2>3. CalmInv'
    BY <1>0, <2>1, <2>2, ProcessInTurn DEF Renewing
  <2> QED
    BY <2>1, <2>3
<1>10. CASE GiveUp(d) \/ Crash(d)
  BY <1>10 DEF GiveUp, Crash, CalmInv
<1>11. ASSUME NEW q \in Calls, LoadAndRenew(d, q) PROVE Kept
  <2> DEFINE thread == [at |-> "renew", pair |-> keyring, call |-> q]
  <2>1. /\ desk[d] = Quiet /\ keyring # NoPair /\ keyring' = keyring
        /\ desk' = [desk EXCEPT ![d] = thread] /\ calm' = (calm /\ Alone(d))
        /\ call'[q].at = "find" /\ call'[q].kind = "rotate" /\ call'[q].pair = keyring
        /\ \A o \in Calls \ {q} : call'[o] = call[o]
        /\ UNCHANGED <<rows, lapsed>>
    BY <1>0, <1>11 DEF LoadAndRenew, Send
  <2>2. RenewalSound(call[q])'
    BY <2>1 DEF RenewalSound
  <2>3. CalmInv'
    BY ZenonT(60), <1>2, <2>1, <2>2, ProcessInTurn, LiveKept DEF Renewing
  <2> QED
    BY <2>1, <2>3
<1>12. ASSUME NEW q \in Calls, RenewAndRetry(d, q) PROVE Kept
  <2> DEFINE thread == [at |-> "renew_again", pair |-> desk[d].pair, call |-> q]
  <2>1. /\ desk[d].at = "use" /\ session[desk[d].pair] # "live" /\ keyring' = keyring
        /\ desk' = [desk EXCEPT ![d] = thread] /\ UNCHANGED <<lapsed, calm>>
    BY <1>12 DEF RenewAndRetry, Send
  <2>2. ~(calm /\ lapsed = {})
    BY <1>1, <2>1 DEF Live
  <2> QED
    BY <2>1, <2>2, ProcessInTurn
<1>13. ASSUME NEW q \in Calls, Logout(d, q) PROVE Kept
  <2> DEFINE thread == [at |-> "logout", pair |-> keyring, call |-> q]
  <2>1. /\ desk[d] = Quiet /\ keyring' = NoPair
        /\ desk' = [desk EXCEPT ![d] = thread] /\ calm' = (calm /\ Alone(d))
        /\ \A o \in Calls \ {q} : call'[o] = call[o]
        /\ UNCHANGED lapsed
    BY <1>0, <1>13 DEF Logout, Send
  <2>2. CalmInv'
    BY <1>2, <2>1, ProcessInTurn DEF Renewing
  <2>3. desk'[d].at = "logout"
    BY <1>0, <2>1
  <2> QED
    BY <2>2, <2>3
<1>14. ASSUME NEW n \in Pairs, Login(d, n) PROVE Kept
  <2>1. /\ desk[d] = Quiet /\ keyring' = n /\ n # NoPair
        /\ desk' = [desk EXCEPT ![d] = Quiet] /\ calm' = (calm /\ Alone(d))
        /\ UNCHANGED <<call, lapsed>>
    BY <1>0, <1>14 DEF Login
  <2>2. Live(keyring)'
    BY <1>14 DEF Login, Live, SessionInv, TypeOK
  <2>3. CalmInv'
    BY <1>0, <1>2, <2>1, <2>2, ProcessInTurn DEF Renewing
  <2> QED
    BY <2>1, <2>3
<1> QED
  BY <1>4, <1>5, <1>6, <1>7, <1>8, <1>9, <1>10, <1>11, <1>12, <1>13, <1>14 DEF DeskStep

\* Only a sign-out takes the credential of undisturbed processes away.
LEMMA CalmStep ==
  ASSUME SessionInv, CalmInv, [Next]_vars
  PROVE  /\ CalmInv'
         /\ calm' /\ lapsed = {} /\ keyring # NoPair /\ keyring' = NoPair
              => \E d \in Desktops : desk'[d].at = "logout"
<1>1. ASSUME NEW q \in Calls, CallStep(q) PROVE CalmInv' /\ keyring' = keyring
  <2>1. keyring' = keyring
    BY <1>1 DEF CallStep, Lock, Retire, EndTokens, EndSessions, Statement, CommitRotation,
       CommitEnd, Fail, AbortDeadlock, RollBack
  <2> QED
    BY <1>1, <2>1, CallKeepsCalm
<1>2. CASE \E d \in Desktops : DeskStep(d)
  BY <1>2, DeskKeepsCalm
<1>3. ASSUME NEW f \in Pairs, Lapse(f) PROVE CalmInv' /\ keyring' = keyring
  BY <1>3 DEF Lapse, CalmInv
<1>4. CASE UNCHANGED vars
  <2>1. UNCHANGED <<call, desk, keyring, calm, lapsed, refresh, session>>
    BY <1>4 DEF vars, rows
  <2> QED
    BY <2>1 DEF CalmInv, Waited, RenewalSound, Live
<1> QED
  BY <1>1, <1>2, <1>3, <1>4 DEF Next
----------------------------------------------------------------------------
(* Theorems *)

\* The rows, requests and desktop processes of sign-in keep the strengthened
\* invariant, whatever the processes, requests, faults and deadlocks do.
THEOREM SessionsAreSound == Spec => []SessionInv
<1>1. Init => SessionInv
  BY SessionStarts
<1>2. SessionInv /\ [Next]_vars => SessionInv'
  BY SessionStepKeeps
<1> QED
  BY <1>1, <1>2, PTL DEF Spec

\* rotateRefreshSession and endFamily: however often and by however many processes
\* at a time a token is sent, a family has at most one usable refresh token and at
\* most one valid access session.
THEOREM FamiliesHaveOneUsablePair == Spec => []OneUsablePair
<1>1. SessionInv => OneUsablePair
  BY DEF SessionInv, FamilyInv
<1> QED
  BY <1>1, SessionsAreSound, PTL

\* No rotation and ending leave a valid access session whose refresh token has been
\* consumed or revoked.
THEOREM AccessAlwaysHasItsToken == Spec => []AccessNeedsItsToken
<1>1. SessionInv => AccessNeedsItsToken
  BY DEF SessionInv, FamilyInv
<1> QED
  BY <1>1, SessionsAreSound, PTL

\* A family ended by a replay or a sign-out with no rotation in between has no usable
\* token and no valid session ever again.
THEOREM EndedFamiliesStayDead == Spec => []EndedFamilyStaysDead
<1>1. SessionInv => EndedFamilyStaysDead
  BY DEF SessionInv, FamilyInv
<1> QED
  BY <1>1, SessionsAreSound, PTL

\* A session family gives access through one whole pair at a time and none after an
\* undisturbed end.
THEOREM FamiliesStayOne == Spec => []FamiliesAreOne
BY FamiliesHaveOneUsablePair, AccessAlwaysHasItsToken, EndedFamiliesStayDead, PTL DEF FamiliesAreOne

\* Processes that take turns, and whose answers all arrive, lose the stored credential
\* to a sign-out or to the end of its lifetime only: authenticated_request, refresh and
\* logout of auth.rs never make a token that was renewed look replayed.
THEOREM CredentialsStayWhileUndisturbed == Spec => KeptWhileUndisturbed
<1>1. Init => CalmInv
  BY SessionAssumption DEF Init, CalmInv, Quiet, Renewing
<1>2. SessionInv /\ CalmInv /\ [Next]_vars => CalmInv'
  BY CalmStep
<1>3. SessionInv /\ CalmInv /\ [Next]_vars =>
        [(calm' /\ lapsed = {} /\ keyring # NoPair /\ keyring' = NoPair)
           => \E d \in Desktops : desk'[d].at = "logout"]_vars
  BY CalmStep
<1> QED
  BY <1>1, <1>2, <1>3, SessionsAreSound, PTL DEF Spec, KeptWhileUndisturbed

-----------------------------------------------------------------------------
(***************************************************************************)
(* Signing in.  A one-time row (the code of an e-mail, a transaction of    *)
(* the broker, the approval of a command) is unspent, or in the hands of   *)
(* the one request that spent it, or a session was made from it            *)
(* (ProofsInv).  Users and identities are one to one, and a session is of  *)
(* a user that is there (UsersInv).  A command that has a code has it from *)
(* the browser whose user its request was bound to (CommandInv); that this *)
(* browser's user does not change meanwhile is PageInv: whoever has a      *)
(* session is not shown the sign-in page.                                  *)
(***************************************************************************)

OneTimeRows == Challenges \cup Transactions \cup Commands

\* The records of the tables, the pages, the commands and the requests.
ChallengeRow ==
  [state : {"none", "consumed"}] \cup
  [state : {"open"}, age : 0..(Lifetime - 1), attempts : IF InMemory THEN 0..MaxAttempts ELSE {0}]
CliRow == [state : {"none", "open", "authorized", "consumed", "expired"}, user : Users \cup {None}]
PageRecord ==
  [status : {"idle", "error", "anonymous", "authenticated", "broker", "redirected"},
   row : Challenges \cup Transactions \cup {None}, goal : Commands \cup {None}]
CommandRecord ==
  [at : {"new", "waiting", "exchange", "done", "failed"}, code : Browsers \cup {None},
   user : Users \cup {None}]

Asking     == {"cooldown", "create", "discover"}
Presenting == {"tokens", "identify", "insert", "session"}

Sending    == [at : {"send"}, row : Challenges]
Verifying  == [at : {"verify"}, row : Challenges, right : BOOLEAN]
AtBroker   == [at : {"tokens"}, row : Transactions]
Proving    == [at : {"identify", "insert", "session"}, issuer : Issuers,
               proof : OneTimeRows \cup {None}, user : Users \cup {None}]
Exchanging == [at : {"session"}, user : Users \cup {None}]

BrowserRequest == {Idle} \cup [at : Asking] \cup Sending \cup Verifying \cup AtBroker \cup Proving
CommandRequest == {Idle} \cup Exchanging \cup Proving

RequestTypes ==
  /\ DOMAIN req = Clients
  /\ \A b \in Browsers : req[b] \in BrowserRequest
  /\ \A t \in Commands : req[t] \in CommandRequest

\* The page, the request and the cookie of one browser: a request of the form and
\* of the callback belongs to the page that sent it, and whoever has a session does
\* not sign in again.
PageFits(q, p, c) ==
  /\ q.at \in Asking \cup {"send", "verify"} => p.status = "anonymous"
  /\ q.at = "tokens" => p.status = "broker"
  /\ q.at \in Presenting => p.status \in {"anonymous", "broker"}
  /\ p.status \in {"anonymous", "broker"} => c = None
  /\ p.status \in {"authenticated", "redirected"} => c # None
  /\ p.status = "anonymous" => p.row \in Challenges \cup {None}
  /\ p.status = "broker" => p.row \in Transactions
  /\ p.status \notin {"anonymous", "broker"} => p.row = None
  /\ p.status = "redirected" => p.goal # None

PageInv == \A b \in Browsers : PageFits(req[b], page[b], cookie[b])

\* The row a request has spent and no session has been made from yet.
Spends(k, q, r) ==
  /\ q.at \in Presenting
  /\ r = IF k \in Commands THEN k ELSE IF q.at = "tokens" THEN q.row ELSE q.proof

\* A row that nobody has spent.
Unspent(r) ==
  \/ r \in Challenges /\ challenge[r].state = "open"
  \/ r \in Transactions /\ oidc[r] \in {"none", "open"}
  \/ r \in Commands /\ (command[r].at = "new" \/ cli[r].state \in {"open", "authorized"})

\* A row is unspent, or one request has it, or a session was made from it.
ProofsInv ==
  \A r \in OneTimeRows :
    /\ issued[r] \in {0, 1}
    /\ Unspent(r) => issued[r] = 0 /\ \A k \in Clients : ~Spends(k, req[k], r)
    /\ \A k \in Clients : Spends(k, req[k], r) => issued[r] = 0
    /\ \A k, j \in Clients : Spends(k, req[k], r) /\ Spends(j, req[j], r) => k = j

\* Users and identities are one to one; sessions are of users that are there.
UsersInv ==
  /\ \A u \in Users : founded[u] # None => identity[founded[u]] = u
  /\ \A i \in Issuers : identity[i] # None => founded[identity[i]] = i
  /\ \A b \in Browsers : cookie[b] # None => founded[cookie[b]] # None
  /\ \A k \in Clients : req[k].at = "session" => req[k].user \in Users /\ founded[req[k].user] # None

\* The user that a command's session is of.
Approver(t, u) ==
  IF command[t].code = None THEN u # None /\ founded[u] = "workload" ELSE u = cookie[command[t].code]

\* A login command, its request for approval and its request for a session.
CommandFits(t) ==
  /\ command[t].at = "new" => cli[t].state = "none" /\ req[t].at = "idle"
  /\ command[t].at \in {"new", "waiting"} => command[t].code = None
  /\ command[t].at = "waiting" => cli[t].state # "none" /\ req[t].at = "idle"
  /\ req[t].at \in Presenting => command[t].at = "exchange" /\ cli[t].state \in {"none", "consumed"}
  /\ cli[t].state = "none" => command[t].code = None
  /\ command[t].at \in {"exchange", "done"} /\ command[t].code = None => cli[t].state = "none"
  /\ req[t].at \in {"identify", "insert"} => command[t].code = None /\ req[t].issuer = "workload"
  /\ command[t].code # None =>
       /\ cli[t].state # "open" /\ cli[t].user = cookie[command[t].code]
       /\ cookie[command[t].code] # None
  /\ cli[t].state = "authorized" => cli[t].user \in Users /\ founded[cli[t].user] # None
  /\ req[t].at = "session" => Approver(t, req[t].user)
  /\ command[t].at = "done" => Approver(t, command[t].user)

\* The page that is to approve a command's request, and the one that has.
GoalFits(b, t) ==
  page[b].goal = t =>
    /\ command[t].at # "new"
    /\ page[b].status = "redirected" => cli[t].state \notin {"none", "open"} /\ cli[t].user = cookie[b]

CommandInv ==
  /\ \A t \in Commands : CommandFits(t)
  /\ \A b \in Browsers, t \in Commands : GoalFits(b, t)

SignInInv ==
  SignInTypeOK /\ RequestTypes /\ issued \in [OneTimeRows -> Nat] /\ PageInv /\ ProofsInv /\ UsersInv /\ CommandInv

(* Codes, transactions, approvals: the rows have nothing in common with each other. *)
LEMMA OneTimeRowsApart ==
  /\ None \notin OneTimeRows
  /\ \A b \in Browsers : b \notin Commands
  /\ Challenges \cap Transactions = {} /\ Challenges \cap Commands = {} /\ Transactions \cap Commands = {}
BY SignInAssumption DEF SignInAssumption, OneTimeRows

LEMMA SignInInitially == ASSUME SignInInit PROVE SignInInv
<1> USE SignInAssumption DEF SignInAssumption
<1>0. 0 \in 0..MaxFailures /\ [count |-> 0, left |-> 0] \in [count : 0..(EmailLimit + 1), left : 0..Window]
  BY SMT
<1>1. SignInTypeOK
  BY <1>0 DEF SignInInit, SignInTypeOK, Unused, Loaded
<1>2. RequestTypes /\ issued \in [OneTimeRows -> Nat]
  BY DEF SignInInit, RequestTypes, Clients, BrowserRequest, CommandRequest, OneTimeRows
<1>3. PageInv
  BY DEF SignInInit, PageInv, PageFits, Idle, Loaded, Clients, Asking, Presenting
<1>4. ProofsInv
  BY DEF SignInInit, ProofsInv, Spends, Idle, Presenting, Clients, OneTimeRows
<1>5. UsersInv
  BY DEF SignInInit, UsersInv, Idle, Clients
<1>6. CommandInv
  BY DEF SignInInit, CommandInv, CommandFits, GoalFits, Approver, Idle, Clients, Loaded, Presenting
<1>7. QED BY <1>1, <1>2, <1>3, <1>4, <1>5, <1>6 DEF SignInInv

(* A step of one browser's request and page that leaves sessions and commands alone. *)
LEMMA BrowserStep ==
  ASSUME SignInInv, NEW b \in Browsers,
         DOMAIN req' = Clients, \A k \in Clients : k # b => req'[k] = req[k],
         \A a \in Browsers : a # b => page'[a] = page[a],
         UNCHANGED <<cookie, cli, command, identity, founded>>,
         req'[b] \in BrowserRequest, req'[b].at # "session",
         PageFits(req'[b], page'[b], cookie[b]),
         page'[b].status # "redirected", page'[b].goal \in {page[b].goal, None}
  PROVE  RequestTypes' /\ PageInv' /\ UsersInv' /\ CommandInv'
<1> USE OneTimeRowsApart
<1>0. b \in Clients /\ \A t \in Commands : t \in Clients /\ req'[t] = req[t]
  BY DEF Clients
<1>1. RequestTypes'
  <2>1. \A a \in Browsers : req'[a] \in BrowserRequest
    BY DEF SignInInv, RequestTypes, Clients
  <2>2. BrowserRequest' = BrowserRequest /\ CommandRequest' = CommandRequest
    BY DEF BrowserRequest, CommandRequest, Sending, Verifying, AtBroker, Proving, Exchanging
  <2>3. QED BY <1>0, <2>1, <2>2 DEF SignInInv, RequestTypes, Clients
<1>2. PageInv'
  <2>1. \A a \in Browsers : PageFits(req'[a], page'[a], cookie[a])
    BY DEF SignInInv, PageInv, Clients
  <2>2. QED BY <2>1 DEF PageInv, PageFits
<1>3. UsersInv'
  BY DEF SignInInv, UsersInv, Clients
<1>4. CommandInv'
  <2>1. ASSUME NEW t \in Commands PROVE CommandFits(t)'
    BY <1>0 DEF SignInInv, CommandInv, CommandFits, Approver
  <2>2. ASSUME NEW a \in Browsers, NEW t \in Commands PROVE GoalFits(a, t)'
    BY <1>0 DEF SignInInv, CommandInv, GoalFits, OneTimeRows
  <2>3. QED BY <2>1, <2>2 DEF CommandInv
<1>5. QED BY <1>1, <1>2, <1>3, <1>4

(* A client's step that spends nothing but what it had spent or what nobody had. *)
LEMMA ProofsKept ==
  ASSUME SignInInv, NEW k \in Clients, \A j \in Clients : j # k => req'[j] = req[j],
         issued' = issued,
         \A r \in OneTimeRows : Unspent(r)' => Unspent(r),
         \A r \in OneTimeRows : Spends(k, req'[k], r) => Spends(k, req[k], r) \/ (Unspent(r) /\ ~Unspent(r)')
  PROVE  ProofsInv' /\ (issued \in [OneTimeRows -> Nat])'
<1>1. ASSUME NEW r \in OneTimeRows, NEW j \in Clients, Spends(j, req[j], r)'
      PROVE  Spends(j, req'[j], r) /\ (j # k => Spends(j, req[j], r))
  BY <1>1 DEF Spends
<1>2. ASSUME NEW r \in OneTimeRows, NEW j \in Clients, Spends(j, req[j], r)' PROVE ~Unspent(r)' /\ issued[r] = 0
  BY <1>1, <1>2 DEF SignInInv, ProofsInv
<1>3. ASSUME NEW r \in OneTimeRows, NEW j \in Clients, NEW i \in Clients,
             Spends(j, req[j], r)', Spends(i, req[i], r)'
      PROVE  j = i
  <2>1. CASE Unspent(r)
    BY <1>1, <1>3, <2>1 DEF SignInInv, ProofsInv
  <2>2. CASE ~Unspent(r)
    BY <1>1, <1>3, <2>2 DEF SignInInv, ProofsInv
  <2>3. QED BY <2>1, <2>2
<1>4. \A r \in OneTimeRows : (issued[r] \in {0, 1})' /\ (Unspent(r)' => (issued[r] = 0)')
  BY DEF SignInInv, ProofsInv
<1>5. QED BY <1>2, <1>3, <1>4 DEF ProofsInv, SignInInv

(* A session is made from what a client has spent, whether its answer arrives or not. *)
LEMMA ProofsSpent ==
  ASSUME SignInInv, NEW k \in Clients, \A j \in Clients : j # k => req'[j] = req[j], req'[k] = Idle,
         NEW p \in OneTimeRows \cup {None}, Issue(p), p # None => Spends(k, req[k], p),
         \A r \in OneTimeRows : Unspent(r)' => Unspent(r)
  PROVE  ProofsInv' /\ (issued \in [OneTimeRows -> Nat])'
<1>1. ASSUME NEW r \in OneTimeRows, NEW j \in Clients, Spends(j, req[j], r)'
      PROVE  j # k /\ Spends(j, req[j], r)
  BY <1>1 DEF Spends, Idle, Presenting
<1>2. /\ (issued \in [OneTimeRows -> Nat])'
      /\ \A r \in OneTimeRows : issued'[r] = IF r = p THEN issued[r] + 1 ELSE issued[r]
  BY OneTimeRowsApart DEF Issue, SignInInv
<1>3. p # None => issued[p] = 0 /\ ~Unspent(p) /\ \A j \in Clients : j # k => ~Spends(j, req[j], p)
  BY DEF SignInInv, ProofsInv
<1>4. ASSUME NEW r \in OneTimeRows
      PROVE  (issued[r] \in {0, 1})' /\ (Unspent(r)' => (issued[r] = 0)')
  BY <1>2, <1>3, OneTimeRowsApart DEF SignInInv, ProofsInv
<1>5. ASSUME NEW r \in OneTimeRows, NEW j \in Clients, Spends(j, req[j], r)'
      PROVE  ~Unspent(r)' /\ (issued[r] = 0)'
  BY <1>1, <1>2, <1>3, <1>5, OneTimeRowsApart DEF SignInInv, ProofsInv
<1>6. ASSUME NEW r \in OneTimeRows, NEW j \in Clients, NEW i \in Clients,
             Spends(j, req[j], r)', Spends(i, req[i], r)'
      PROVE  j = i
  BY <1>1, <1>6 DEF SignInInv, ProofsInv
<1>7. QED BY <1>2, <1>4, <1>5, <1>6 DEF ProofsInv

\* What a request of a browser and its page must still be after a step of theirs.
StepFits(b) ==
  /\ DOMAIN req' = Clients /\ \A k \in Clients : k # b => req'[k] = req[k]
  /\ \A a \in Browsers : a # b => page'[a] = page[a]
  /\ UNCHANGED <<config, cookie, cli, command, identity, founded>>
  /\ req'[b] \in BrowserRequest /\ req'[b].at # "session"
  /\ PageFits(req'[b], page'[b], cookie[b])
  /\ page'[b].status # "redirected" /\ page'[b].goal \in {page[b].goal, None}

\* The step spends nothing but what it had spent or what nobody had.
SpendsFairly(b) ==
  /\ issued' = issued
  /\ \A r \in OneTimeRows : Unspent(r)' => Unspent(r)
  /\ \A r \in OneTimeRows : Spends(b, req'[b], r) => Spends(b, req[b], r) \/ (Unspent(r) /\ ~Unspent(r)')

LEMMA StepKeeps ==
  ASSUME SignInInv, NEW b \in Browsers, StepFits(b), SignInTypeOK', SpendsFairly(b)
  PROVE  SignInInv'
<1>1. b \in Clients BY DEF Clients
<1>2. ProofsInv' /\ (issued \in [OneTimeRows -> Nat])'
  BY <1>1, ProofsKept DEF StepFits, SpendsFairly
<1>3. QED BY <1>2, BrowserStep DEF StepFits, SignInInv

\* What is known of a browser that is doing something.
LEMMA BrowserFacts ==
  ASSUME SignInInv, NEW b \in Browsers
  PROVE  /\ b \in Clients /\ b \notin Commands /\ DOMAIN req = Clients
         /\ req[b] \in BrowserRequest /\ page[b] \in PageRecord
         /\ PageFits(req[b], page[b], cookie[b])
         /\ DOMAIN page = Browsers
BY OneTimeRowsApart DEF SignInInv, RequestTypes, PageInv, Clients, SignInTypeOK, PageRecord

\* What a request of a browser has in it.
LEMMA RequestFacts ==
  ASSUME SignInInv, NEW b \in Browsers
  PROVE  /\ req[b].at = "send" => req[b].row \in Challenges
         /\ req[b].at = "verify" => req[b].row \in Challenges
         /\ req[b].at = "tokens" => req[b].row \in Transactions
         /\ req[b].at \in {"identify", "insert", "session"} =>
              /\ req[b].issuer \in Issuers /\ req[b].proof \in OneTimeRows \cup {None}
              /\ req[b].user \in Users \cup {None}
              /\ req[b] = [at |-> req[b].at, issuer |-> req[b].issuer, proof |-> req[b].proof, user |-> req[b].user]
BY BrowserFacts DEF BrowserRequest, Idle, Asking, Sending, Verifying, AtBroker, Proving

(* The form that asks for a code. *)
LEMMA EmailFormKeeps ==
  ASSUME SignInInv, UNCHANGED config, NEW b \in Browsers,
         \/ RequestEmailCode(b) \/ CheckCooldown(b) \/ SendLoginCode(b)
         \/ DeliveryFails(b) \/ ForgetChallenge(b) \/ \E right \in BOOLEAN : VerifyEmailCode(b, right)
  PROVE  SignInInv'
<1>1. CASE RequestEmailCode(b)
  <2>0. bucket' \in [count : 0..(EmailLimit + 1), left : 0..Window]
    BY <1>1, SignInAssumption DEF RequestEmailCode, Consumed, SignInInv, SignInTypeOK, SignInAssumption
  <2>1. StepFits(b)
    BY <1>1, BrowserFacts, RequestFacts DEF RequestEmailCode, EmailForm, AtForm, StepFits, tables, front,
       PageFits, BrowserRequest, Asking, Presenting, Idle
  <2>2. SignInTypeOK'
    BY <1>1, BrowserFacts, RequestFacts, <2>0 DEF RequestEmailCode, EmailForm, AtForm, SignInInv, SignInTypeOK,
       PageRecord, tables, front, InMemory
  <2>3. SpendsFairly(b)
    BY <1>1, BrowserFacts, RequestFacts DEF RequestEmailCode, EmailForm, AtForm, SpendsFairly, Spends, Unspent,
       tables, front, Presenting, Idle
  <2>4. QED BY <2>1, <2>2, <2>3, StepKeeps
<1>2. CASE CheckCooldown(b)
  <2>1. StepFits(b)
    BY <1>2, BrowserFacts, RequestFacts DEF CheckCooldown, StepFits, tables, front, PageFits, BrowserRequest,
       Asking, Presenting, Idle
  <2>2. SignInTypeOK'
    BY <1>2, BrowserFacts, RequestFacts DEF CheckCooldown, SignInInv, SignInTypeOK, PageRecord, tables, front,
       InMemory
  <2>3. SpendsFairly(b)
    BY <1>2, BrowserFacts, RequestFacts DEF CheckCooldown, SpendsFairly, Spends, Unspent, tables, front,
       Presenting, Idle
  <2>4. QED BY <2>1, <2>2, <2>3, StepKeeps
<1>3. CASE SendLoginCode(b)
  <2>1. /\ req[b].at = "send" /\ req[b].row \in Challenges
        /\ req' = [req EXCEPT ![b] = Idle] /\ page' = [page EXCEPT ![b].row = req[b].row]
        /\ UNCHANGED <<config, tables, discovery, cookie, command, issued, failures>>
    BY <1>3, RequestFacts DEF SendLoginCode, Ends
  <2>2. /\ page' \in [Browsers -> PageRecord] /\ \A a \in Browsers : a # b => page'[a] = page[a]
        /\ page'[b].status = "anonymous" /\ page'[b].row = req[b].row /\ page'[b].goal = page[b].goal
    <3>1. /\ page \in [Browsers -> PageRecord] /\ page[b] \in PageRecord /\ page[b].status = "anonymous"
          /\ page' = [page EXCEPT ![b] = [page[b] EXCEPT !.row = req[b].row]]
      BY <2>1, BrowserFacts DEF SignInInv, SignInTypeOK, PageRecord, PageFits
    <3>2. [page[b] EXCEPT !.row = req[b].row] \in PageRecord
      BY <2>1, <3>1 DEF PageRecord
    <3>3. QED BY <3>1, <3>2 DEF PageRecord
  <2>3. StepFits(b)
    <3>1. PageFits(req'[b], page'[b], cookie[b])
      BY <2>1, <2>2, BrowserFacts DEF PageFits, Asking, Presenting, Idle
    <3>2. QED BY <2>1, <2>2, <3>1, BrowserFacts DEF StepFits, tables, BrowserRequest, Idle
  <2>4. SignInTypeOK'
    BY <2>1, <2>2 DEF SignInInv, SignInTypeOK, PageRecord, tables, InMemory
  <2>5. SpendsFairly(b)
    BY <2>1, BrowserFacts DEF SpendsFairly, Spends, Unspent, tables, Presenting, Idle
  <2>6. QED BY <2>3, <2>4, <2>5, StepKeeps
<1>4. CASE DeliveryFails(b)
  <2>0. failures' \in 0..MaxFailures
    BY <1>4, SignInAssumption DEF DeliveryFails, Fault, SignInInv, SignInTypeOK, SignInAssumption
  <2>1. StepFits(b)
    BY <1>4, BrowserFacts, RequestFacts DEF DeliveryFails, Fault, Ends, StepFits, tables, front, PageFits,
       BrowserRequest, Asking, Presenting, Idle
  <2>2. SignInTypeOK'
    BY <1>4, BrowserFacts, RequestFacts, <2>0 DEF DeliveryFails, Fault, Ends, SignInInv, SignInTypeOK,
       PageRecord, tables, front, InMemory
  <2>3. SpendsFairly(b)
    BY <1>4, BrowserFacts, RequestFacts DEF DeliveryFails, Fault, Ends, SpendsFairly, Spends, Unspent, tables,
       front, Presenting, Idle
  <2>4. QED BY <2>1, <2>2, <2>3, StepKeeps
<1>5. CASE ForgetChallenge(b)
  <2>0. page' \in [Browsers -> PageRecord]
    <3>1. page[b] \in PageRecord /\ page \in [Browsers -> PageRecord]
      BY BrowserFacts DEF SignInInv, SignInTypeOK, PageRecord
    <3>2. [page[b] EXCEPT !.row = None] \in PageRecord
      BY <3>1 DEF PageRecord
    <3>3. QED BY <1>5, <3>1, <3>2 DEF ForgetChallenge
  <2>1. StepFits(b)
    BY <1>5, BrowserFacts, RequestFacts DEF ForgetChallenge, CodeForm, AtForm, StepFits, tables, front,
       PageFits, BrowserRequest, Asking, Presenting, Idle
  <2>2. SignInTypeOK'
    BY <1>5, BrowserFacts, RequestFacts, <2>0 DEF ForgetChallenge, CodeForm, AtForm, SignInInv, SignInTypeOK,
       PageRecord, tables, front, InMemory
  <2>3. SpendsFairly(b)
    BY <1>5, BrowserFacts, RequestFacts DEF ForgetChallenge, CodeForm, AtForm, SpendsFairly, Spends, Unspent,
       tables, front, Presenting, Idle
  <2>4. QED BY <2>1, <2>2, <2>3, StepKeeps
<1>6. ASSUME NEW right \in BOOLEAN, VerifyEmailCode(b, right) PROVE SignInInv'
  <2>1. StepFits(b)
    BY <1>6, BrowserFacts, RequestFacts DEF VerifyEmailCode, CodeForm, AtForm, StepFits, tables, front,
       PageFits, BrowserRequest, Asking, Presenting, Idle, Verifying
  <2>2. SignInTypeOK'
    BY <1>6, BrowserFacts, RequestFacts DEF VerifyEmailCode, CodeForm, AtForm, SignInInv, SignInTypeOK,
       PageRecord, tables, front, InMemory, Verifying
  <2>3. SpendsFairly(b)
    BY <1>6, BrowserFacts, RequestFacts DEF VerifyEmailCode, CodeForm, AtForm, SpendsFairly, Spends, Unspent,
       tables, front, Presenting, Idle, Verifying
  <2>4. QED BY <2>1, <2>2, <2>3, StepKeeps
<1>7. QED BY <1>1, <1>2, <1>3, <1>4, <1>5, <1>6

(* The code is presented. *)
LEMMA CodeKeeps ==
  ASSUME SignInInv, UNCHANGED config, NEW b \in Browsers,
         \/ ConsumeEmailChallenge(b) \/ RefuseEmailChallenge(b) \/ RefuseEmailCode(b)
         \/ CountEmailAttempt(b)
  PROVE  SignInInv'
<1>1. CASE ConsumeEmailChallenge(b)
  <2>1. StepFits(b)
    BY <1>1, BrowserFacts, RequestFacts DEF ConsumeEmailChallenge, Acceptable, Open, Proven, StepFits, tables,
       front, PageFits, BrowserRequest, Asking, Presenting, Idle, Verifying, Proving, OneTimeRows, Issuers
  <2>2. SignInTypeOK'
    BY <1>1, BrowserFacts, RequestFacts DEF ConsumeEmailChallenge, Acceptable, Open, Proven, SignInInv,
       SignInTypeOK, PageRecord, tables, front, InMemory, Verifying, Proving, OneTimeRows, Issuers
  <2>3. SpendsFairly(b)
    <3>1. PICK c \in Challenges : c = req[b].row
      BY <1>1, RequestFacts DEF ConsumeEmailChallenge
    <3>2. Unspent(c) /\ challenge'[c].state = "consumed"
      BY <1>1, <3>1 DEF ConsumeEmailChallenge, Acceptable, Open, Unspent, SignInInv, SignInTypeOK
    <3>3. ~Unspent(c)'
      BY <3>2, OneTimeRowsApart DEF Unspent
    <3>4. ASSUME NEW r \in OneTimeRows PROVE Unspent(r)' => Unspent(r)
      BY <1>1, <3>1, <3>2 DEF ConsumeEmailChallenge, Unspent, SignInInv, SignInTypeOK, front
    <3>5. ASSUME NEW r \in OneTimeRows, Spends(b, req'[b], r) PROVE r = c
      BY <1>1, <3>1, <3>5, BrowserFacts DEF ConsumeEmailChallenge, Proven, Spends
    <3>6. issued' = issued
      BY <1>1 DEF ConsumeEmailChallenge
    <3>7. QED BY <3>2, <3>3, <3>4, <3>5, <3>6 DEF SpendsFairly
  <2>4. QED BY <2>1, <2>2, <2>3, StepKeeps
<1>2. CASE RefuseEmailChallenge(b)
  <2>1. StepFits(b)
    BY <1>2, BrowserFacts, RequestFacts DEF RefuseEmailChallenge, Ends, StepFits, tables, front, PageFits,
       BrowserRequest, Asking, Presenting, Idle
  <2>2. SignInTypeOK'
    BY <1>2, BrowserFacts, RequestFacts DEF RefuseEmailChallenge, Ends, SignInInv, SignInTypeOK, PageRecord,
       tables, front, InMemory
  <2>3. SpendsFairly(b)
    BY <1>2, BrowserFacts, RequestFacts DEF RefuseEmailChallenge, Ends, SpendsFairly, Spends, Unspent, tables,
       front, Presenting, Idle
  <2>4. QED BY <2>1, <2>2, <2>3, StepKeeps
<1>3. CASE RefuseEmailCode(b)
  <2>1. StepFits(b)
    BY <1>3, BrowserFacts, RequestFacts DEF RefuseEmailCode, Ends, StepFits, tables, front, PageFits,
       BrowserRequest, Asking, Presenting, Idle
  <2>2. SignInTypeOK'
    BY <1>3, BrowserFacts, RequestFacts DEF RefuseEmailCode, Ends, SignInInv, SignInTypeOK, PageRecord, tables,
       front, InMemory
  <2>3. SpendsFairly(b)
    BY <1>3, BrowserFacts, RequestFacts DEF RefuseEmailCode, Ends, SpendsFairly, Spends, Unspent, tables,
       front, Presenting, Idle
  <2>4. QED BY <2>1, <2>2, <2>3, StepKeeps
<1>4. CASE CountEmailAttempt(b)
  <2>0. challenge' \in [Challenges -> ChallengeRow]
    <3>1. /\ req[b].row \in Challenges
          /\ challenge \in [Challenges -> ChallengeRow]
          /\ challenge[req[b].row].state = "open" /\ challenge[req[b].row].attempts < MaxAttempts /\ InMemory
      BY <1>4, RequestFacts DEF CountEmailAttempt, Acceptable, Open, SignInInv, SignInTypeOK, ChallengeRow
    <3>2. challenge[req[b].row] \in [state : {"open"}, age : 0..(Lifetime - 1), attempts : 0..MaxAttempts]
      BY <3>1 DEF ChallengeRow
    <3>3. [challenge[req[b].row] EXCEPT !.attempts = @ + 1]
            \in [state : {"open"}, age : 0..(Lifetime - 1), attempts : 0..MaxAttempts]
      BY <3>1, <3>2, SignInAssumption DEF SignInAssumption
    <3>4. QED BY <1>4, <3>1, <3>3 DEF CountEmailAttempt, ChallengeRow
  <2>1. StepFits(b)
    BY <1>4, BrowserFacts, RequestFacts DEF CountEmailAttempt, Ends, StepFits, tables, front, PageFits,
       BrowserRequest, Asking, Presenting, Idle, ChallengeRow
  <2>2. SignInTypeOK'
    BY <1>4, BrowserFacts, RequestFacts, <2>0 DEF CountEmailAttempt, Ends, SignInInv, SignInTypeOK, PageRecord,
       tables, front, InMemory, ChallengeRow
  <2>3. SpendsFairly(b)
    BY <1>4, BrowserFacts, RequestFacts DEF CountEmailAttempt, Ends, SpendsFairly, Spends, Unspent, tables,
       front, Presenting, Idle, ChallengeRow
  <2>4. QED BY <2>1, <2>2, <2>3, StepKeeps
<1>5. QED BY <1>1, <1>2, <1>3, <1>4

(* The password and the broker. *)
LEMMA BrokerKeeps ==
  ASSUME SignInInv, UNCHANGED config, NEW b \in Browsers,
         \/ LoginPassword(b) \/ BeginOidc(b) \/ RefuseOidc(b)
         \/ CreateOidcTransaction(b) \/ ConsumeOidcTransaction(b) \/ FetchTokens(b)
         \/ TokensFail(b) \/ Reopen(b)
  PROVE  SignInInv'
<1>1. CASE LoginPassword(b)
  <2>1. StepFits(b)
    BY <1>1, BrowserFacts, RequestFacts DEF LoginPassword, PasswordForm, AtForm, Proven, StepFits, tables,
       front, PageFits, BrowserRequest, Asking, Presenting, Idle, Proving, OneTimeRows, Issuers
  <2>2. SignInTypeOK'
    BY <1>1, BrowserFacts, RequestFacts DEF LoginPassword, PasswordForm, AtForm, Proven, SignInInv,
       SignInTypeOK, PageRecord, tables, front, InMemory, Proving, OneTimeRows, Issuers
  <2>3. SpendsFairly(b)
    <3>1. ASSUME NEW r \in OneTimeRows PROVE ~Spends(b, req'[b], r)
      BY <1>1, BrowserFacts, OneTimeRowsApart DEF LoginPassword, Proven, Spends
    <3>2. QED BY <1>1, <3>1 DEF LoginPassword, SpendsFairly, Unspent, tables, front
  <2>4. QED BY <2>1, <2>2, <2>3, StepKeeps
<1>2. CASE BeginOidc(b)
  <2>1. StepFits(b)
    BY <1>2, BrowserFacts, RequestFacts DEF BeginOidc, ProviderButton, AtForm, StepFits, tables, front,
       PageFits, BrowserRequest, Asking, Presenting, Idle
  <2>2. SignInTypeOK'
    BY <1>2, BrowserFacts, RequestFacts DEF BeginOidc, ProviderButton, AtForm, SignInInv, SignInTypeOK,
       PageRecord, tables, front, InMemory
  <2>3. SpendsFairly(b)
    BY <1>2, BrowserFacts, RequestFacts DEF BeginOidc, ProviderButton, AtForm, SpendsFairly, Spends, Unspent,
       tables, front, Presenting, Idle
  <2>4. QED BY <2>1, <2>2, <2>3, StepKeeps
<1>3. CASE RefuseOidc(b)
  <2>1. StepFits(b)
    BY <1>3, BrowserFacts, RequestFacts DEF RefuseOidc, Ends, StepFits, tables, front, PageFits,
       BrowserRequest, Asking, Presenting, Idle
  <2>2. SignInTypeOK'
    BY <1>3, BrowserFacts, RequestFacts DEF RefuseOidc, Ends, SignInInv, SignInTypeOK, PageRecord, tables,
       front, InMemory
  <2>3. SpendsFairly(b)
    BY <1>3, BrowserFacts, RequestFacts DEF RefuseOidc, Ends, SpendsFairly, Spends, Unspent, tables, front,
       Presenting, Idle
  <2>4. QED BY <2>1, <2>2, <2>3, StepKeeps
<1>4. CASE CreateOidcTransaction(b)
  <2>0. page' \in [Browsers -> PageRecord]
    <3>1. page[b] \in PageRecord /\ page \in [Browsers -> PageRecord]
      BY BrowserFacts DEF SignInInv, SignInTypeOK, PageRecord
    <3>2. ASSUME NEW o \in Transactions PROVE [page[b] EXCEPT !.status = "broker", !.row = o] \in PageRecord
      BY <3>1 DEF PageRecord
    <3>3. QED BY <1>4, <3>1, <3>2 DEF CreateOidcTransaction
  <2>5. oidc' \in [Transactions -> {"none", "open", "consumed", "expired"}]
    <3>1. oidc \in [Transactions -> {"none", "open", "consumed", "expired"}]
      BY DEF SignInInv, SignInTypeOK
    <3>2. PICK o \in Transactions : oidc' = [oidc EXCEPT ![o] = "open"]
      BY <1>4 DEF CreateOidcTransaction
    <3>3. QED BY <3>1, <3>2
  <2>6. UNCHANGED <<challenge, bucket, cli, identity, founded, discovery, cookie, command, failures>>
    BY <1>4 DEF CreateOidcTransaction
  <2>1. StepFits(b)
    BY <1>4, BrowserFacts, RequestFacts DEF CreateOidcTransaction, Ends, StepFits, tables, front, PageFits,
       BrowserRequest, Asking, Presenting, Idle, PageRecord
  <2>2. SignInTypeOK'
    BY <2>0, <2>5, <2>6 DEF SignInInv, SignInTypeOK, PageRecord, InMemory
  <2>3. SpendsFairly(b)
    BY <1>4, BrowserFacts, RequestFacts DEF CreateOidcTransaction, Ends, SpendsFairly, Spends, Unspent, tables,
       front, Presenting, Idle, PageRecord
  <2>4. QED BY <2>1, <2>2, <2>3, StepKeeps
<1>5. CASE ConsumeOidcTransaction(b)
  <2>1. StepFits(b)
    BY <1>5, BrowserFacts, RequestFacts DEF ConsumeOidcTransaction, StepFits, tables, front, PageFits,
       BrowserRequest, Asking, Presenting, Idle, AtBroker
  <2>2. SignInTypeOK'
    BY <1>5, BrowserFacts, RequestFacts DEF ConsumeOidcTransaction, SignInInv, SignInTypeOK, PageRecord,
       tables, front, InMemory, AtBroker
  <2>3. SpendsFairly(b)
    <3>1. PICK o \in Transactions : o = page[b].row
      BY <1>5, BrowserFacts DEF ConsumeOidcTransaction, PageFits
    <3>2. Unspent(o) /\ oidc'[o] = "consumed"
      BY <1>5, <3>1 DEF ConsumeOidcTransaction, Unspent, SignInInv, SignInTypeOK
    <3>3. ~Unspent(o)'
      BY <3>2, OneTimeRowsApart DEF Unspent
    <3>4. ASSUME NEW r \in OneTimeRows PROVE Unspent(r)' => Unspent(r)
      BY <1>5, <3>1, <3>2 DEF ConsumeOidcTransaction, Unspent, SignInInv, SignInTypeOK, front
    <3>5. ASSUME NEW r \in OneTimeRows, Spends(b, req'[b], r) PROVE r = o
      BY <1>5, <3>1, <3>5, BrowserFacts DEF ConsumeOidcTransaction, Spends
    <3>6. issued' = issued
      BY <1>5 DEF ConsumeOidcTransaction
    <3>7. QED BY <3>2, <3>3, <3>4, <3>5, <3>6 DEF SpendsFairly
  <2>4. QED BY <2>1, <2>2, <2>3, StepKeeps
<1>6. CASE FetchTokens(b)
  <2>1. StepFits(b)
    BY <1>6, BrowserFacts, RequestFacts DEF FetchTokens, Proven, StepFits, tables, front, PageFits,
       BrowserRequest, Asking, Presenting, Idle, AtBroker, Proving, OneTimeRows, Issuers
  <2>2. SignInTypeOK'
    BY <1>6, BrowserFacts, RequestFacts DEF FetchTokens, Proven, SignInInv, SignInTypeOK, PageRecord, tables,
       front, InMemory, AtBroker, Proving, OneTimeRows, Issuers
  <2>3. SpendsFairly(b)
    BY <1>6, BrowserFacts, RequestFacts DEF FetchTokens, Proven, SpendsFairly, Spends, Unspent, tables, front,
       Presenting, Idle, AtBroker, Proving, OneTimeRows, Issuers
  <2>4. QED BY <2>1, <2>2, <2>3, StepKeeps
<1>7. CASE TokensFail(b)
  <2>0. failures' \in 0..MaxFailures
    BY <1>7, SignInAssumption DEF TokensFail, Fault, SignInInv, SignInTypeOK, SignInAssumption
  <2>1. StepFits(b)
    BY <1>7, BrowserFacts, RequestFacts DEF TokensFail, Fault, Ends, StepFits, tables, front, PageFits,
       BrowserRequest, Asking, Presenting, Idle
  <2>2. SignInTypeOK'
    BY <1>7, BrowserFacts, RequestFacts, <2>0 DEF TokensFail, Fault, Ends, SignInInv, SignInTypeOK, PageRecord,
       tables, front, InMemory
  <2>3. SpendsFairly(b)
    BY <1>7, BrowserFacts, RequestFacts DEF TokensFail, Fault, Ends, SpendsFairly, Spends, Unspent, tables,
       front, Presenting, Idle
  <2>4. QED BY <2>1, <2>2, <2>3, StepKeeps
<1>8. CASE Reopen(b)
  <2>1. StepFits(b)
    BY <1>8, BrowserFacts, RequestFacts DEF Reopen, Loaded, StepFits, tables, front, PageFits, BrowserRequest,
       Asking, Presenting, Idle
  <2>2. SignInTypeOK'
    BY <1>8, BrowserFacts, RequestFacts DEF Reopen, Loaded, SignInInv, SignInTypeOK, PageRecord, tables, front,
       InMemory
  <2>3. SpendsFairly(b)
    BY <1>8, BrowserFacts, RequestFacts DEF Reopen, Loaded, SpendsFairly, Spends, Unspent, tables, front,
       Presenting, Idle
  <2>4. QED BY <2>1, <2>2, <2>3, StepKeeps
<1>9. QED BY <1>1, <1>2, <1>3, <1>4, <1>5, <1>6, <1>7, <1>8

(* The shell is loaded, the approval is refused. *)
LEMMA ShellKeeps ==
  ASSUME SignInInv, UNCHANGED config, NEW b \in Browsers,
         \/ Initialize(b) \/ InitializeFails(b) \/ RefuseApproval(b)
  PROVE  SignInInv'
<1>1. CASE Initialize(b)
  <2>0. page' \in [Browsers -> PageRecord]
    <3>1. page[b] \in PageRecord /\ page \in [Browsers -> PageRecord]
      BY BrowserFacts DEF SignInInv, SignInTypeOK, PageRecord
    <3>2. [page[b] EXCEPT !.status = IF cookie[b] = None THEN "anonymous" ELSE "authenticated"] \in PageRecord
      BY <3>1 DEF PageRecord
    <3>3. QED BY <1>1, <3>1, <3>2 DEF Initialize
  <2>1. StepFits(b)
    BY <1>1, BrowserFacts, RequestFacts DEF Initialize, StepFits, tables, front, PageFits, BrowserRequest,
       Asking, Presenting, Idle
  <2>2. SignInTypeOK'
    BY <1>1, BrowserFacts, RequestFacts, <2>0 DEF Initialize, SignInInv, SignInTypeOK, PageRecord, tables,
       front, InMemory
  <2>3. SpendsFairly(b)
    BY <1>1, BrowserFacts, RequestFacts DEF Initialize, SpendsFairly, Spends, Unspent, tables, front,
       Presenting, Idle
  <2>4. QED BY <2>1, <2>2, <2>3, StepKeeps
<1>2. CASE InitializeFails(b)
  <2>0. failures' \in 0..MaxFailures
    BY <1>2, SignInAssumption DEF InitializeFails, Fault, SignInInv, SignInTypeOK, SignInAssumption
  <2>page. page' \in [Browsers -> PageRecord]
    <3>1. page[b] \in PageRecord /\ page \in [Browsers -> PageRecord]
      BY BrowserFacts DEF SignInInv, SignInTypeOK, PageRecord
    <3>2. [page[b] EXCEPT !.status = "error"] \in PageRecord
      BY <3>1 DEF PageRecord
    <3>3. QED BY <1>2, <3>1, <3>2 DEF InitializeFails
  <2>1. StepFits(b)
    BY <1>2, BrowserFacts, RequestFacts DEF InitializeFails, Fault, StepFits, tables, front, PageFits,
       BrowserRequest, Asking, Presenting, Idle
  <2>2. SignInTypeOK'
    BY <1>2, BrowserFacts, RequestFacts, <2>0, <2>page DEF InitializeFails, Fault, SignInInv, SignInTypeOK,
       PageRecord, tables, front, InMemory
  <2>3. SpendsFairly(b)
    BY <1>2, BrowserFacts, RequestFacts DEF InitializeFails, Fault, SpendsFairly, Spends, Unspent, tables,
       front, Presenting, Idle
  <2>4. QED BY <2>1, <2>2, <2>3, StepKeeps
<1>3. CASE RefuseApproval(b)
  <2>0. page' \in [Browsers -> PageRecord]
    <3>1. page[b] \in PageRecord /\ page \in [Browsers -> PageRecord]
      BY BrowserFacts DEF SignInInv, SignInTypeOK, PageRecord
    <3>2. [page[b] EXCEPT !.goal = None] \in PageRecord
      BY <3>1 DEF PageRecord
    <3>3. QED BY <1>3, <3>1, <3>2 DEF RefuseApproval
  <2>1. StepFits(b)
    BY <1>3, BrowserFacts, RequestFacts DEF RefuseApproval, StepFits, tables, front, PageFits, BrowserRequest,
       Asking, Presenting, Idle
  <2>2. SignInTypeOK'
    BY <1>3, BrowserFacts, RequestFacts, <2>0 DEF RefuseApproval, SignInInv, SignInTypeOK, PageRecord, tables,
       front, InMemory
  <2>3. SpendsFairly(b)
    BY <1>3, BrowserFacts, RequestFacts DEF RefuseApproval, SpendsFairly, Spends, Unspent, tables, front,
       Presenting, Idle
  <2>4. QED BY <2>1, <2>2, <2>3, StepKeeps
<1>4. QED BY <1>1, <1>2, <1>3

(* A new code: the row that stands for it was forgotten. *)
LEMMA CreateEmailChallengeKeeps ==
  ASSUME SignInInv, UNCHANGED config, NEW b \in Browsers, CreateEmailChallenge(b)
  PROVE  SignInInv'
<1>1. PICK c \in Challenges :
        /\ Forgotten(c)
        /\ challenge' = [challenge EXCEPT ![c] = [state |-> "open", age |-> 0, attempts |-> 0]]
        /\ issued' = [issued EXCEPT ![c] = 0]
        /\ req' = [req EXCEPT ![b] = [at |-> "send", row |-> c]]
  BY DEF CreateEmailChallenge
<1>2. UNCHANGED <<bucket, oidc, cli, identity, founded, discovery, cookie, page, command, failures>>
  BY DEF CreateEmailChallenge, front
<1>3. StepFits(b)
  BY <1>1, <1>2, BrowserFacts DEF CreateEmailChallenge, StepFits, PageFits, BrowserRequest, Sending, Asking,
     Presenting
<1>4. challenge' \in [Challenges -> ChallengeRow]
  <2>1. challenge \in [Challenges -> ChallengeRow]
    BY DEF SignInInv, SignInTypeOK, ChallengeRow
  <2>2. [state |-> "open", age |-> 0, attempts |-> 0] \in ChallengeRow
    BY SignInAssumption DEF SignInAssumption, ChallengeRow
  <2>3. QED BY <1>1, <2>1, <2>2
<1>5. SignInTypeOK'
  BY <1>2, <1>4 DEF SignInInv, SignInTypeOK, ChallengeRow, InMemory
<1>6. c \in OneTimeRows /\ issued'[c] = 0 /\ \A r \in OneTimeRows : r # c => issued'[r] = issued[r]
  BY <1>1 DEF SignInInv, OneTimeRows
<1>7. (issued \in [OneTimeRows -> Nat])'
  BY <1>1 DEF SignInInv, OneTimeRows
<1>8. ASSUME NEW r \in OneTimeRows, NEW k \in Clients, Spends(k, req[k], r)'
      PROVE  k # b /\ Spends(k, req[k], r)
  BY <1>1, <1>8, BrowserFacts DEF Spends, Presenting
<1>9. ASSUME NEW k \in Clients PROVE ~Spends(k, req[k], c)' /\ ~Spends(k, req[k], c)
  <2>1. ~Spends(k, req[k], c)
    BY <1>1, RequestFacts, OneTimeRowsApart DEF Forgotten, Spends, Presenting, Clients
  <2>2. QED BY <1>6, <1>8, <2>1
<1>10. ASSUME NEW r \in OneTimeRows, r # c PROVE Unspent(r)' = Unspent(r)
  BY <1>1, <1>2, <1>10 DEF Unspent, SignInInv, SignInTypeOK
<1>11. ProofsInv'
  <2>1. ASSUME NEW r \in OneTimeRows
        PROVE  (/\ issued[r] \in {0, 1}
                /\ Unspent(r) => issued[r] = 0 /\ \A k \in Clients : ~Spends(k, req[k], r)
                /\ \A k \in Clients : Spends(k, req[k], r) => issued[r] = 0
                /\ \A k, j \in Clients : Spends(k, req[k], r) /\ Spends(j, req[j], r) => k = j)'
    <3>1. CASE r = c
      BY <1>6, <1>9, <3>1
    <3>2. CASE r # c
      BY <1>6, <1>8, <1>10, <3>2 DEF SignInInv, ProofsInv
    <3>3. QED BY <3>1, <3>2
  <2>2. QED BY <2>1 DEF ProofsInv
<1>12. QED BY <1>3, <1>5, <1>7, <1>11, BrowserStep DEF StepFits, SignInInv

(* Time, the broker's rows and the discovery touch no request, page or command. *)
LEMMA TablesKeep ==
  ASSUME SignInInv, UNCHANGED config,
         Discovered \/ DiscoveryFails \/ Tick \/ \E o \in Transactions : OidcExpires(o)
  PROVE  SignInInv'
<1>1. UNCHANGED <<req, cli, identity, founded, cookie, page, command, issued>>
  BY DEF Discovered, DiscoveryFails, Tick, OidcExpires, tables, front
<1>2. ASSUME NEW r \in OneTimeRows, Unspent(r)' PROVE Unspent(r)
  <2>1. CASE Tick
    BY <1>1, <1>2, <2>1, OneTimeRowsApart DEF Tick, Unspent, Open, Unused
  <2>2. CASE Discovered \/ DiscoveryFails
    BY <1>1, <1>2, <2>2 DEF Discovered, DiscoveryFails, Unspent, tables
  <2>3. CASE \E o \in Transactions : OidcExpires(o)
    BY <1>1, <1>2, <2>3 DEF OidcExpires, Unspent, SignInInv, SignInTypeOK
  <2>4. QED BY <2>1, <2>2, <2>3
<1>3. SignInTypeOK'
  <2>1. CASE Tick
    <3>1. challenge' \in [Challenges -> ChallengeRow]
      <4>1. ASSUME NEW c \in Challenges PROVE challenge'[c] \in ChallengeRow
        <5>1. challenge[c] \in ChallengeRow
          BY DEF SignInInv, SignInTypeOK, ChallengeRow
        <5>2. CASE ~Open(c)
          BY <2>1, <5>1, <5>2 DEF Tick
        <5>3. CASE Open(c) /\ challenge[c].age + 1 >= Lifetime
          BY <2>1, <5>3 DEF Tick, Unused, ChallengeRow
        <5>4. CASE Open(c) /\ ~(challenge[c].age + 1 >= Lifetime)
          <6>1. challenge[c].age \in Nat /\ challenge[c].age + 1 \in 0..(Lifetime - 1)
            BY <5>1, <5>4, SignInAssumption DEF ChallengeRow, Open, SignInAssumption
          <6>2. [challenge[c] EXCEPT !.age = @ + 1] \in ChallengeRow
            BY <5>1, <5>4, <6>1 DEF ChallengeRow, Open
          <6>3. QED BY <2>1, <5>4, <6>2 DEF Tick
        <5>5. QED BY <5>2, <5>3, <5>4
      <4>2. QED BY <2>1, <4>1 DEF Tick
    <3>2. bucket' \in [count : 0..(EmailLimit + 1), left : 0..Window]
      BY <2>1, SignInAssumption DEF Tick, SignInInv, SignInTypeOK, SignInAssumption
    <3>3. QED BY <1>1, <2>1, <3>1, <3>2 DEF Tick, SignInInv, SignInTypeOK, ChallengeRow, InMemory
  <2>2. CASE Discovered \/ DiscoveryFails
    BY <1>1, <2>2, SignInAssumption DEF Discovered, DiscoveryFails, Fault, SignInInv, SignInTypeOK, InMemory,
       tables, SignInAssumption
  <2>3. CASE \E o \in Transactions : OidcExpires(o)
    BY <1>1, <2>3 DEF OidcExpires, SignInInv, SignInTypeOK, InMemory
  <2>4. QED BY <2>1, <2>2, <2>3
<1>4. RequestTypes' /\ PageInv' /\ UsersInv'
  BY <1>1 DEF SignInInv, RequestTypes, BrowserRequest, CommandRequest, Sending, Verifying, AtBroker, Proving,
     Exchanging, PageInv, PageFits, UsersInv
<1>5. CommandInv'
  BY <1>1 DEF SignInInv, CommandInv, CommandFits, Approver, GoalFits
<1>6. ProofsInv' /\ (issued \in [OneTimeRows -> Nat])'
  BY <1>1, <1>2 DEF SignInInv, ProofsInv, Spends
<1>7. QED BY <1>3, <1>4, <1>5, <1>6 DEF SignInInv

(* A client whose request proved an identity: looking it up, inserting it. *)
Identifies(k) ==
  /\ req[k].at \in {"identify", "insert"}
  /\ \E at \in {"insert", "session"}, u \in Users \cup {None} : req' = [req EXCEPT ![k].at = at, ![k].user = u]
  /\ UNCHANGED <<config, challenge, bucket, oidc, cli, discovery, cookie, page, command, issued, failures>>

LEMMA IdentifyingClient ==
  ASSUME SignInInv, NEW k \in Clients, req[k].at \in {"identify", "insert"}
  PROVE  /\ req[k] \in Proving
         /\ k \in Browsers => req[k].at # "idle"
BY OneTimeRowsApart DEF SignInInv, RequestTypes, Clients, BrowserRequest, CommandRequest, Idle, Asking, Sending,
   Verifying, AtBroker, Proving, Exchanging

LEMMA IdentifyKeeps ==
  ASSUME SignInInv, NEW k \in Clients, Identifies(k)
  PROVE  RequestTypes' /\ PageInv' /\ ProofsInv' /\ (issued \in [OneTimeRows -> Nat])'
<1>1. PICK at \in {"insert", "session"}, u \in Users \cup {None} : req' = [req EXCEPT ![k].at = at, ![k].user = u]
  BY DEF Identifies
<1>2. req[k] \in Proving /\ DOMAIN req = Clients
  BY IdentifyingClient DEF Identifies, SignInInv, RequestTypes
<1>3. /\ DOMAIN req' = Clients /\ \A j \in Clients : j # k => req'[j] = req[j]
      /\ req'[k] \in Proving /\ req'[k].at = at /\ req'[k].user = u
      /\ req'[k].proof = req[k].proof /\ req'[k].issuer = req[k].issuer
  BY <1>1, <1>2 DEF Proving
<1>4. RequestTypes'
  BY <1>3 DEF SignInInv, RequestTypes, Clients, BrowserRequest, CommandRequest, Sending, Verifying, AtBroker,
     Proving,
     Exchanging
<1>5. PageInv'
  <2>1. ASSUME NEW b \in Browsers PROVE PageFits(req[b], page[b], cookie[b])'
    <3>1. PageFits(req[b], page[b], cookie[b]) /\ b \in Clients
      BY BrowserFacts
    <3>2. CASE b = k
      BY <1>3, <3>1, <3>2 DEF Identifies, PageFits, Asking, Presenting
    <3>3. CASE b # k
      BY <1>3, <3>1, <3>3 DEF Identifies, PageFits
    <3>4. QED BY <3>2, <3>3
  <2>2. QED BY <2>1 DEF PageInv
<1>6. ProofsInv' /\ (issued \in [OneTimeRows -> Nat])'
  <2>1. \A r \in OneTimeRows : Spends(k, req'[k], r) => Spends(k, req[k], r)
    BY <1>3 DEF Identifies, Spends, Presenting
  <2>2. \A r \in OneTimeRows : Unspent(r)' => Unspent(r)
    BY DEF Identifies, Unspent
  <2>3. QED BY <1>3, <2>1, <2>2, ProofsKept DEF Identifies
<1>7. QED BY <1>4, <1>5, <1>6

(* The identity has a user: the request goes on to the session. *)
LEMMA IdentityFoundKeeps ==
  ASSUME SignInInv, NEW k \in Clients, Identifies(k), UNCHANGED <<identity, founded>>,
         req'[k].at = "session" => req'[k].user # None /\ identity[req[k].issuer] = req'[k].user
  PROVE  SignInInv'
<1>1. PICK at \in {"insert", "session"}, u \in Users \cup {None} : req' = [req EXCEPT ![k].at = at, ![k].user = u]
  BY DEF Identifies
<1>2. req[k] \in Proving /\ DOMAIN req = Clients
  BY IdentifyingClient DEF Identifies, SignInInv, RequestTypes
<1>3. /\ \A j \in Clients : j # k => req'[j] = req[j]
      /\ req'[k].at = at /\ req'[k].user = u /\ req'[k].issuer = req[k].issuer
  BY <1>1, <1>2 DEF Proving
<1>4. at = "session" => u \in Users /\ founded[u] = req[k].issuer /\ req[k].issuer # None
  BY <1>2, <1>3, SignInAssumption DEF SignInInv, UsersInv, Proving, SignInAssumption
<1>5. SignInTypeOK'
  BY DEF Identifies, SignInInv, SignInTypeOK, InMemory
<1>6. UsersInv'
  BY <1>3, <1>4 DEF Identifies, SignInInv, UsersInv
<1>7. CommandInv'
  <2>1. ASSUME NEW t \in Commands PROVE CommandFits(t)'
    <3>1. CommandFits(t) /\ t \in Clients
      BY DEF SignInInv, CommandInv, Clients
    <3>2. CASE t = k
      BY <1>3, <1>4, <3>1, <3>2, OneTimeRowsApart DEF Identifies, CommandFits, Approver, Presenting, OneTimeRows
    <3>3. CASE t # k
      BY <1>3, <3>1, <3>3 DEF Identifies, CommandFits, Approver
    <3>4. QED BY <3>2, <3>3
  <2>2. ASSUME NEW b \in Browsers, NEW t \in Commands PROVE GoalFits(b, t)'
    BY DEF Identifies, SignInInv, CommandInv, GoalFits
  <2>3. QED BY <2>1, <2>2 DEF CommandInv
<1>8. QED BY <1>5, <1>6, <1>7, IdentifyKeeps DEF SignInInv

(* The identity has none: the user is inserted with it. *)
LEMMA IdentityInsertedKeeps ==
  ASSUME SignInInv, NEW k \in Clients, req[k].at \in {"identify", "insert"}, identity[req[k].issuer] = None,
         NEW u \in Users, Insert(k, u),
         UNCHANGED <<config, challenge, bucket, oidc, cli, discovery, cookie, page, command, issued, failures>>
  PROVE  SignInInv'
<1>1. Identifies(k)
  BY DEF Insert, Identifies
<1>2. req[k] \in Proving /\ DOMAIN req = Clients
  BY IdentifyingClient DEF SignInInv, RequestTypes
<1>3. /\ \A j \in Clients : j # k => req'[j] = req[j]
      /\ req'[k].at = "session" /\ req'[k].user = u
  BY <1>2 DEF Insert, Proving
<1>4. PICK i \in Issuers : i = req[k].issuer /\ i # None /\ u # None
  BY <1>2, SignInAssumption DEF Proving, SignInAssumption
<1>5. /\ founded[u] = None /\ founded' = [founded EXCEPT ![u] = i]
      /\ identity[i] = None /\ identity' = [identity EXCEPT ![i] = u]
  BY <1>4 DEF Insert
<1>6. SignInTypeOK'
  BY <1>4, <1>5 DEF SignInInv, SignInTypeOK, InMemory
<1>7. \A w \in Users : founded[w] # None => founded'[w] = founded[w]
  BY <1>5 DEF SignInInv, SignInTypeOK
<1>8. founded'[u] = i /\ identity'[i] = u
  BY <1>4, <1>5 DEF SignInInv, SignInTypeOK
<1>9. UsersInv'
  <2>1. ASSUME NEW w \in Users, founded'[w] # None PROVE identity'[founded'[w]] = w
    <3>1. CASE w = u
      BY <1>8, <3>1
    <3>2. CASE w # u
      <4>1. founded'[w] = founded[w] /\ founded[w] \in Issuers /\ identity[founded[w]] = w /\ w # None
        BY <1>5, <2>1, <3>2, SignInAssumption DEF SignInInv, SignInTypeOK, UsersInv, SignInAssumption
      <4>2. founded[w] # i
        BY <1>5, <4>1
      <4>3. QED BY <1>5, <4>1, <4>2 DEF SignInInv, SignInTypeOK
    <3>3. QED BY <3>1, <3>2
  <2>2. ASSUME NEW j \in Issuers, identity'[j] # None PROVE founded'[identity'[j]] = j
    <3>1. CASE j = i
      BY <1>8, <3>1
    <3>2. CASE j # i
      <4>1. identity'[j] = identity[j] /\ identity[j] \in Users /\ founded[identity[j]] = j
        BY <1>5, <2>2, <3>2 DEF SignInInv, SignInTypeOK, UsersInv
      <4>2. j # None
        BY SignInAssumption DEF SignInAssumption
      <4>3. QED BY <1>7, <4>1, <4>2
    <3>3. QED BY <3>1, <3>2
  <2>3. ASSUME NEW b \in Browsers, cookie[b] # None PROVE founded'[cookie[b]] # None
    BY <1>7, <2>3 DEF SignInInv, SignInTypeOK, UsersInv
  <2>4. ASSUME NEW j \in Clients, req'[j].at = "session" PROVE req'[j].user \in Users /\ founded'[req'[j].user] # None
    BY <1>3, <1>4, <1>7, <1>8, <2>4 DEF SignInInv, UsersInv
  <2>5. QED BY <2>1, <2>2, <2>3, <2>4 DEF UsersInv
<1>10. CommandInv'
  <2>1. ASSUME NEW t \in Commands PROVE CommandFits(t)'
    <3>1. CommandFits(t) /\ t \in Clients
      BY DEF SignInInv, CommandInv, Clients
    <3>2. command[t].user \in Users \cup {None} /\ "workload" # None
      BY SignInAssumption DEF SignInInv, SignInTypeOK, SignInAssumption, Issuers
    <3>3. CASE t = k
      BY <1>3, <1>4, <1>7, <1>8, <3>1, <3>2, <3>3 DEF CommandFits, Approver, Presenting
    <3>4. CASE t # k
      <4>1. req'[t] = req[t] /\ (req[t].at = "session" => req[t].user \in Users)
        BY <1>3, <3>1, <3>4 DEF SignInInv, UsersInv
      <4>2. QED BY <1>7, <3>1, <3>2, <4>1 DEF CommandFits, Approver
    <3>5. QED BY <3>3, <3>4
  <2>2. ASSUME NEW b \in Browsers, NEW t \in Commands PROVE GoalFits(b, t)'
    BY DEF SignInInv, CommandInv, GoalFits
  <2>3. QED BY <2>1, <2>2 DEF CommandInv
<1>11. QED BY <1>1, <1>6, <1>9, <1>10, IdentifyKeeps DEF SignInInv

(* upsertIdentity, in the database and in memory. *)
LEMMA UpsertKeeps ==
  ASSUME SignInInv, UNCHANGED config, NEW k \in Clients, FindIdentity(k) \/ InsertIdentity(k) \/ UpsertInMemory(k)
  PROVE  SignInInv'
<1>1. CASE FindIdentity(k)
  <2>1. /\ req[k].issuer \in Issuers /\ identity[req[k].issuer] \in Users \cup {None}
        /\ req[k] \in Proving /\ DOMAIN req = Clients
    BY <1>1, IdentifyingClient DEF FindIdentity, Proving, SignInInv, SignInTypeOK, RequestTypes
  <2>2. Identifies(k) /\ UNCHANGED <<identity, founded>>
    BY <1>1, <2>1 DEF FindIdentity, Identifies, tables, front
  <2>3. req'[k].at = "session" => req'[k].user # None /\ identity[req[k].issuer] = req'[k].user
    BY <1>1, <2>1 DEF FindIdentity, Proving
  <2>4. QED BY <2>2, <2>3, IdentityFoundKeeps
<1>2. CASE InsertIdentity(k)
  BY <1>2, IdentityInsertedKeeps DEF InsertIdentity, front
<1>3. CASE UpsertInMemory(k) /\ identity[req[k].issuer] = None
  BY <1>3, IdentityInsertedKeeps DEF UpsertInMemory, front
<1>4. CASE UpsertInMemory(k) /\ identity[req[k].issuer] # None
  <2>1. req[k].issuer \in Issuers /\ identity[req[k].issuer] \in Users /\ req[k] \in Proving /\ DOMAIN req = Clients
    BY <1>4, IdentifyingClient DEF UpsertInMemory, Proving, SignInInv, SignInTypeOK, RequestTypes
  <2>2. Identifies(k) /\ UNCHANGED <<identity, founded>>
    BY <1>4, <2>1 DEF UpsertInMemory, Identifies, front
  <2>3. req'[k].user # None /\ identity[req[k].issuer] = req'[k].user
    BY <1>4, <2>1, SignInAssumption DEF UpsertInMemory, Proving, SignInAssumption
  <2>4. QED BY <2>2, <2>3, IdentityFoundKeeps
<1>5. QED BY <1>1, <1>2, <1>3, <1>4

(* The session is made, and the answer arrives or is lost. *)
LEMMA SessionKeeps ==
  ASSUME SignInInv, UNCHANGED config, NEW b \in Browsers, CreateSession(b) \/ SessionLost(b)
  PROVE  SignInInv'
<1>1. /\ req[b].at = "session" /\ req' = [req EXCEPT ![b] = Idle] /\ Issue(req[b].proof)
      /\ UNCHANGED <<tables, discovery, command>>
  BY DEF CreateSession, SessionLost, Ends, front
<1>2. PICK p \in OneTimeRows \cup {None} : p = req[b].proof
  BY <1>1, RequestFacts
<1>3. /\ page[b].status \in {"anonymous", "broker"} /\ cookie[b] = None
      /\ req[b].user \in Users /\ founded[req[b].user] # None /\ req[b].user # None
  BY <1>1, BrowserFacts, SignInAssumption DEF PageFits, Presenting, SignInInv, UsersInv, SignInAssumption
<1>4. DOMAIN req' = Clients /\ req'[b] = Idle /\ \A j \in Clients : j # b => req'[j] = req[j]
  BY <1>1, BrowserFacts
<1>5. ProofsInv' /\ (issued \in [OneTimeRows -> Nat])'
  <2>1. p # None => Spends(b, req[b], p)
    BY <1>1, <1>2, BrowserFacts DEF Spends, Presenting
  <2>2. \A r \in OneTimeRows : Unspent(r)' => Unspent(r)
    BY <1>1 DEF Unspent, tables
  <2>3. QED BY <1>1, <1>2, <1>4, <2>1, <2>2, BrowserFacts, ProofsSpent
<1>6. RequestTypes'
  BY <1>4 DEF SignInInv, RequestTypes, Clients, BrowserRequest, CommandRequest, Sending, Verifying, AtBroker,
     Proving,
     Exchanging
<1>7. \A t \in Commands : req'[t] = req[t] /\ t \in Clients
  BY <1>4, OneTimeRowsApart DEF Clients
<1>8. CASE CreateSession(b)
  <2>1. cookie'[b] = req[b].user /\ \A a \in Browsers : a # b => cookie'[a] = cookie[a] /\ page'[a] = page[a]
    BY <1>8 DEF CreateSession, SignInInv, SignInTypeOK
  <2>2. /\ page'[b].status \in {"idle", "authenticated"} /\ page'[b].row = None /\ page'[b].goal = page[b].goal
        /\ page' \in [Browsers -> PageRecord]
    <3>1. page[b] \in PageRecord /\ page \in [Browsers -> PageRecord]
      BY BrowserFacts DEF SignInInv, SignInTypeOK, PageRecord
    <3>2. Loaded(page[b].goal) \in PageRecord /\ [page[b] EXCEPT !.status = "authenticated", !.row = None] \in PageRecord
      BY <3>1 DEF PageRecord, Loaded
    <3>3. page'[b] = IF page[b].status = "broker" THEN Loaded(page[b].goal)
                     ELSE [page[b] EXCEPT !.status = "authenticated", !.row = None]
      BY <1>8, <3>1 DEF CreateSession
    <3>4. page' \in [Browsers -> PageRecord]
      BY <1>8, <3>1, <3>2 DEF CreateSession
    <3>5. QED BY <3>1, <3>3, <3>4 DEF PageRecord, Loaded
  <2>3. SignInTypeOK'
    <3>1. cookie' \in [Browsers -> Users \cup {None}]
      BY <1>3, <1>8 DEF CreateSession, SignInInv, SignInTypeOK
    <3>2. QED BY <1>1, <1>8, <2>2, <3>1 DEF CreateSession, SignInInv, SignInTypeOK, PageRecord, InMemory, tables
  <2>4. PageInv'
    <3>1. ASSUME NEW a \in Browsers PROVE PageFits(req[a], page[a], cookie[a])'
      <4>1. CASE a = b
        BY <1>3, <1>4, <2>1, <2>2, <4>1 DEF PageFits, Idle, Asking, Presenting
      <4>2. CASE a # b
        BY <1>4, <2>1, <4>2, BrowserFacts DEF PageFits
      <4>3. QED BY <4>1, <4>2
    <3>2. QED BY <3>1 DEF PageInv
  <2>5. UsersInv'
    <3>1. UNCHANGED <<founded, identity>>
      BY <1>1 DEF tables
    <3>2. \A a \in Browsers : cookie'[a] # None => founded[cookie'[a]] # None
      BY <1>3, <2>1 DEF SignInInv, UsersInv
    <3>3. \A j \in Clients : req'[j].at = "session" => j # b /\ req'[j] = req[j]
      BY <1>4 DEF Idle
    <3>4. QED BY <3>1, <3>2, <3>3 DEF SignInInv, UsersInv
  <2>6. CommandInv'
    <3>1. ASSUME NEW t \in Commands PROVE CommandFits(t)'
      <4>1. command[t].code # None => cookie'[command[t].code] = cookie[command[t].code]
        BY <1>3, <2>1 DEF SignInInv, CommandInv, CommandFits, SignInTypeOK
      <4>2. QED BY <1>1, <1>7, <4>1 DEF SignInInv, CommandInv, CommandFits, Approver, tables
    <3>2. ASSUME NEW a \in Browsers, NEW t \in Commands PROVE GoalFits(a, t)'
      <4>1. CASE a = b
        BY <1>1, <2>2, <4>1 DEF SignInInv, CommandInv, GoalFits, tables
      <4>2. CASE a # b
        BY <1>1, <2>1, <4>2 DEF SignInInv, CommandInv, GoalFits, tables
      <4>3. QED BY <4>1, <4>2
    <3>3. QED BY <3>1, <3>2 DEF CommandInv
  <2>7. QED BY <1>5, <1>6, <2>3, <2>4, <2>5, <2>6 DEF SignInInv
<1>9. CASE SessionLost(b)
  <2>1. UNCHANGED <<cookie, page>>
    BY <1>9 DEF SessionLost, front
  <2>2. SignInTypeOK'
    BY <1>1, <1>9, <2>1, SignInAssumption DEF SessionLost, Fault, SignInInv, SignInTypeOK, InMemory, tables,
       SignInAssumption
  <2>3. PageInv'
    <3>1. ASSUME NEW a \in Browsers PROVE PageFits(req[a], page[a], cookie[a])'
      <4>1. CASE a = b
        BY <1>4, <2>1, <4>1, BrowserFacts DEF PageFits, Idle, Asking, Presenting
      <4>2. CASE a # b
        BY <1>4, <2>1, <4>2, BrowserFacts DEF PageFits
      <4>3. QED BY <4>1, <4>2
    <3>2. QED BY <3>1 DEF PageInv
  <2>4. UsersInv'
    BY <1>1, <1>4, <2>1 DEF SignInInv, UsersInv, tables, Idle
  <2>5. CommandInv'
    <3>1. ASSUME NEW t \in Commands PROVE CommandFits(t)'
      BY <1>1, <1>7, <2>1 DEF SignInInv, CommandInv, CommandFits, Approver, tables
    <3>2. ASSUME NEW a \in Browsers, NEW t \in Commands PROVE GoalFits(a, t)'
      BY <1>1, <2>1 DEF SignInInv, CommandInv, GoalFits, tables
    <3>3. QED BY <3>1, <3>2 DEF CommandInv
  <2>6. QED BY <1>5, <1>6, <2>2, <2>3, <2>4, <2>5 DEF SignInInv
<1>10. QED BY <1>8, <1>9

(* A step of one command and its rows. *)
LEMMA CommandStep ==
  ASSUME SignInInv, NEW t \in Commands,
         UNCHANGED <<config, challenge, bucket, oidc, identity, founded, discovery, cookie, page>>,
         DOMAIN req' = Clients, \A k \in Clients : k # t => req'[k] = req[k],
         \A u \in Commands : u # t => cli'[u] = cli[u] /\ command'[u] = command[u],
         cli' \in [Commands -> CliRow], command' \in [Commands -> CommandRecord], failures' \in 0..MaxFailures,
         req'[t] \in CommandRequest,
         req'[t].at = "session" => req'[t].user \in Users /\ founded[req'[t].user] # None,
         command'[t].at # "new",
         cli[t].state \notin {"none", "open"} => cli'[t].state \notin {"none", "open"} /\ cli'[t].user = cli[t].user,
         CommandFits(t)', ProofsInv', (issued \in [OneTimeRows -> Nat])'
  PROVE  SignInInv'
<1>1. SignInTypeOK'
  BY DEF SignInInv, SignInTypeOK, InMemory, CliRow, CommandRecord
<1>2. t \in Clients /\ \A b \in Browsers : req'[b] = req[b] /\ b \in Clients
  BY OneTimeRowsApart DEF Clients
<1>3. RequestTypes'
  BY <1>2 DEF SignInInv, RequestTypes, Clients, BrowserRequest, CommandRequest, Sending, Verifying, AtBroker,
     Proving,
     Exchanging
<1>4. PageInv'
  BY <1>2 DEF SignInInv, PageInv, PageFits
<1>5. UsersInv'
  BY DEF SignInInv, UsersInv
<1>6. CommandInv'
  <2>1. ASSUME NEW u \in Commands, u # t PROVE CommandFits(u)'
    BY <2>1 DEF SignInInv, CommandInv, CommandFits, Approver, Clients
  <2>2. ASSUME NEW a \in Browsers, NEW u \in Commands PROVE GoalFits(a, u)'
    <3>1. GoalFits(a, u)
      BY DEF SignInInv, CommandInv
    <3>2. CASE u = t
      BY <3>1, <3>2 DEF GoalFits
    <3>3. CASE u # t
      BY <3>1, <3>3 DEF GoalFits
    <3>4. QED BY <3>2, <3>3
  <2>3. QED BY <2>1, <2>2 DEF CommandInv
<1>7. QED BY <1>1, <1>3, <1>4, <1>5, <1>6 DEF SignInInv

\* What is known of a command.
LEMMA CommandFacts ==
  ASSUME SignInInv, NEW t \in Commands
  PROVE  /\ t \in Clients /\ t \in OneTimeRows /\ DOMAIN req = Clients
         /\ cli \in [Commands -> CliRow] /\ command \in [Commands -> CommandRecord]
         /\ cli[t] \in CliRow /\ command[t] \in CommandRecord
         /\ req[t] \in CommandRequest /\ CommandFits(t)
         /\ failures \in 0..MaxFailures
         /\ \A r : Spends(t, req[t], r) <=> req[t].at \in Presenting /\ r = t
         /\ \A x \in {"waiting", "exchange", "done", "failed"} : [command[t] EXCEPT !.at = x] \in CommandRecord
         /\ Idle.at = "idle" /\ Idle \in CommandRequest
<1>1. t \in Clients /\ t \in OneTimeRows /\ DOMAIN req = Clients /\ req[t] \in CommandRequest
  BY DEF SignInInv, RequestTypes, Clients, OneTimeRows
<1>2. cli \in [Commands -> CliRow] /\ command \in [Commands -> CommandRecord] /\ failures \in 0..MaxFailures
  BY DEF SignInInv, SignInTypeOK, CliRow, CommandRecord
<1>3. CommandFits(t) /\ \A r : Spends(t, req[t], r) <=> req[t].at \in Presenting /\ r = t
  BY DEF SignInInv, CommandInv, Spends
<1>4. \A x \in {"waiting", "exchange", "done", "failed"} : [command[t] EXCEPT !.at = x] \in CommandRecord
  BY <1>2 DEF CommandRecord
<1>5. Idle.at = "idle" /\ Idle \in CommandRequest
  BY DEF Idle, CommandRequest
<1>6. QED BY <1>1, <1>2, <1>3, <1>4, <1>5

LEMMA CommandMoves ==
  ASSUME SignInInv, NEW t \in Commands, NEW x \in {"waiting", "exchange", "done", "failed"},
         command' = [command EXCEPT ![t].at = x]
  PROVE  /\ command' \in [Commands -> CommandRecord] /\ \A u \in Commands : u # t => command'[u] = command[u]
         /\ command'[t].at = x /\ command'[t].code = command[t].code
<1>1. command \in [Commands -> CommandRecord] /\ command[t] \in CommandRecord
  BY CommandFacts
<1>2. [command[t] EXCEPT !.at = x] \in CommandRecord
  BY CommandFacts
<1>3. command' \in [Commands -> CommandRecord] /\ \A u \in Commands : u # t => command'[u] = command[u]
  BY <1>1, <1>2
<1>4. command'[t].at = x /\ command'[t].code = command[t].code
  BY <1>1 DEF CommandRecord
<1>5. QED BY <1>3, <1>4

(* A build's token, the exchange of the code, and what ends a command without a session. *)
LEMMA ExchangeKeeps ==
  ASSUME SignInInv, UNCHANGED config, NEW t \in Commands,
         \/ WorkloadLogin(t) \/ ConsumeCliAuthorization(t) \/ RefuseExchange(t) \/ LoginTimeout(t)
         \/ CliExpires(t) \/ IdentityConflict(t)
  PROVE  SignInInv'
<1>fits. CommandFits(t) /\ t \in Clients
  BY CommandFacts
<1>0. UNCHANGED <<config, challenge, bucket, oidc, identity, founded, discovery, cookie, page, issued, failures>>
  BY DEF WorkloadLogin, ConsumeCliAuthorization, RefuseExchange, LoginTimeout, CliExpires, IdentityConflict,
     tables, front
<1>1. CASE WorkloadLogin(t)
  <2>1. /\ command[t].at = "new" /\ command' = [command EXCEPT ![t].at = "exchange"] /\ cli' = cli
        /\ req' = [req EXCEPT ![t] = [at |-> "identify", issuer |-> "workload", proof |-> t, user |-> None]]
    BY <1>1, CommandFacts DEF WorkloadLogin, Proven, tables
  <2>2. /\ command' \in [Commands -> CommandRecord] /\ \A u \in Commands : u # t => command'[u] = command[u]
        /\ command'[t].at = "exchange" /\ command'[t].code = command[t].code
    BY <2>1, CommandMoves
  <2>3. /\ DOMAIN req' = Clients /\ \A k \in Clients : k # t => req'[k] = req[k]
        /\ req'[t].at = "identify" /\ req'[t].issuer = "workload"
    BY <2>1, CommandFacts
  <2>4. req'[t] \in CommandRequest
    BY <2>1, CommandFacts DEF CommandRequest, Proving, Issuers
  <2>5. CommandFits(t)'
    BY <2>1, <2>2, <2>3, <1>fits DEF CommandFits, Presenting
  <2>6. Unspent(t) /\ ~Unspent(t)'
    BY <2>1, <2>2, OneTimeRowsApart, CommandFacts DEF Unspent, CommandFits
  <2>7. \A r \in OneTimeRows : Unspent(r)' => Unspent(r)
    BY <1>0, <2>1, <2>2, <2>6, CommandFacts DEF Unspent
  <2>8. ProofsInv' /\ (issued \in [OneTimeRows -> Nat])'
    <3>1. ASSUME NEW r \in OneTimeRows, Spends(t, req'[t], r) PROVE Unspent(r) /\ ~Unspent(r)'
      <4>1. r = t
        BY <3>1 DEF Spends
      <4>2. QED BY <2>6, <4>1 DEF Unspent
    <3>2. QED BY <1>0, <2>3, <2>7, <3>1, ProofsKept, CommandFacts
  <2>9. QED BY <1>0, <2>1, <2>2, <2>3, <2>4, <2>5, <2>8, CommandStep, CommandFacts
<1>2. CASE ConsumeCliAuthorization(t)
  <2>1. /\ command[t].at = "exchange" /\ req[t].at = "idle" /\ cli[t].state = "authorized" /\ command' = command
        /\ cli' = [cli EXCEPT ![t].state = "consumed"]
        /\ req' = [req EXCEPT ![t] = [at |-> "session", user |-> cli[t].user]]
    BY <1>2, CommandFacts DEF ConsumeCliAuthorization, front
  <2>2. /\ cli' \in [Commands -> CliRow] /\ \A u \in Commands : u # t => cli'[u] = cli[u]
        /\ cli'[t].state = "consumed" /\ cli'[t].user = cli[t].user
    BY <2>1, CommandFacts DEF CliRow
  <2>3. /\ DOMAIN req' = Clients /\ \A k \in Clients : k # t => req'[k] = req[k]
        /\ req'[t].at = "session" /\ req'[t].user = cli[t].user
        /\ cli[t].user \in Users /\ founded[cli[t].user] # None
    BY <2>1, CommandFacts DEF CommandFits
  <2>4. req'[t] \in CommandRequest
    BY <2>1, <2>3, CommandFacts DEF CommandRequest, Exchanging
  <2>5. CommandFits(t)'
    BY <1>0, <2>1, <2>2, <2>3, <1>fits DEF CommandFits, Presenting, Approver
  <2>6. Unspent(t) /\ ~Unspent(t)'
    BY <2>1, <2>2, OneTimeRowsApart, CommandFacts DEF Unspent
  <2>7. \A r \in OneTimeRows : Unspent(r)' => Unspent(r)
    BY <1>0, <2>1, <2>2, <2>6, CommandFacts DEF Unspent
  <2>8. ProofsInv' /\ (issued \in [OneTimeRows -> Nat])'
    <3>1. ASSUME NEW r \in OneTimeRows, Spends(t, req'[t], r) PROVE Unspent(r) /\ ~Unspent(r)'
      <4>1. r = t
        BY <3>1 DEF Spends
      <4>2. QED BY <2>6, <4>1 DEF Unspent
    <3>2. QED BY <1>0, <2>3, <2>7, <3>1, ProofsKept, CommandFacts
  <2>9. QED BY <1>0, <2>1, <2>2, <2>3, <2>4, <2>5, <2>8, CommandStep, CommandFacts
<1>3. CASE RefuseExchange(t) \/ LoginTimeout(t) \/ IdentityConflict(t)
  <2>1. /\ cli' = cli /\ command' = [command EXCEPT ![t].at = "failed"]
        /\ req[t].at \in {"idle", "insert"} /\ command[t].at # "new"
        /\ req' = req \/ req' = [req EXCEPT ![t] = Idle]
        /\ req[t].at = "insert" => req' = [req EXCEPT ![t] = Idle]
    BY <1>3, CommandFacts DEF RefuseExchange, LoginTimeout, IdentityConflict, Ends, tables, CommandFits,
       Presenting
  <2>2. /\ command' \in [Commands -> CommandRecord] /\ \A u \in Commands : u # t => command'[u] = command[u]
        /\ command'[t].at = "failed" /\ command'[t].code = command[t].code
    BY <2>1, CommandMoves
  <2>3. /\ DOMAIN req' = Clients /\ \A k \in Clients : k # t => req'[k] = req[k]
        /\ req'[t].at = "idle" /\ req'[t] \in CommandRequest
    BY <2>1, CommandFacts
  <2>4. CommandFits(t)'
    BY <1>0, <2>1, <2>2, <2>3, <1>fits DEF CommandFits, Presenting, Approver
  <2>5. \A r \in OneTimeRows : Unspent(r)' => Unspent(r)
    BY <1>0, <2>1, <2>2, CommandFacts DEF Unspent
  <2>6. ProofsInv' /\ (issued \in [OneTimeRows -> Nat])'
    <3>1. \A r \in OneTimeRows : ~Spends(t, req'[t], r)
      BY <2>3, CommandFacts DEF Spends, Presenting
    <3>2. QED BY <1>0, <2>3, <2>5, <3>1, ProofsKept, CommandFacts
  <2>7. QED BY <1>0, <2>1, <2>2, <2>3, <2>4, <2>6, CommandStep, CommandFacts
<1>4. CASE CliExpires(t)
  <2>1. /\ cli[t].state \in {"open", "authorized"} /\ cli' = [cli EXCEPT ![t].state = "expired"]
        /\ command[t].at \in {"exchange", "failed"} /\ UNCHANGED <<command, req>>
    BY <1>4, CommandFacts DEF CliExpires, front
  <2>2. /\ cli' \in [Commands -> CliRow] /\ \A u \in Commands : u # t => cli'[u] = cli[u]
        /\ cli'[t].state = "expired" /\ cli'[t].user = cli[t].user
    BY <2>1, CommandFacts DEF CliRow
  <2>3. CommandFits(t)'
    BY <1>0, <2>1, <2>2, <1>fits DEF CommandFits, Presenting, Approver
  <2>4. \A r \in OneTimeRows : Unspent(r)' => Unspent(r)
    BY <1>0, <2>1, <2>2, OneTimeRowsApart, CommandFacts DEF Unspent
  <2>5. ProofsInv' /\ (issued \in [OneTimeRows -> Nat])'
    BY <1>0, <2>1, <2>4, ProofsKept, CommandFacts
  <2>6. req[t].at # "session"
    BY <2>1, CommandFacts DEF CommandFits, Presenting
  <2>7. QED BY <1>0, <2>1, <2>2, <2>3, <2>5, <2>6, CommandStep, CommandFacts
<1>5. QED BY <1>1, <1>2, <1>3, <1>4

(* The command's session, stored or lost. *)
LEMMA CredentialKeeps ==
  ASSUME SignInInv, UNCHANGED config, NEW t \in Commands, SaveCredential(t) \/ ExchangeLost(t)
  PROVE  SignInInv'
<1>fits. CommandFits(t) /\ t \in Clients
  BY CommandFacts
<1>1. /\ UNCHANGED <<challenge, bucket, oidc, cli, identity, founded, discovery, cookie, page>>
      /\ req[t].at = "session" /\ Issue(t) /\ req' = [req EXCEPT ![t] = Idle]
  BY DEF SaveCredential, ExchangeLost, Ends, tables
<1>failures. failures' \in 0..MaxFailures
  <2>1. failures' = failures \/ Fault
    BY DEF SaveCredential, ExchangeLost
  <2>2. QED BY <2>1, SignInAssumption DEF Fault, SignInAssumption, SignInInv, SignInTypeOK
<1>2. /\ DOMAIN req' = Clients /\ req'[t] = Idle /\ req'[t].at = "idle" /\ req'[t] \in CommandRequest
      /\ \A k \in Clients : k # t => req'[k] = req[k]
  BY <1>1, CommandFacts DEF CommandRequest, Idle
<1>3. command[t].at = "exchange" /\ Approver(t, req[t].user) /\ req[t].user \in Users
  BY <1>1, CommandFacts DEF CommandFits, Presenting, SignInInv, UsersInv
<1>4. /\ command' \in [Commands -> CommandRecord] /\ \A u \in Commands : u # t => command'[u] = command[u]
      /\ command'[t].code = command[t].code
      /\ command'[t].at = "failed" \/ (command'[t].at = "done" /\ command'[t].user = req[t].user)
  <2>1. [command[t] EXCEPT !.at = "done", !.user = req[t].user] \in CommandRecord
    <3>1. command[t] \in CommandRecord
      BY CommandFacts
    <3>2. QED BY <1>3, <3>1 DEF CommandRecord
  <2>2. command \in [Commands -> CommandRecord] /\ [command[t] EXCEPT !.at = "failed"] \in CommandRecord
    BY CommandFacts
  <2>3. CASE SaveCredential(t)
    BY <2>1, <2>2, <2>3 DEF SaveCredential, CommandRecord
  <2>4. CASE ExchangeLost(t)
    <3>1. command' = [command EXCEPT ![t].at = "failed"]
      BY <2>4 DEF ExchangeLost
    <3>2. QED BY <3>1, CommandMoves
  <2>5. QED BY <2>3, <2>4
<1>5. CommandFits(t)'
  BY <1>fits, <1>1, <1>2, <1>3, <1>4 DEF CommandFits, Presenting, Approver
<1>6. \A r \in OneTimeRows : Unspent(r)' => Unspent(r)
  BY <1>1, <1>3, <1>4, CommandFacts DEF Unspent
<1>7. ProofsInv' /\ (issued \in [OneTimeRows -> Nat])'
  BY <1>1, <1>2, <1>6, ProofsSpent, CommandFacts DEF Presenting
<1>8. QED BY <1>1, <1>failures, <1>2, <1>4, <1>5, <1>7, CommandStep, CommandFacts

(* The identity was inserted meanwhile: a browser's request ends. *)
LEMMA ConflictKeeps ==
  ASSUME SignInInv, UNCHANGED config, NEW b \in Browsers, IdentityConflict(b)
  PROVE  SignInInv'
<1>1. /\ req[b].at = "insert" /\ req' = [req EXCEPT ![b] = Idle]
      /\ UNCHANGED <<tables, discovery, front, issued, failures>>
  BY BrowserFacts DEF IdentityConflict, Ends, front
<1>2. StepFits(b)
  BY <1>1, BrowserFacts DEF StepFits, tables, front, PageFits, BrowserRequest, Asking, Presenting, Idle
<1>3. SignInTypeOK'
  BY <1>1 DEF SignInInv, SignInTypeOK, tables, front, InMemory
<1>4. SpendsFairly(b)
  BY <1>1, BrowserFacts DEF SpendsFairly, Spends, Unspent, tables, front, Presenting, Idle
<1>5. QED BY <1>2, <1>3, <1>4, StepKeeps

(* A step of one browser's page with one command's request for approval. *)
LEMMA ApprovalStep ==
  ASSUME SignInInv, NEW b \in Browsers, NEW t \in Commands,
         UNCHANGED <<config, challenge, bucket, oidc, identity, founded, discovery, req, cookie, issued, failures>>,
         \A a \in Browsers : a # b => page'[a] = page[a],
         \A u \in Commands : u # t => cli'[u] = cli[u] /\ command'[u] = command[u],
         page' \in [Browsers -> PageRecord], cli' \in [Commands -> CliRow], command' \in [Commands -> CommandRecord],
         PageFits(req[b], page'[b], cookie[b]), page'[b].goal \in {t, None},
         command[t].at # "new" => command'[t].at # "new",
         cli'[t].state \in {"open", "authorized"} => cli[t].state \in {"open", "authorized"} \/ command[t].at = "new",
         command'[t].at # "new" \/ command[t].at = "new",
         CommandFits(t)', \A a \in Browsers : GoalFits(a, t)'
  PROVE  SignInInv'
<1>1. SignInTypeOK'
  BY DEF SignInInv, SignInTypeOK, InMemory, PageRecord, CliRow, CommandRecord
<1>2. RequestTypes'
  BY DEF SignInInv, RequestTypes, BrowserRequest, CommandRequest, Sending, Verifying, AtBroker, Proving,
     Exchanging
<1>3. PageInv'
  <2>1. ASSUME NEW a \in Browsers PROVE PageFits(req[a], page'[a], cookie[a])
    BY DEF SignInInv, PageInv
  <2>2. QED BY <2>1 DEF PageInv, PageFits
<1>4. UsersInv'
  BY DEF SignInInv, UsersInv
<1>5. ProofsInv' /\ (issued \in [OneTimeRows -> Nat])'
  <2>1. \A r \in OneTimeRows : Unspent(r)' => Unspent(r)
    BY DEF Unspent
  <2>2. QED BY <2>1 DEF SignInInv, ProofsInv, Spends
<1>6. CommandInv'
  <2>1. ASSUME NEW u \in Commands, u # t PROVE CommandFits(u)'
    BY <2>1 DEF SignInInv, CommandInv, CommandFits, Approver
  <2>2. ASSUME NEW a \in Browsers, NEW u \in Commands, u # t PROVE GoalFits(a, u)'
    <3>1. GoalFits(a, u) /\ u # None
      BY OneTimeRowsApart DEF SignInInv, CommandInv, OneTimeRows
    <3>2. CASE a = b
      BY <2>2, <3>1, <3>2 DEF GoalFits
    <3>3. CASE a # b
      BY <2>2, <3>1, <3>3 DEF GoalFits
    <3>4. QED BY <3>2, <3>3
  <2>3. QED BY <2>1, <2>2 DEF CommandInv
<1>7. QED BY <1>1, <1>2, <1>3, <1>4, <1>5, <1>6 DEF SignInInv

(* A command opens the shell in a browser; the address is opened in another one. *)
LEMMA OpeningKeeps ==
  ASSUME SignInInv, UNCHANGED config, NEW b \in Browsers, NEW t \in Commands,
         StartLogin(t, b) \/ OpenElsewhere(t, b)
  PROVE  SignInInv'
<1>1. CommandFits(t) /\ cli[t] \in CliRow /\ command[t] \in CommandRecord
      /\ cli \in [Commands -> CliRow] /\ command \in [Commands -> CommandRecord]
  BY CommandFacts
<1>2. Loaded(t) \in PageRecord /\ Loaded(t).status = "idle" /\ Loaded(t).row = None /\ Loaded(t).goal = t
  BY DEF Loaded, PageRecord
<1>3. /\ req[b].at = "idle" /\ page' = [page EXCEPT ![b] = Loaded(t)]
      /\ UNCHANGED <<config, challenge, bucket, oidc, identity, founded, discovery, req, cookie, issued, failures>>
  BY DEF StartLogin, OpenElsewhere, tables
<1>4. /\ page' \in [Browsers -> PageRecord] /\ page'[b] = Loaded(t)
      /\ \A a \in Browsers : a # b => page'[a] = page[a]
  BY <1>2, <1>3, BrowserFacts DEF SignInInv, SignInTypeOK, PageRecord
<1>5. PageFits(req[b], page'[b], cookie[b])
  BY <1>2, <1>3, <1>4 DEF PageFits, Asking, Presenting
<1>6. CASE StartLogin(t, b)
  <2>1. /\ command[t].at = "new" /\ cli' = [cli EXCEPT ![t].state = "open"]
        /\ command' = [command EXCEPT ![t].at = "waiting"]
    BY <1>6 DEF StartLogin
  <2>2. /\ cli' \in [Commands -> CliRow] /\ cli'[t].state = "open" /\ \A u \in Commands : u # t => cli'[u] = cli[u]
    BY <1>1, <2>1 DEF CliRow
  <2>3. /\ command' \in [Commands -> CommandRecord] /\ command'[t].at = "waiting" /\ command'[t].code = command[t].code
        /\ \A u \in Commands : u # t => command'[u] = command[u]
    BY <1>1, <2>1 DEF CommandRecord
  <2>4. CommandFits(t)'
    BY <1>1, <1>3, <2>1, <2>2, <2>3 DEF CommandFits, Presenting, Approver
  <2>5. ASSUME NEW a \in Browsers PROVE GoalFits(a, t)'
    <3>1. a # b => page[a].goal # t
      BY <2>1 DEF SignInInv, CommandInv, GoalFits
    <3>2. QED BY <1>2, <1>4, <2>2, <2>3, <3>1 DEF GoalFits
  <2>6. QED BY <1>2, <1>3, <1>4, <1>5, <2>1, <2>2, <2>3, <2>4, <2>5, ApprovalStep
<1>7. CASE OpenElsewhere(t, b)
  <2>1. command[t].at = "waiting" /\ UNCHANGED <<cli, command>>
    BY <1>7 DEF OpenElsewhere, tables
  <2>2. CommandFits(t)'
    BY <1>1, <1>3, <2>1 DEF CommandFits, Presenting, Approver
  <2>3. ASSUME NEW a \in Browsers PROVE GoalFits(a, t)'
    <3>1. GoalFits(a, t)
      BY DEF SignInInv, CommandInv
    <3>2. CASE a = b
      BY <1>2, <1>4, <2>1, <3>2 DEF GoalFits
    <3>3. CASE a # b
      BY <1>3, <1>4, <2>1, <3>1, <3>3 DEF GoalFits
    <3>4. QED BY <3>2, <3>3
  <2>4. QED BY <1>1, <1>2, <1>3, <1>4, <1>5, <2>1, <2>2, <2>3, ApprovalStep
<1>8. QED BY <1>6, <1>7

(* A signed-in browser approves; its redirect reaches the command. *)
LEMMA ApprovalKeeps ==
  ASSUME SignInInv, UNCHANGED config, NEW b \in Browsers, AuthorizeCliRequest(b) \/ ReceiveCode(b)
  PROVE  SignInInv'
<1>1. PICK t \in Commands : t = page[b].goal
  BY BrowserFacts DEF AuthorizeCliRequest, Approve, ReceiveCode, PageRecord, PageFits
<1>2. /\ CommandFits(t) /\ cli[t] \in CliRow /\ command[t] \in CommandRecord
      /\ cli \in [Commands -> CliRow] /\ command \in [Commands -> CommandRecord] /\ GoalFits(b, t)
  BY CommandFacts DEF SignInInv, CommandInv
<1>3. /\ page[b] \in PageRecord /\ page \in [Browsers -> PageRecord] /\ PageFits(req[b], page[b], cookie[b])
      /\ cookie[b] \in Users \cup {None}
  BY BrowserFacts DEF SignInInv, SignInTypeOK, PageRecord
<1>4. UNCHANGED <<config, challenge, bucket, oidc, identity, founded, discovery, req, cookie, issued, failures>>
  BY DEF AuthorizeCliRequest, Approve, ReceiveCode, tables
<1>5. CASE AuthorizeCliRequest(b)
  <2>1. /\ page[b].status = "authenticated" /\ cli[t].state = "open" /\ command' = command
        /\ cli' = [cli EXCEPT ![t] = [state |-> "authorized", user |-> cookie[b]]]
        /\ page' = [page EXCEPT ![b].status = "redirected"]
    BY <1>1, <1>5 DEF AuthorizeCliRequest, Approve, Bind
  <2>2. /\ cli' \in [Commands -> CliRow] /\ cli'[t].state = "authorized" /\ cli'[t].user = cookie[b]
        /\ \A u \in Commands : u # t => cli'[u] = cli[u]
    BY <1>2, <1>3, <2>1 DEF CliRow
  <2>3. /\ page' \in [Browsers -> PageRecord] /\ \A a \in Browsers : a # b => page'[a] = page[a]
        /\ page'[b].status = "redirected" /\ page'[b].goal = t /\ page'[b].row = page[b].row
    <3>1. [page[b] EXCEPT !.status = "redirected"] \in PageRecord
      BY <1>3 DEF PageRecord
    <3>2. page' \in [Browsers -> PageRecord] /\ \A a \in Browsers : a # b => page'[a] = page[a]
      BY <1>3, <2>1, <3>1
    <3>3. page'[b].status = "redirected" /\ page'[b].goal = page[b].goal /\ page'[b].row = page[b].row
      BY <1>3, <2>1 DEF PageRecord
    <3>4. QED BY <1>1, <3>2, <3>3
  <2>4. cookie[b] \in Users /\ founded[cookie[b]] # None /\ cookie[b] # None
    BY <1>3, <2>1 DEF PageFits, SignInInv, UsersInv
  <2>5. PageFits(req[b], page'[b], cookie[b])
    BY <1>3, <2>1, <2>3, OneTimeRowsApart DEF PageFits, Asking, Presenting, OneTimeRows
  <2>6. CommandFits(t)'
    BY <1>2, <1>4, <2>1, <2>2, <2>4 DEF CommandFits, Presenting, Approver
  <2>7. ASSUME NEW a \in Browsers PROVE GoalFits(a, t)'
    <3>1. GoalFits(a, t) /\ GoalFits(b, t)
      BY DEF SignInInv, CommandInv
    <3>2. CASE a = b
      BY <1>1, <1>4, <2>1, <2>2, <3>1, <3>2 DEF GoalFits
    <3>3. CASE a # b
      BY <1>4, <2>1, <2>2, <2>3, <3>1, <3>3 DEF GoalFits
    <3>4. QED BY <3>2, <3>3
  <2>8. QED BY <1>2, <1>4, <2>1, <2>2, <2>3, <2>5, <2>6, <2>7, ApprovalStep
<1>6. CASE ReceiveCode(b)
  <2>1. /\ page[b].status = "redirected" /\ cli' = cli /\ page' = [page EXCEPT ![b] = Loaded(None)]
        /\ command' = IF command[t].at = "waiting"
                      THEN [command EXCEPT ![t] = [@ EXCEPT !.at = "exchange", !.code = b]]
                      ELSE command
    BY <1>1, <1>6 DEF ReceiveCode, tables
  <2>2. /\ command' \in [Commands -> CommandRecord] /\ \A u \in Commands : u # t => command'[u] = command[u]
        /\ command'[t] = command[t]
           \/ (command[t].at = "waiting" /\ command'[t].at = "exchange" /\ command'[t].code = b
               /\ command'[t].user = command[t].user)
    <3>1. [command[t] EXCEPT !.at = "exchange", !.code = b] \in CommandRecord
      BY <1>2 DEF CommandRecord
    <3>2. CASE command[t].at = "waiting"
      BY <1>2, <2>1, <3>1, <3>2 DEF CommandRecord
    <3>3. CASE command[t].at # "waiting"
      BY <1>2, <2>1, <3>3
    <3>4. QED BY <3>2, <3>3
  <2>3. /\ page' \in [Browsers -> PageRecord] /\ \A a \in Browsers : a # b => page'[a] = page[a]
        /\ page'[b].status = "idle" /\ page'[b].goal = None /\ page'[b].row = None
    <3>1. Loaded(None) \in PageRecord
      BY DEF Loaded, PageRecord
    <3>2. QED BY <1>3, <2>1, <3>1 DEF Loaded
  <2>4. cookie[b] # None /\ cli[t].state \notin {"none", "open"} /\ cli[t].user = cookie[b] /\ command[t].at # "new"
    BY <1>1, <1>2, <1>3, <2>1 DEF PageFits, GoalFits
  <2>5. PageFits(req[b], page'[b], cookie[b])
    BY <1>3, <2>1, <2>3 DEF PageFits, Asking, Presenting
  <2>6. CommandFits(t)'
    <3>1. CASE command'[t] = command[t]
      BY <1>2, <1>4, <2>1, <3>1 DEF CommandFits, Presenting, Approver
    <3>2. CASE command'[t] # command[t]
      <4>1. b # None
        BY SignInAssumption DEF SignInAssumption
      <4>2. QED BY <1>2, <1>4, <2>1, <2>2, <2>4, <3>2, <4>1 DEF CommandFits, Presenting, Approver
    <3>3. QED BY <3>1, <3>2
  <2>7. ASSUME NEW a \in Browsers PROVE GoalFits(a, t)'
    <3>1. GoalFits(a, t) /\ t # None
      BY OneTimeRowsApart DEF SignInInv, CommandInv, OneTimeRows
    <3>2. CASE a = b
      BY <2>3, <3>1, <3>2 DEF GoalFits
    <3>3. CASE a # b
      BY <1>4, <2>1, <2>2, <2>3, <3>1, <3>3 DEF GoalFits
    <3>4. QED BY <3>2, <3>3
  <2>8. QED BY <1>2, <1>4, <2>1, <2>2, <2>3, <2>4, <2>5, <2>6, <2>7, ApprovalStep
<1>7. QED BY <1>5, <1>6

LEMMA SignInStep == ASSUME SignInInv, [SignInNext /\ UNCHANGED config]_signInVars PROVE SignInInv'
<1>1. CASE SignInNext /\ UNCHANGED config
  <2>1. ASSUME NEW b \in Browsers, Serve(b) PROVE SignInInv'
    BY <1>1, <2>1, EmailFormKeeps, CreateEmailChallengeKeeps, CodeKeeps, BrokerKeeps, SessionKeeps DEF Serve
  <2>2. ASSUME NEW b \in Browsers, LoadShell(b) PROVE SignInInv'
    BY <1>1, <2>2, ShellKeeps, ApprovalKeeps DEF LoadShell
  <2>3. ASSUME NEW b \in Browsers, Person(b) PROVE SignInInv'
    BY <1>1, <2>3, EmailFormKeeps, BrokerKeeps, OpeningKeeps DEF Person
  <2>4. ASSUME NEW b \in Browsers, Fails(b) PROVE SignInInv'
    BY <1>1, <2>4, EmailFormKeeps, BrokerKeeps, SessionKeeps, ShellKeeps DEF Fails
  <2>5. ASSUME NEW t \in Commands, Command(t) \/ LoginTimeout(t) \/ ExchangeLost(t) \/ CliExpires(t) PROVE SignInInv'
    BY <1>1, <2>5, ExchangeKeeps, CredentialKeeps DEF Command
  <2>6. ASSUME NEW k \in Clients, Identify(k) PROVE SignInInv'
    BY <1>1, <2>6, UpsertKeeps, ConflictKeeps, ExchangeKeeps DEF Identify, Clients
  <2>7. ASSUME Discovered \/ DiscoveryFails \/ Tick \/ \E o \in Transactions : OidcExpires(o) PROVE SignInInv'
    BY <1>1, <2>7, TablesKeep
  <2>8. QED BY <1>1, <2>1, <2>2, <2>3, <2>4, <2>5, <2>6, <2>7 DEF SignInNext
<1>2. CASE UNCHANGED signInVars
  <2>1. UNCHANGED <<config, challenge, bucket, oidc, cli, identity, founded, discovery, req, cookie, page, command,
                    issued, failures>>
    BY <1>2 DEF signInVars, moving, tables, front
  <2>2. SignInTypeOK' /\ RequestTypes' /\ (issued \in [OneTimeRows -> Nat])'
    BY <2>1 DEF SignInInv, SignInTypeOK, InMemory, RequestTypes, BrowserRequest, CommandRequest, Sending,
       Verifying,
       AtBroker, Proving, Exchanging
  <2>3. PageInv' /\ UsersInv'
    BY <2>1 DEF SignInInv, PageInv, PageFits, UsersInv
  <2>4. ProofsInv'
    BY <2>1 DEF SignInInv, ProofsInv, Unspent, Spends
  <2>5. CommandInv'
    BY <2>1 DEF SignInInv, CommandInv, CommandFits, GoalFits, Approver
  <2>6. QED BY <2>2, <2>3, <2>4, <2>5 DEF SignInInv
<1>3. QED BY <1>1, <1>2

\* Tables, requests, pages and commands fit together whatever the clients do and in whatever
\* order, and whichever answers are lost.
THEOREM SignInInvariant == SignInSpec => []SignInInv
BY SignInInitially, SignInStep, PTL DEF SignInSpec

\* A code, a broker's transaction and an approval make one session: whoever presents them
\* again, and whichever answers are lost (consumeEmailChallenge, consumeAuthTransaction,
\* consumeCliAuthorization spend the row before the session is made).
THEOREM ProofsAreSpentOnce == SignInSpec => []EachProofOnce
<1>1. SignInInv => EachProofOnce
  BY DEF SignInInv, ProofsInv, EachProofOnce
<1>2. QED BY <1>1, SignInInvariant, PTL

\* upsertIdentity never leaves a user without its identity, however the first sign-ins
\* interleave between the look-up and the insert.
THEOREM IdentitiesHaveOneUser == SignInSpec => []OneUserPerIdentity
<1>1. SignInInv => OneUserPerIdentity
  BY DEF SignInInv, UsersInv, OneUserPerIdentity
<1>2. QED BY <1>1, SignInInvariant, PTL

\* The credential a login command stores is of the user who approved it in the browser the
\* code came from, or of its workload.
THEOREM CredentialsAreOfTheirApprovers == SignInSpec => []CredentialIsOfItsApprover
<1>1. SignInInv => CredentialIsOfItsApprover
  BY DEF SignInInv, CommandInv, CommandFits, Approver, CredentialIsOfItsApprover
<1>2. QED BY <1>1, SignInInvariant, PTL
=============================================================================
