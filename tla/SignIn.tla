------------------------------- MODULE SignIn -------------------------------
(***************************************************************************)
(* Signing in, up to the session: e-mail codes, the OIDC broker, the       *)
(* administrator's password, and the command line's request that a         *)
(* signed-in browser approves (auth.service.ts, postgres.repository.ts,    *)
(* logto.adapter.ts, rate-limit.adapters.ts; cli/src/auth.ts; the sign-in  *)
(* page of the web shell).  SessionFamilies continues where this ends.     *)
(*                                                                         *)
(* One person with several browsers and login commands.  The person has    *)
(* one IDENTITY per issuer; the first sign-in with an identity makes a     *)
(* user.  A browser or command (a CLIENT) has one request at the API at a  *)
(* time; requests of different clients interleave.                         *)
(*                                                                         *)
(*   challenge  rows of email_challenges; age in ticks                     *)
(*   bucket     the window of the limiter for the person's address         *)
(*   oidc       rows of auth_transactions                                  *)
(*   cli        rows of cli_authorizations, one per login command          *)
(*   identity   auth_identities: the user of each issuer's subject         *)
(*   founded    users: the issuer whose sign-in made the user              *)
(*   discovery  the cached promise of LogtoOidcAdapter                     *)
(*   req        the request of each client, statement by statement         *)
(*   cookie     the user of the browser's session                          *)
(*   page       the shell in the browser: userStore.status (or that the    *)
(*              browser is at the broker, or redirected to the command),   *)
(*              the challenge of LoginScreen or the broker's transaction,  *)
(*              the command whose request it is to approve (cliRequestId)  *)
(*   command    where the login command is; the browser its code came      *)
(*              from; the user of the session it stored                    *)
(*   issued     sessions made from each one-time row (for the properties)  *)
(*                                                                         *)
(* A row of email_challenges that expired unused is dropped: it has no     *)
(* effect any more.  Codes, states, verifiers and nonces are the row they  *)
(* belong to.  Of the limiter's buckets the one of the address is modelled; *)
(* the others only refuse more.  Sessions do not end while somebody signs  *)
(* in.  A browser has one tab.                                             *)
(***************************************************************************)
EXTENDS AuthConfig, FiniteSets

CONSTANTS
  Configurations,  \* of the API, one per behaviour
  Browsers, Commands,
  Challenges, Transactions, Users,
  None,            \* no row, no user, no command
  EmailLimit,      \* EMAIL_LIMIT: codes per window and address
  Window,          \* WINDOW_SECONDS, in ticks
  Cooldown,        \* resendCooldownMs, in ticks
  Lifetime,        \* ttlMs of a code, in ticks
  MaxAttempts,     \* maxAttempts
  MaxFailures      \* bound on lost answers, failed deliveries and failed calls

Issuers == {"local-email", "broker", "local-password-admin", "workload"}

ASSUME SignInAssumption ==
  /\ \A c \in Configurations : Accepted(c) /\ LocalOtp(c)
  /\ Challenges \cup Users \subseteq Nat \* the next id is the least that is free
  /\ {EmailLimit, Window, Cooldown, Lifetime, MaxAttempts} \subseteq Nat \ {0}
  /\ MaxFailures \in Nat
  /\ None \notin Browsers \cup Commands \cup Transactions
  /\ None \notin Challenges \cup Users /\ None \notin Issuers
  /\ Browsers \cap Commands = {}            \* clients are of one kind, rows of one table
  /\ Challenges \cap Transactions = {} /\ Challenges \cap Commands = {} /\ Transactions \cap Commands = {}

VARIABLES config, challenge, bucket, oidc, cli, identity, founded, discovery, req,
          cookie, page, command, issued, failures

tables == <<challenge, bucket, oidc, cli, identity, founded>>
front  == <<cookie, page, command>>
moving == <<tables, discovery, req, front, issued, failures>>
signInVars == <<config, moving>>

Clients == Browsers \cup Commands

Idle   == [at |-> "idle"]
Unused == [state |-> "none"]

\* The shell just loaded, with or without a cliRequestId in its address.
Loaded(t) == [status |-> "idle", row |-> None, goal |-> t]

SignInInit ==
  /\ config \in Configurations
  /\ challenge = [c \in Challenges |-> Unused]
  /\ bucket = [count |-> 0, left |-> 0]
  /\ oidc = [o \in Transactions |-> "none"]
  /\ cli = [t \in Commands |-> [state |-> "none", user |-> None]]
  /\ identity = [i \in Issuers |-> None]
  /\ founded = [u \in Users |-> None]
  /\ discovery = "none"
  /\ req = [k \in Clients |-> Idle]
  /\ cookie = [b \in Browsers |-> None]
  /\ page = [b \in Browsers |-> Loaded(None)]
  /\ command = [t \in Commands |-> [at |-> "new", code |-> None, user |-> None]]
  /\ issued = [r \in Challenges \cup Transactions \cup Commands |-> 0]
  /\ failures = 0

\* A request that proved who the person is goes on to the identity.
Proven(issuer, row) == [at |-> "identify", issuer |-> issuer, proof |-> row, user |-> None]

Fault == failures < MaxFailures /\ failures' = failures + 1
Ends(k) == req' = [req EXCEPT ![k] = Idle]

\* The sign-in page is shown, no request is under way, and the page was told that the
\* method is active.
AtForm(b) == page[b].status = "anonymous" /\ req[b].at = "idle"
Offered(id, protocol) == Provider(id, protocol, TRUE) \in Providers(config)

\* The forms of the page.
EmailForm(b) == AtForm(b) /\ page[b].row = None /\ Offered("email", "email_otp")
CodeForm(b) == AtForm(b) /\ page[b].row # None
PasswordForm(b) == AtForm(b) /\ page[b].row = None /\ Offered("password", "password")
ProviderButton(b) == AtForm(b) /\ \E id \in Social : Offered(id, "oidc")
-----------------------------------------------------------------------------
(* The limiter and the e-mail code. *)

\* The repository is the one in memory, whose write queue makes each operation one step.
InMemory == config.repository = "memory"

\* The bucket after one more request: the first of a window sets its end.
Consumed(k) ==
  IF k.left = 0 THEN [count |-> 1, left |-> Window] ELSE [k EXCEPT !.count = @ + 1]

Limited(k) == k.count > EmailLimit

\* requestEmailCode up to the limiter's answer.
RequestEmailCode(b) ==
  /\ EmailForm(b)
  /\ bucket.count <= EmailLimit            \* bounds the counter; more refusals change nothing
  /\ bucket' = Consumed(bucket)
  /\ req' = IF Limited(Consumed(bucket)) THEN req ELSE [req EXCEPT ![b] = [at |-> "cooldown"]]
  /\ UNCHANGED <<challenge, oidc, cli, identity, founded, discovery, front, issued, failures>>

Open(c) == challenge[c].state = "open"

\* findLatestEmailChallenge and the comparison with the cooldown.
Cooling == \E c \in Challenges : Open(c) /\ challenge[c].age < Cooldown

CheckCooldown(b) ==
  /\ req[b].at = "cooldown"
  /\ req' = [req EXCEPT ![b] = IF Cooling THEN Idle ELSE [at |-> "create"]]
  /\ UNCHANGED <<tables, discovery, front, issued, failures>>

\* A row nobody refers to any more is forgotten and stands for a new one.
Forgotten(c) ==
  /\ ~Open(c)
  /\ \A b \in Browsers :
       /\ page[b].row # c
       /\ req[b].at \in {"send", "verify"} => req[b].row # c
       /\ req[b].at \in {"identify", "insert", "session"} => req[b].proof # c

CreateEmailChallenge(b) ==
  /\ req[b].at = "create"
  /\ \E c \in Challenges :
       /\ Forgotten(c) /\ \A d \in Challenges : Forgotten(d) => c <= d
       /\ challenge' = [challenge EXCEPT ![c] = [state |-> "open", age |-> 0, attempts |-> 0]]
       /\ issued' = [issued EXCEPT ![c] = 0]
       /\ req' = [req EXCEPT ![b] = [at |-> "send", row |-> c]]
  /\ UNCHANGED <<bucket, oidc, cli, identity, founded, discovery, front, failures>>

\* The delivery succeeds and the page learns the id of the challenge.
SendLoginCode(b) ==
  /\ req[b].at = "send"
  /\ page' = [page EXCEPT ![b].row = req[b].row]
  /\ Ends(b)
  /\ UNCHANGED <<tables, discovery, cookie, command, issued, failures>>

\* The delivery fails after the row was stored, or the answer is lost.
DeliveryFails(b) ==
  /\ req[b].at = "send"
  /\ Fault
  /\ Ends(b)
  /\ UNCHANGED <<tables, discovery, front, issued>>

\* "Use another e-mail": the page forgets its challenge.
ForgetChallenge(b) ==
  /\ CodeForm(b)
  /\ page' = [page EXCEPT ![b].row = None]
  /\ UNCHANGED <<tables, discovery, req, cookie, command, issued, failures>>

VerifyEmailCode(b, right) ==
  /\ CodeForm(b)
  /\ req' = [req EXCEPT ![b] = [at |-> "verify", row |-> page[b].row, right |-> right]]
  /\ UNCHANGED <<tables, discovery, front, issued, failures>>

\* Mutant: a consumed challenge is accepted again.
AcceptedTwice(c) == challenge[c].state \in {"open", "consumed"}

\* What consumeEmailChallenge asks of the row it locked.
Acceptable(c) == Open(c) /\ challenge[c].attempts < MaxAttempts

\* The right code: the row is consumed.
ConsumeEmailChallenge(b) ==
  LET c == req[b].row
  IN  /\ req[b].at = "verify" /\ req[b].right
      /\ Acceptable(c)
      /\ challenge' = [challenge EXCEPT ![c] = [state |-> "consumed"]]
      /\ req' = [req EXCEPT ![b] = Proven("local-email", c)]
      /\ UNCHANGED <<bucket, oidc, cli, identity, founded, discovery, front, issued, failures>>

\* A row that is consumed, expired or exhausted is refused.
RefuseEmailChallenge(b) ==
  /\ req[b].at = "verify"
  /\ ~Acceptable(req[b].row)
  /\ Ends(b)
  /\ UNCHANGED <<tables, discovery, front, issued, failures>>

\* A wrong code in the database: the attempt is counted in the transaction that the
\* exception undoes.
RefuseEmailCode(b) ==
  /\ req[b].at = "verify" /\ ~req[b].right
  /\ Acceptable(req[b].row) /\ ~InMemory
  /\ Ends(b)
  /\ UNCHANGED <<tables, discovery, front, issued, failures>>

\* A wrong code in memory: nothing undoes the count.
CountEmailAttempt(b) ==
  /\ req[b].at = "verify" /\ ~req[b].right
  /\ Acceptable(req[b].row) /\ InMemory
  /\ challenge' = [challenge EXCEPT ![req[b].row].attempts = @ + 1]
  /\ Ends(b)
  /\ UNCHANGED <<bucket, oidc, cli, identity, founded, discovery, front, issued, failures>>

\* Mutant: a code is still good at the very end of its lifetime.
TickLate ==
  /\ challenge' = [c \in Challenges |->
       CASE ~Open(c) -> challenge[c]
         [] Open(c) /\ challenge[c].age + 1 > Lifetime -> Unused
         [] OTHER -> [challenge[c] EXCEPT !.age = @ + 1]]
  /\ bucket' = IF bucket.left <= 1 THEN [count |-> 0, left |-> 0] ELSE [bucket EXCEPT !.left = @ - 1]
  /\ <<challenge', bucket'>> # <<challenge, bucket>>
  /\ UNCHANGED <<oidc, cli, identity, founded, discovery, req, front, issued, failures>>

\* Time passes for codes and windows.
Tick ==
  /\ challenge' = [c \in Challenges |->
       CASE ~Open(c) -> challenge[c]
         [] Open(c) /\ challenge[c].age + 1 >= Lifetime -> Unused
         [] OTHER -> [challenge[c] EXCEPT !.age = @ + 1]]
  /\ bucket' = IF bucket.left <= 1 THEN [count |-> 0, left |-> 0] ELSE [bucket EXCEPT !.left = @ - 1]
  /\ <<challenge', bucket'>> # <<challenge, bucket>>
  /\ UNCHANGED <<oidc, cli, identity, founded, discovery, req, front, issued, failures>>
-----------------------------------------------------------------------------
(* The administrator's password, the broker. *)

\* The right e-mail and password; wrong ones change nothing.
LoginPassword(b) ==
  /\ PasswordForm(b)
  /\ req' = [req EXCEPT ![b] = Proven("local-password-admin", None)]
  /\ UNCHANGED <<tables, discovery, front, issued, failures>>

\* beginOidc: the first caller starts the discovery, every caller awaits the one promise.
BeginOidc(b) ==
  /\ ProviderButton(b)
  /\ discovery' = IF discovery = "none" THEN "fetching" ELSE discovery
  /\ req' = [req EXCEPT ![b] = [at |-> "discover"]]
  /\ UNCHANGED <<tables, front, issued, failures>>

\* The promise is settled once.  A rejected one stays in discoveryPromise.
Discovered ==
  /\ discovery = "fetching"
  /\ discovery' = "known"
  /\ UNCHANGED <<tables, req, front, issued, failures>>

DiscoveryFails ==
  /\ discovery = "fetching"
  /\ Fault
  /\ discovery' = "failed"
  /\ UNCHANGED <<tables, req, front, issued>>

RefuseOidc(b) ==
  /\ req[b].at = "discover" /\ discovery = "failed"
  /\ Ends(b)
  /\ UNCHANGED <<tables, discovery, front, issued, failures>>

\* The row is stored and the browser leaves for the broker; the address it had,
\* cliRequestId included, is the row's returnTo.
CreateOidcTransaction(b) ==
  /\ req[b].at = "discover" /\ discovery = "known"
  /\ \E o \in Transactions :
       /\ oidc[o] = "none"
       /\ oidc' = [oidc EXCEPT ![o] = "open"]
       /\ page' = [page EXCEPT ![b].status = "broker", ![b].row = o]
  /\ Ends(b)
  /\ UNCHANGED <<challenge, bucket, cli, identity, founded, discovery, cookie, command, issued, failures>>

\* The broker sends the browser to the callback, which spends the row before the
\* tokens are fetched.
ConsumeOidcTransaction(b) ==
  LET o == page[b].row
  IN  /\ page[b].status = "broker" /\ req[b].at = "idle"
      /\ oidc[o] = "open"
      /\ oidc' = [oidc EXCEPT ![o] = "consumed"]
      /\ req' = [req EXCEPT ![b] = [at |-> "tokens", row |-> o]]
      /\ UNCHANGED <<challenge, bucket, cli, identity, founded, discovery, front, issued, failures>>

FetchTokens(b) ==
  /\ req[b].at = "tokens"
  /\ req' = [req EXCEPT ![b] = Proven("broker", req[b].row)]
  /\ UNCHANGED <<tables, discovery, front, issued, failures>>

\* The broker refuses the code or its token does not verify: the row stays spent.
TokensFail(b) ==
  /\ req[b].at = "tokens"
  /\ Fault
  /\ Ends(b)
  /\ UNCHANGED <<tables, discovery, front, issued>>

\* Ten minutes pass at the broker.
OidcExpires(o) ==
  /\ oidc[o] = "open"
  /\ oidc' = [oidc EXCEPT ![o] = "expired"]
  /\ UNCHANGED <<challenge, bucket, cli, identity, founded, discovery, req, front, issued, failures>>

\* After the callback's error page the person opens the shell again.
Reopen(b) ==
  /\ page[b].status = "broker" /\ req[b].at = "idle" /\ oidc[page[b].row] # "open"
  /\ page' = [page EXCEPT ![b] = Loaded(None)]
  /\ UNCHANGED <<tables, discovery, req, cookie, command, issued, failures>>
-----------------------------------------------------------------------------
(* completeIdentity: the identity's user, then the session. *)

\* upsertIdentity of the database looks the identity up.
FindIdentity(k) ==
  /\ req[k].at = "identify" /\ ~InMemory
  /\ LET u == identity[req[k].issuer]
     IN  req' = [req EXCEPT ![k].at = IF u = None THEN "insert" ELSE "session", ![k].user = u]
  /\ UNCHANGED <<tables, discovery, front, issued, failures>>

Insert(k, u) ==
  /\ founded[u] = None /\ \A w \in Users : founded[w] = None => u <= w
  /\ founded' = [founded EXCEPT ![u] = req[k].issuer]
  /\ identity' = [identity EXCEPT ![req[k].issuer] = u]
  /\ req' = [req EXCEPT ![k].at = "session", ![k].user = u]

\* upsertIdentity in memory looks up and inserts in one step of the write queue.
UpsertInMemory(k) ==
  /\ req[k].at = "identify" /\ InMemory
  /\ IF identity[req[k].issuer] = None
     THEN \E u \in Users : Insert(k, u)
     ELSE /\ req' = [req EXCEPT ![k].at = "session", ![k].user = identity[req[k].issuer]]
          /\ UNCHANGED <<identity, founded>>
  /\ UNCHANGED <<challenge, bucket, oidc, cli, discovery, front, issued, failures>>

\* Mutant: the insert does not depend on the unique index.
InsertWithoutIndex(k) ==
  /\ req[k].at = "insert"
  /\ \E u \in Users : Insert(k, u)
  /\ UNCHANGED <<challenge, bucket, oidc, cli, discovery, front, issued, failures>>

\* No identity was found: user, workspace and identity are inserted.
InsertIdentity(k) ==
  /\ req[k].at = "insert" /\ identity[req[k].issuer] = None
  /\ \E u \in Users : Insert(k, u)
  /\ UNCHANGED <<challenge, bucket, oidc, cli, discovery, front, issued, failures>>

\* Another request inserted the identity meanwhile: the unique index on issuer and
\* subject refuses the row and the whole transaction is undone.
IdentityConflict(k) ==
  /\ req[k].at = "insert" /\ identity[req[k].issuer] # None
  /\ Ends(k)
  /\ command' = IF k \in Commands THEN [command EXCEPT ![k].at = "failed"] ELSE command
  /\ UNCHANGED <<tables, discovery, cookie, page, issued, failures>>

Issue(r) == issued' = IF r = None THEN issued ELSE [issued EXCEPT ![r] = @ + 1]

\* issueSession, and the answer arrives: the cookie is set; the form signs in, the
\* callback redirects to the address the browser came from.
CreateSession(b) ==
  /\ req[b].at = "session"
  /\ Issue(req[b].proof)
  /\ cookie' = [cookie EXCEPT ![b] = req[b].user]
  /\ page' = [page EXCEPT ![b] = IF page[b].status = "broker" THEN Loaded(page[b].goal)
                                 ELSE [page[b] EXCEPT !.status = "authenticated", !.row = None]]
  /\ Ends(b)
  /\ UNCHANGED <<tables, discovery, command, failures>>

\* The session is stored and the answer is lost.
SessionLost(b) ==
  /\ req[b].at = "session"
  /\ Fault
  /\ Issue(req[b].proof)
  /\ Ends(b)
  /\ UNCHANGED <<tables, discovery, front>>

\* userStore.initialize when the shell is loaded, or again after an error.
Initialize(b) ==
  /\ page[b].status \in {"idle", "error"}
  /\ page' = [page EXCEPT ![b].status = IF cookie[b] = None THEN "anonymous" ELSE "authenticated"]
  /\ UNCHANGED <<tables, discovery, req, cookie, command, issued, failures>>

InitializeFails(b) ==
  /\ page[b].status \in {"idle", "error"}
  /\ Fault
  /\ page' = [page EXCEPT ![b].status = "error"]
  /\ UNCHANGED <<tables, discovery, req, cookie, command, issued>>
-----------------------------------------------------------------------------
(* The login command. *)

\* interactiveLogin: the receiver listens, the request is stored and the system's
\* browser is opened on the shell.
StartLogin(t, b) ==
  /\ command[t].at = "new"
  /\ req[b].at = "idle"
  /\ cli' = [cli EXCEPT ![t].state = "open"]
  /\ command' = [command EXCEPT ![t].at = "waiting"]
  /\ page' = [page EXCEPT ![b] = Loaded(t)]
  /\ UNCHANGED <<challenge, bucket, oidc, identity, founded, discovery, req, cookie, issued, failures>>

\* workloadLogin: the command presents a token of the build system; the policy found for
\* it names the identity.  A token that does not verify changes nothing.
WorkloadLogin(t) ==
  /\ command[t].at = "new"
  /\ command' = [command EXCEPT ![t].at = "exchange"]
  /\ req' = [req EXCEPT ![t] = Proven("workload", t)]
  /\ UNCHANGED <<tables, discovery, cookie, page, issued, failures>>

\* The person opens the same address in another browser.
OpenElsewhere(t, b) ==
  /\ command[t].at = "waiting"
  /\ page[b].goal # t /\ page[b].status \in {"anonymous", "authenticated"} /\ req[b].at = "idle"
  /\ \E a \in Browsers \ {b} : page[a].goal = t
  /\ page' = [page EXCEPT ![b] = Loaded(t)]
  /\ UNCHANGED <<tables, discovery, req, cookie, command, issued, failures>>

Bind(b, t) == cli' = [cli EXCEPT ![t] = [state |-> "authorized", user |-> cookie[b]]]

\* AuthGate sends an authenticated browser to the approval; the request is bound to
\* its user and the browser is redirected to the receiver.
Approve(b) ==
  LET t == page[b].goal
  IN  /\ page[b].status = "authenticated" /\ t # None
      /\ Bind(b, t)
      /\ page' = [page EXCEPT ![b].status = "redirected"]
      /\ UNCHANGED <<challenge, bucket, oidc, identity, founded, discovery, req, cookie, command, issued,
                     failures>>

\* Mutant: a request that was approved before is bound again.
AuthorizeAgain(b) == Approve(b) /\ cli[page[b].goal].state \in {"open", "authorized"}

AuthorizeCliRequest(b) == Approve(b) /\ cli[page[b].goal].state = "open"

\* Approved before, consumed or expired: the browser shows the problem.
RefuseApproval(b) ==
  /\ page[b].status = "authenticated" /\ page[b].goal # None
  /\ cli[page[b].goal].state # "open"
  /\ page' = [page EXCEPT ![b].goal = None]
  /\ UNCHANGED <<tables, discovery, req, cookie, command, issued, failures>>

\* The redirect reaches the receiver, which settles with the code or is closed already.
ReceiveCode(b) ==
  LET t == page[b].goal
  IN  /\ page[b].status = "redirected"
      /\ page' = [page EXCEPT ![b] = Loaded(None)]
      /\ command' = IF command[t].at = "waiting"
                    THEN [command EXCEPT ![t] = [@ EXCEPT !.at = "exchange", !.code = b]]
                    ELSE command
      /\ UNCHANGED <<tables, discovery, req, cookie, issued, failures>>

\* The receiver's timer.
LoginTimeout(t) ==
  /\ command[t].at = "waiting"
  /\ command' = [command EXCEPT ![t].at = "failed"]
  /\ UNCHANGED <<tables, discovery, req, cookie, page, issued, failures>>

ConsumeCliAuthorization(t) ==
  /\ command[t].at = "exchange" /\ req[t].at = "idle"
  /\ cli[t].state = "authorized"
  /\ cli' = [cli EXCEPT ![t].state = "consumed"]
  /\ req' = [req EXCEPT ![t] = [at |-> "session", user |-> cli[t].user]]
  /\ UNCHANGED <<challenge, bucket, oidc, identity, founded, discovery, front, issued, failures>>

\* The code expired before the exchange: the command ends with the problem.
RefuseExchange(t) ==
  /\ command[t].at = "exchange" /\ req[t].at = "idle"
  /\ cli[t].state # "authorized"
  /\ command' = [command EXCEPT ![t].at = "failed"]
  /\ UNCHANGED <<tables, discovery, req, cookie, page, issued, failures>>

\* issueSession or issueRefreshSession, parseSession, saveCredential.
SaveCredential(t) ==
  /\ req[t].at = "session"
  /\ Issue(t)
  /\ command' = [command EXCEPT ![t] = [@ EXCEPT !.at = "done", !.user = req[t].user]]
  /\ Ends(t)
  /\ UNCHANGED <<tables, discovery, cookie, page, failures>>

ExchangeLost(t) ==
  /\ req[t].at = "session"
  /\ Fault
  /\ Issue(t)
  /\ command' = [command EXCEPT ![t].at = "failed"]
  /\ Ends(t)
  /\ UNCHANGED <<tables, discovery, cookie, page>>

\* CLI_AUTHORIZATION_TTL_MS passes; it is longer than the receiver waits.
CliExpires(t) ==
  /\ command[t].at \in {"exchange", "failed"}
  /\ cli[t].state \in {"open", "authorized"}
  /\ cli' = [cli EXCEPT ![t].state = "expired"]
  /\ UNCHANGED <<challenge, bucket, oidc, identity, founded, discovery, req, front, issued, failures>>
-----------------------------------------------------------------------------
\* What the server does for a request, whatever the person does.
Serve(b) ==
  \/ CheckCooldown(b) \/ CreateEmailChallenge(b) \/ SendLoginCode(b)
  \/ ConsumeEmailChallenge(b) \/ RefuseEmailChallenge(b) \/ RefuseEmailCode(b) \/ CountEmailAttempt(b)
  \/ RefuseOidc(b) \/ CreateOidcTransaction(b) \/ FetchTokens(b)
  \/ CreateSession(b)

Identify(k) == FindIdentity(k) \/ InsertIdentity(k) \/ IdentityConflict(k) \/ UpsertInMemory(k)

LoadShell(b) == Initialize(b) \/ AuthorizeCliRequest(b) \/ RefuseApproval(b) \/ ReceiveCode(b)

Person(b) ==
  \/ RequestEmailCode(b) \/ ForgetChallenge(b) \/ \E right \in BOOLEAN : VerifyEmailCode(b, right)
  \/ LoginPassword(b) \/ BeginOidc(b) \/ ConsumeOidcTransaction(b) \/ Reopen(b)
  \/ \E t \in Commands : StartLogin(t, b) \/ OpenElsewhere(t, b)

Fails(b) == DeliveryFails(b) \/ TokensFail(b) \/ SessionLost(b) \/ InitializeFails(b)

Command(t) == WorkloadLogin(t) \/ ConsumeCliAuthorization(t) \/ RefuseExchange(t) \/ SaveCredential(t)

SignInNext ==
  \/ \E b \in Browsers : Serve(b) \/ LoadShell(b) \/ Person(b) \/ Fails(b)
  \/ \E t \in Commands : Command(t) \/ LoginTimeout(t) \/ ExchangeLost(t) \/ CliExpires(t)
  \/ \E o \in Transactions : OidcExpires(o)
  \/ \E k \in Clients : Identify(k)
  \/ Discovered \/ DiscoveryFails \/ Tick

SignInSpec == SignInInit /\ [][SignInNext /\ UNCHANGED config]_signInVars
-----------------------------------------------------------------------------
(* Properties. *)

\* Every variable has its type; a code in the table is younger than its lifetime;
\* wrong codes are counted in memory, up to the limit, and not at all in the database
\* (the count is undone with the transaction).
SignInTypeOK ==
  /\ config \in Configurations
  /\ challenge \in [Challenges -> [state : {"none", "consumed"}] \cup
                       [state : {"open"}, age : 0..(Lifetime - 1), attempts : IF InMemory THEN 0..MaxAttempts ELSE {0}]]
  /\ bucket \in [count : 0..(EmailLimit + 1), left : 0..Window]
  /\ oidc \in [Transactions -> {"none", "open", "consumed", "expired"}]
  /\ cli \in [Commands -> [state : {"none", "open", "authorized", "consumed", "expired"}, user : Users \cup {None}]]
  /\ identity \in [Issuers -> Users \cup {None}]
  /\ founded \in [Users -> Issuers \cup {None}]
  /\ discovery \in {"none", "fetching", "known", "failed"}
  /\ cookie \in [Browsers -> Users \cup {None}]
  /\ page \in [Browsers -> [status : {"idle", "error", "anonymous", "authenticated", "broker", "redirected"},
                            row : Challenges \cup Transactions \cup {None}, goal : Commands \cup {None}]]
  /\ command \in [Commands -> [at : {"new", "waiting", "exchange", "done", "failed"},
                               code : Browsers \cup {None}, user : Users \cup {None}]]
  /\ failures \in 0..MaxFailures

\* A code, a transaction of the broker and an approval are each good for one session,
\* however often and from wherever they are presented and whichever answers are lost.
EachProofOnce == \A r \in DOMAIN issued : issued[r] <= 1

\* Every user row belongs to the identity it was made for and every session to such a
\* user: two first sign-ins at the same time do not leave the person with two accounts
\* (upsertIdentity reads the identity and inserts later).
OneUserPerIdentity ==
  /\ \A u \in Users : founded[u] # None => identity[founded[u]] = u
  /\ \A b \in Browsers : cookie[b] # None => founded[cookie[b]] # None

\* The session a command stores is the session of the user whose browser brought the
\* code to the command, also when the address was opened in browsers of different users,
\* and a workload's session is of the workload's own user.
CredentialIsOfItsApprover ==
  \A t \in Commands :
    command[t].at = "done" =>
      IF command[t].code = None THEN founded[command[t].user] = "workload"
      ELSE command[t].user = cookie[command[t].code]
=============================================================================
