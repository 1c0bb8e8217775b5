------------------------------ MODULE AuthConfig ------------------------------
(***************************************************************************)
(* The configuration of the API (packages/config), the adapters that are   *)
(* put together from it (app.module.ts) and the ways to sign in that it    *)
(* offers (AuthService.providers, LogtoOidcAdapter.providers).             *)
(*                                                                         *)
(* A setting that may be left out is a Boolean: it is set.  Of an address  *)
(* the model keeps whether it is set and its scheme.                       *)
(***************************************************************************)
EXTENDS Naturals

Address == {"none", "http", "https"}
Social  == {"google", "feishu", "wechat"}
Set(a)  == a # "none"

PlatformConfig ==
  [env : {"development", "test", "production"},
   repository : {"memory", "postgres"}, database : BOOLEAN, redis : BOOLEAN,
   queue : {"memory", "redis"}, storage : {"memory", "s3"}, s3 : BOOLEAN,
   leaseKeyId : BOOLEAN, leaseKey : BOOLEAN,
   mode : {"local_otp", "oidc", "hybrid"},
   adminEmail : BOOLEAN, adminPassword : BOOLEAN,
   delivery : {"noop", "smtp", "webhook"}, smtp : BOOLEAN, smtpUser : BOOLEAN, smtpPassword : BOOLEAN,
   tls : BOOLEAN, webhook : Address, webhookToken : BOOLEAN,
   issuer : Address, client : BOOLEAN, redirect : Address, landing : Address,
   publicUrls : {"http", "https"}, enabled : SUBSET (Social \cup {"email", "other"}),
   policies : BOOLEAN, defaultSecrets : BOOLEAN, exposeOtp : BOOLEAN]

\* superRefine, the rules of every environment.
Consistent(c) ==
  /\ c.repository = "postgres" => c.database
  /\ c.delivery = "webhook" => Set(c.webhook) /\ c.webhookToken
  /\ c.delivery = "smtp" => c.smtp
  /\ c.smtpUser = c.smtpPassword
  /\ c.adminEmail = c.adminPassword
  /\ c.leaseKeyId = c.leaseKey
  /\ c.mode \in {"oidc", "hybrid"} => Set(c.issuer) /\ c.client /\ Set(c.redirect)
  /\ c.queue = "redis" => c.redis
  /\ c.storage = "s3" => c.s3
  /\ "other" \notin c.enabled
  /\ c.policies                                  \* WORKLOAD_OIDC_POLICIES parses

\* superRefine, what production adds: the adapters ...
ProductionAdapters(c) ==
  /\ c.repository = "postgres" /\ c.redis /\ c.queue = "redis" /\ c.storage = "s3"
  /\ c.leaseKeyId /\ c.leaseKey
  /\ c.mode = "hybrid" /\ c.delivery = "smtp" /\ c.tls

\* ... the secrets and the addresses.
ProductionSecrets(c) ==
  /\ ~c.defaultSecrets /\ ~c.exposeOtp
  /\ "http" \notin {c.issuer, c.redirect, c.landing, c.publicUrls}

Accepted(c) ==
  /\ c \in PlatformConfig
  /\ Consistent(c)
  /\ c.env = "production" => ProductionAdapters(c) /\ ProductionSecrets(c)
-----------------------------------------------------------------------------
(* AppModule.register: the adapter behind each port, with what it reads of *)
(* the configuration without asking again.                                 *)

Repository(c) == [kind |-> c.repository, has |-> c.repository = "postgres" => c.database]

EmailDelivery(c) ==
  [kind |-> c.delivery,
   has |-> CASE c.delivery = "smtp" -> c.smtp
             [] c.delivery = "webhook" -> Set(c.webhook) /\ c.webhookToken
             [] OTHER -> TRUE]

RateLimiter(c) ==
  IF c.env = "production" THEN [kind |-> "redis", has |-> c.redis] ELSE [kind |-> "memory", has |-> TRUE]

ObjectStorage(c) == [kind |-> c.storage, has |-> c.storage = "s3" => c.s3]

ValidationQueue(c) == [kind |-> c.queue, has |-> c.queue = "redis" => c.redis]

Ports(c) == {Repository(c), EmailDelivery(c), RateLimiter(c), ObjectStorage(c), ValidationQueue(c)}
-----------------------------------------------------------------------------
(* The sign-in methods the page is told of. *)

Provider(id, protocol, active) == [id |-> id, protocol |-> protocol, active |-> active]

PasswordEnabled(c) == c.adminEmail /\ c.adminPassword
PasswordProvider(c) == Provider("password", "password", PasswordEnabled(c))

SocialProvider(c, id) == Provider(id, "oidc", id \in c.enabled)

\* LogtoOidcAdapter.providers
BrokerProviders(c) == {Provider("email", "oidc", TRUE)} \cup {SocialProvider(c, id) : id \in Social}

\* AuthService.providers
Providers(c) ==
  {PasswordProvider(c)} \cup
  CASE c.mode = "oidc" -> BrokerProviders(c)
    [] c.mode = "hybrid" -> {Provider("email", "email_otp", TRUE)} \cup {p \in BrokerProviders(c) : p.id # "email"}
    [] OTHER -> {Provider("email", "email_otp", TRUE)} \cup {Provider(id, "oidc", FALSE) : id \in Social}

\* The guards of the handlers a choice of the page leads to.
LocalOtp(c) == c.mode \in {"local_otp", "hybrid"}

BeginsOidc(c, id) ==
  /\ c.mode \in {"oidc", "hybrid"}
  /\ c.mode = "hybrid" => id # "email"           \* the page names no provider for e-mail
  /\ id # "email" => id \in c.enabled

Serves(c, p) ==
  CASE p.protocol = "email_otp" -> LocalOtp(c)
    [] p.protocol = "password" -> PasswordEnabled(c)
    [] p.protocol = "oidc" -> BeginsOidc(c, p.id) /\ Set(c.issuer) /\ c.client /\ Set(c.redirect)
=============================================================================
