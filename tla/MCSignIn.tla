------------------------------ MODULE MCSignIn ------------------------------
(* Two browsers and one login command, with room for each kind of sign-in, in a    *)
(* production configuration and in a developer's, which has neither broker nor     *)
(* administrator.                                                                  *)
EXTENDS SignIn, TLC

CONSTANTS b1, b2, t1, o1

Production ==
  [env |-> "production", repository |-> "postgres", database |-> TRUE, redis |-> TRUE,
   queue |-> "redis", storage |-> "s3", s3 |-> TRUE, leaseKeyId |-> TRUE, leaseKey |-> TRUE,
   mode |-> "hybrid", adminEmail |-> TRUE, adminPassword |-> TRUE,
   delivery |-> "smtp", smtp |-> TRUE, smtpUser |-> TRUE, smtpPassword |-> TRUE, tls |-> TRUE,
   webhook |-> "none", webhookToken |-> FALSE,
   issuer |-> "https", client |-> TRUE, redirect |-> "https", landing |-> "https",
   publicUrls |-> "https", enabled |-> {"google"},
   policies |-> TRUE, defaultSecrets |-> FALSE, exposeOtp |-> FALSE]

Development ==
  [Production EXCEPT !.env = "development", !.repository = "memory", !.redis = FALSE, !.queue = "memory",
                     !.storage = "memory", !.mode = "local_otp", !.delivery = "noop",
                     !.adminEmail = FALSE, !.adminPassword = FALSE, !.issuer = "none", !.defaultSecrets = TRUE]

MCConfigurations == {Production, Development}
MCBrowsers     == {b1, b2}
MCCommands     == {t1}
MCChallenges   == 1..2
MCTransactions == {o1}
MCUsers        == 1..4
Symmetry       == Permutations(MCBrowsers)
=============================================================================
