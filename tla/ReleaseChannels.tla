-------------------------- MODULE ReleaseChannels --------------------------
(***************************************************************************)
(* Promotion of releases to channels, composed with the pipeline that      *)
(* decides them.                                                           *)
(*                                                                         *)
(* promote (postgres.repository.ts) is one transaction of several          *)
(* statements under READ COMMITTED: it reads the release, reads the        *)
(* channel's row FOR UPDATE, compares it with the release the caller       *)
(* expects there, upserts the row and writes an audit event.  A row that   *)
(* does not exist cannot be locked, so two first promotions overlap until  *)
(* the upsert; an upsert waits for a transaction that holds the row.       *)
(* The later of two overlapping first promotions then says that it         *)
(* replaced nothing; the properties speak of promotions that found a row.  *)
(*                                                                         *)
(*   channel   the committed channel row, NoRelease when there is none     *)
(*   audit     the committed channel.promoted events, in commit order      *)
(*   txn       the transaction of each administrator between its read and  *)
(*             its commit: what it will write, and what it read; base      *)
(*             (for the properties): how many promotions it came after     *)
(*                                                                         *)
(* A conflict with the expected release, a refused release and a rollback  *)
(* change nothing and have no step of their own.                           *)
(***************************************************************************)
EXTENDS ReleasePipeline, Sequences

CONSTANTS
  Channels, Admins,
  AnyRelease,     \* the caller named no expected release
  MaxPromotions   \* bound on the promotions of one channel

ASSUME AnyReleaseAssumption == AnyRelease \notin Releases \cup {NoRelease}
ASSUME MaxPromotionsAssumption == MaxPromotions \in Nat

VARIABLES channel, audit, txn

channelVars == <<channel, audit, txn>>
vars == <<pipelineVars, channelVars>>

NoTxn == [open |-> FALSE]
Txn   == [open : {TRUE}, channel : Channels, release : Releases,
          seen : Releases \cup {NoRelease}, base : Nat]
Event == [previous : Releases \cup {NoRelease}, release : Releases, base : Nat]

\* Mutant: the row is read without FOR UPDATE.
HoldsNothing(a, c) == FALSE

\* The row is locked by the transaction that read it.
HoldsRow(a, c) == txn[a].open /\ txn[a].channel = c /\ txn[a].seen # NoRelease
RowFree(c, a)  == \A b \in Admins \ {a} : ~HoldsRow(b, c)

Init ==
  /\ PipelineInit
  /\ channel = [c \in Channels |-> NoRelease]
  /\ audit = [c \in Channels |-> <<>>]
  /\ txn = [a \in Admins |-> NoTxn]

\* The statements of promote up to the comparison.
ReadChannel(a, c, r, expected) ==
  /\ ~txn[a].open
  /\ status[r] = "approved"
  /\ channel[c] # NoRelease => RowFree(c, a)
  /\ expected \in {AnyRelease, channel[c]}
  /\ txn' = [txn EXCEPT ![a] = [open |-> TRUE, channel |-> c, release |-> r,
                                   seen |-> channel[c], base |-> Len(audit[c])]]
  /\ UNCHANGED <<pipelineVars, channel, audit>>

\* The upsert, the audit event and the commit.
CommitPromotion(a) ==
  LET c == txn[a].channel
  IN  /\ txn[a].open
      /\ RowFree(c, a)
      /\ Len(audit[c]) < MaxPromotions
      /\ channel' = [channel EXCEPT ![c] = txn[a].release]
      /\ audit' = [audit EXCEPT ![c] =
                     Append(@, [previous |-> txn[a].seen, release |-> txn[a].release,
                                base |-> txn[a].base])]
      /\ txn' = [txn EXCEPT ![a] = NoTxn]
      /\ UNCHANGED pipelineVars

\* The API process or the connection dies: the transaction is rolled back.
RollBack(a) ==
  /\ txn[a].open
  /\ txn' = [txn EXCEPT ![a] = NoTxn]
  /\ UNCHANGED <<pipelineVars, channel, audit>>

PromotionStep ==
  \E a \in Admins :
    \/ \E c \in Channels, r \in Releases, e \in Releases \cup {NoRelease, AnyRelease} :
         ReadChannel(a, c, r, e)
    \/ CommitPromotion(a)
    \/ RollBack(a)

Next ==
  \/ PipelineNext /\ UNCHANGED channelVars
  \/ PromotionStep

Spec == Init /\ [][Next]_vars

FairSpec == Spec /\ PipelineFairness

----------------------------------------------------------------------------
(* Properties *)

\* Channel rows, audit events and open transactions stay in their domains.
ChannelTypeOK ==
  /\ channel \in [Channels -> Releases \cup {NoRelease}]
  /\ audit \in [Channels -> Seq(Event)]
  /\ txn \in [Admins -> Txn \cup {NoTxn}]

\* What a channel shows was approved, its artifacts were validated and its objects
\* pass validation: promote looks at the status only, and at a moment of its own.
ChannelsShowApprovedReleases ==
  \A c \in Channels : channel[c] # NoRelease =>
    /\ status[channel[c]] = "approved"
    /\ AllArtifacts(channel[c], "validated")
    /\ Sound(channel[c])

\* A promotion that names a previous release replaced exactly that one, with no other
\* promotion, not even of the same release, between the comparison and the upsert; the
\* channel shows the release of the last event.
PromotionsReplaceWhatTheyRead ==
  \A c \in Channels :
    LET n == Len(audit[c])
    IN  /\ channel[c] = IF n = 0 THEN NoRelease ELSE audit[c][n].release
        /\ \A i \in 1..n : audit[c][i].previous # NoRelease =>
             /\ i > 1 /\ audit[c][i].base = i - 1
             /\ audit[c][i].previous = audit[c][i - 1].release

\* Of the proofs: whatever is being promoted or shown is approved; the row a
\* transaction holds is as it read it.
PromotionInv ==
  /\ \A a \in Admins : txn[a].open => status[txn[a].release] = "approved"
  /\ \A c \in Channels : channel[c] # NoRelease => status[channel[c]] = "approved"
  /\ \A a \in Admins, c \in Channels : HoldsRow(a, c) =>
       channel[c] = txn[a].seen /\ Len(audit[c]) = txn[a].base
  /\ PromotionsReplaceWhatTheyRead

----------------------------------------------------------------------------
(* Refinement *)

Life == INSTANCE ReleaseLife WITH
  sound <- [r \in Releases |-> Sound(r)],
  shown <- channel

\* Uploads, repeated validations, late results and overlapping promotions show
\* nothing but the life of a release as promised.
ImplementsReleaseLife == Life!Spec
=============================================================================
