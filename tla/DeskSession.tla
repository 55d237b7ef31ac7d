----------------------------- MODULE DeskSession -----------------------------
(***************************************************************************)
(* A desk and the delegations of its two wallets, as the agent's HTTP side *)
(* changes them: the delegation webhook (http/dynamic-webhook.ts), the     *)
(* registration and mode routes (http/desks.ts), the executor's verdicts   *)
(* on the desk (executor/safe-mode.ts) and the purge of delegations nobody *)
(* bound (main.ts, state/db.ts).                                           *)
(*                                                                         *)
(* The vendor sends one event per delegation or revocation of a wallet and *)
(* delivers it late, twice, out of order or never. An event has a place in *)
(* "issued", the order at the vendor, and a time the handler goes by: the  *)
(* vendor's, if the envelope carries one, else that of its first receipt.  *)
(* An action is what happens between two awaits.                           *)
(***************************************************************************)
EXTENDS Naturals, Sequences

CONSTANTS
  MaxEvents,    \* bound on delegation events and process crashes, together
  MaxNonce,     \* bound on mode changes the owner signs
  MaxDeliveries \* bound on deliveries waiting for one wallet

ASSUME SessionAssumption ==
  MaxEvents \in Nat /\ MaxNonce \in Nat /\ MaxDeliveries \in Nat

VARIABLES
  issued,     \* the events, in the order they happened at the vendor
  eventAt,    \* eventAtMs of each, 0 while the agent cannot know it
  event,      \* webhook_events.status
  deliveries, \* walletQueues: the deliveries of a wallet, handled one at a time
  handling,   \* what the first one awaits, and the desk it read before
  revocations,\* delegation_revocations: the revocations on record
  deleg,      \* delegations. by: created_event_id; old: created_at_ms is past the
              \* TTL; fresh: its activation is not
  account,    \* desks: status, mode_nonce
  owed,       \* safe mode was entered and no mode change signed since
  changing,   \* the mode route
  joining,    \* the registration route
  restarts

sessionVars == <<issued, eventAt, event, deliveries, handling, revocations, deleg, account,
                 owed, changing, joining, restarts>>

Wallet == {"operator", "vault"}
Event  == 1..MaxEvents

\* stamped: with a timestamp that can be parsed.
Envelope == [kind : {"created", "revoked"}, wallet : Wallet, stamped : BOOLEAN]

Quiet    == [at |-> "none", saw |-> "none"]
NoChange == [at |-> "none", saw |-> "none", nonce |-> 0]
NoDeleg  == [status |-> "none", by |-> 0, bound |-> FALSE, old |-> FALSE, fresh |-> FALSE]

SessionTypeOK ==
  /\ issued \in Seq(Envelope) /\ Len(issued) <= MaxEvents
  /\ eventAt \in [Event -> 0..MaxEvents]
  /\ event \in [Event -> {"none", "received", "processed", "ignored", "failed"}]
  /\ deliveries \in [Wallet -> Seq(DOMAIN issued)]
  /\ \A w \in Wallet : handling[w] # Quiet => deliveries[w] # <<>>
  /\ handling \in [Wallet -> [at : {"none", "probe", "decrypt", "notify"},
                              saw : {"none", "active", "safe_mode", "revoked"}]]
  /\ revocations \subseteq DOMAIN issued
  /\ deleg \in [Wallet -> [status : {"none", "active", "revoked"}, by : 0..MaxEvents,
                           bound : BOOLEAN, old : BOOLEAN, fresh : BOOLEAN]]
  /\ account \in [status : {"none", "active", "safe_mode", "revoked"}, nonce : 0..MaxNonce]
  /\ owed \in BOOLEAN /\ restarts \in 0..MaxEvents
  /\ changing \in [at : {"none", "verify"}, nonce : 0..MaxNonce,
                   saw : {"none", "active", "safe_mode", "revoked"}]
  /\ joining \in {"none", "identity", "caps"}

SessionInit ==
  /\ issued = <<>>
  /\ eventAt = [e \in Event |-> 0]
  /\ event = [e \in Event |-> "none"]
  /\ deliveries = [w \in Wallet |-> <<>>]
  /\ handling = [w \in Wallet |-> Quiet]
  /\ revocations = {}
  /\ deleg = [w \in Wallet |-> NoDeleg]
  /\ account = [status |-> "none", nonce |-> 0]
  /\ owed = FALSE
  /\ changing = NoChange /\ joining = "none"
  /\ restarts = 0

Registered == account.status # "none"

-----------------------------------------------------------------------------
(* The vendor. Its clock and the agent's agree.                            *)

\* What the clock may show when an event of this wallet is noted: no less than any time
\* noted before, and perhaps the same. Times of two wallets are never compared, and how
\* long it is between two events does not matter.
Now(w) ==
  LET noted == {eventAt[e] : e \in {d \in DOMAIN issued : issued[d].wallet = w}}
  IN  {t \in Event : (\A u \in noted : u <= t) /\ (t = 1 \/ t - 1 \in noted \/ t \in noted)}

Delegated(w) ==
  \E e \in DOMAIN issued :
    /\ issued[e].kind = "created" /\ issued[e].wallet = w
    /\ \A f \in DOMAIN issued : f > e => issued[f].wallet # w

Issue(w) ==
  /\ Len(issued) + restarts < MaxEvents
  /\ \E stamped \in BOOLEAN :
       /\ issued' = Append(issued, [kind |-> IF Delegated(w) THEN "revoked" ELSE "created",
                                    wallet |-> w, stamped |-> stamped])
       /\ IF stamped THEN \E t \in Now(w) : eventAt' = [eventAt EXCEPT ![Len(issued) + 1] = t]
                     ELSE UNCHANGED eventAt
  /\ UNCHANGED <<event, deliveries, handling, revocations, deleg, account, owed, changing,
                 joining, restarts>>

\* recordWebhookEvent: a finished event is a duplicate, any other is handled again.
\* received_at_ms is written once, at the first receipt.
Deliver(e) ==
  LET w == issued[e].wallet
  IN  /\ e \in DOMAIN issued
      /\ event[e] \notin {"processed", "ignored"}
      /\ Len(deliveries[w]) < MaxDeliveries
      /\ event' = [event EXCEPT ![e] = "received"]
      /\ IF eventAt[e] = 0 THEN \E t \in Now(w) : eventAt' = [eventAt EXCEPT ![e] = t]
                           ELSE UNCHANGED eventAt
      /\ deliveries' = [deliveries EXCEPT ![w] = Append(@, e)]
      /\ UNCHANGED <<issued, handling, revocations, deleg, account, owed, changing, joining,
                     restarts>>

-----------------------------------------------------------------------------
(* The webhook.                                                            *)

\* MUTANT of RevokedSince: only the wallet's own row is asked.
RevokedSinceByRow(w, e) == deleg[w].status = "revoked"

RevokedSince(w, e) ==
  \E r \in revocations : issued[r].wallet = w /\ eventAt[r] >= eventAt[e]

Turn(w, kind) ==
  /\ deliveries[w] # <<>> /\ handling[w] = Quiet
  /\ issued[Head(deliveries[w])].kind = kind

Pop(w) ==
  /\ deliveries' = [deliveries EXCEPT ![w] = Tail(@)]
  /\ handling' = [handling EXCEPT ![w] = Quiet]

FinishEvent(w, to) == event' = [event EXCEPT ![Head(deliveries[w])] = to] /\ Pop(w)

\* created(), up to its first await: the probe of the chain, which a registered
\* owner does not need.
Created(w) ==
  /\ Turn(w, "created")
  /\ LET e == Head(deliveries[w])
     IN  \/ /\ RevokedSince(w, e) \/ (w = "vault" /\ Registered)
            /\ FinishEvent(w, "ignored")
         \/ /\ ~RevokedSince(w, e) /\ ~(w = "vault" /\ Registered)
            /\ handling' = [handling EXCEPT ![w] = [at |-> "probe", saw |-> account.status]]
            /\ UNCHANGED <<event, deliveries>>
  /\ UNCHANGED <<issued, eventAt, revocations, deleg, account, owed, changing, joining,
                 restarts>>

\* MUTANT of Probed: a failed read is answered like a wallet without a lane.
ProbedQuietly(w) ==
  /\ handling[w].at = "probe"
  /\ \/ FinishEvent(w, "ignored")
     \/ /\ handling' = [handling EXCEPT ![w].at = "decrypt"]
        /\ UNCHANGED <<event, deliveries>>
  /\ UNCHANGED <<issued, eventAt, revocations, deleg, account, owed, changing, joining,
                 restarts>>

\* The factory lists a lane of the vault's, or none; the read may fail.
Probed(w) ==
  /\ handling[w].at = "probe"
  /\ \/ w = "vault" /\ FinishEvent(w, "ignored")
     \/ FinishEvent(w, "failed")
     \/ /\ handling' = [handling EXCEPT ![w].at = "decrypt"]
        /\ UNCHANGED <<event, deliveries>>
  /\ UNCHANGED <<issued, eventAt, revocations, deleg, account, owed, changing, joining,
                 restarts>>

Activated(w, e, bound) ==
  [deleg EXCEPT ![w] = [@ EXCEPT !.status = "active", !.by = e, !.fresh = TRUE,
                                 !.bound = deleg[w].bound \/ bound]]

\* MUTANT of Stored: the lane is found by its owner, too.
StoredUnderOwner(w) ==
  /\ handling[w].at = "decrypt"
  /\ LET e == Head(deliveries[w])
     IN  \/ /\ RevokedSince(w, e) /\ FinishEvent(w, "ignored")
            /\ UNCHANGED <<deleg, account>>
         \/ /\ ~RevokedSince(w, e)
            /\ deleg' = Activated(w, e, Registered)
            /\ account' = IF w = "operator" /\ handling[w].saw = "revoked"
                          THEN [account EXCEPT !.status = "active"] ELSE account
            /\ handling' = [handling EXCEPT ![w].at = "notify"]
            /\ UNCHANGED <<event, deliveries>>
         \/ FinishEvent(w, "failed") /\ UNCHANGED <<deleg, account>>
  /\ UNCHANGED <<issued, eventAt, revocations, owed, changing, joining, restarts>>

\* Decrypted: the transaction re-checks the revocations, but goes by the desk
\* that was read before the awaits. A created_at_ms once written stays.
Stored(w) ==
  /\ handling[w].at = "decrypt"
  /\ LET e    == Head(deliveries[w])
         lane == w = "operator" /\ handling[w].saw # "none"
     IN  \/ /\ RevokedSince(w, e) /\ FinishEvent(w, "ignored")
            /\ UNCHANGED <<deleg, account>>
         \/ /\ ~RevokedSince(w, e)
            /\ deleg' = Activated(w, e, lane)
            /\ account' = IF lane /\ handling[w].saw = "revoked"
                          THEN [account EXCEPT !.status = "active"] ELSE account
            /\ handling' = [handling EXCEPT ![w].at = "notify"]
            /\ UNCHANGED <<event, deliveries>>
         \/ FinishEvent(w, "failed") /\ UNCHANGED <<deleg, account>>
  /\ UNCHANGED <<issued, eventAt, revocations, owed, changing, joining, restarts>>

RevokeRow(w) ==
  [deleg EXCEPT ![w].status = IF @ = "active" THEN "revoked" ELSE @]

\* revoked(): recorded even for a wallet without a row; then the credentials
\* go and the desk it operates is marked.
RevocationStored(w) ==
  LET e == Head(deliveries[w])
  IN  /\ Turn(w, "revoked")
      /\ revocations' = revocations \cup {e}
      /\ IF deleg[w].status = "none"
         THEN FinishEvent(w, "processed") /\ UNCHANGED <<deleg, account>>
         ELSE /\ deleg' = RevokeRow(w)
              /\ account' = IF w = "operator" /\ Registered
                            THEN [account EXCEPT !.status = "revoked"] ELSE account
              /\ handling' = [handling EXCEPT ![w] = [at |-> "notify", saw |-> "none"]]
              /\ UNCHANGED <<event, deliveries>>
      /\ UNCHANGED <<issued, eventAt, owed, changing, joining, restarts>>

Notified(w) ==
  /\ handling[w].at = "notify"
  /\ FinishEvent(w, "processed")
  /\ UNCHANGED <<issued, eventAt, revocations, deleg, account, owed, changing, joining,
                 restarts>>

-----------------------------------------------------------------------------
(* The routes.                                                             *)

Join ==
  /\ joining = "none" /\ ~Registered
  /\ joining' = "identity"
  /\ UNCHANGED <<issued, eventAt, event, deliveries, handling, revocations, deleg, account,
                 owed, changing, restarts>>

\* The lane was read: its operator must be delegated.
JoinChecked ==
  /\ joining = "identity"
  /\ joining' = IF deleg["operator"].status = "active" THEN "caps" ELSE "none"
  /\ UNCHANGED <<issued, eventAt, event, deliveries, handling, revocations, deleg, account,
                 owed, changing, restarts>>

\* The caps were read: purge the owner's credentials, insert, bind.
Joined ==
  /\ joining = "caps"
  /\ joining' = "none"
  /\ account' = [account EXCEPT !.status = "active"]
  /\ deleg' = [RevokeRow("vault") EXCEPT !["operator"].bound = TRUE]
  /\ UNCHANGED <<issued, eventAt, event, deliveries, handling, revocations, owed, changing,
                 restarts>>

\* A mode change, signed at some time by the owner; it may be a replay.
ChangeMode(n) ==
  /\ changing = NoChange /\ Registered
  /\ changing' = [at |-> "verify", saw |-> account.status, nonce |-> n]
  /\ UNCHANGED <<issued, eventAt, event, deliveries, handling, revocations, deleg, account,
                 owed, joining, restarts>>

\* The signature was recovered; the status is the one read before.
ModeVerified ==
  /\ changing.at = "verify"
  /\ changing' = NoChange
  /\ \/ /\ changing.nonce > account.nonce
        /\ account' = [nonce  |-> changing.nonce,
                       status |-> IF changing.saw = "safe_mode" THEN "active"
                                  ELSE account.status]
        /\ owed' = FALSE
     \/ changing.nonce <= account.nonce /\ UNCHANGED <<account, owed>>
  /\ UNCHANGED <<issued, eventAt, event, deliveries, handling, revocations, deleg, joining,
                 restarts>>

-----------------------------------------------------------------------------
(* The executor, the purge, time and crashes.                              *)

\* transition(): safe mode never downgrades a revoked desk.
EnterSafeMode ==
  /\ account.status \in {"active", "safe_mode"}
  /\ account' = [account EXCEPT !.status = "safe_mode"]
  /\ owed' = TRUE
  /\ UNCHANGED <<issued, eventAt, event, deliveries, handling, revocations, deleg, changing,
                 joining, restarts>>

\* The signer answers that the delegation is gone.
SignerRevoked ==
  /\ Registered
  /\ account' = [account EXCEPT !.status = "revoked"]
  /\ UNCHANGED <<issued, eventAt, event, deliveries, handling, revocations, deleg, owed,
                 changing, joining, restarts>>

\* A whole TTL passes.
Age(w) ==
  /\ deleg[w].fresh
  /\ deleg' = [deleg EXCEPT ![w].old = TRUE, ![w].fresh = FALSE]
  /\ UNCHANGED <<issued, eventAt, event, deliveries, handling, revocations, account, owed,
                 changing, joining, restarts>>

Purgeable(w) == deleg[w].status = "active" /\ ~deleg[w].bound /\ deleg[w].old

\* purgeUnboundDelegations, on the reconcile timer.
Purge ==
  /\ \E w \in Wallet : Purgeable(w)
  /\ deleg' = [w \in Wallet |-> IF Purgeable(w) THEN [deleg[w] EXCEPT !.status = "revoked"]
                                ELSE deleg[w]]
  /\ UNCHANGED <<issued, eventAt, event, deliveries, handling, revocations, account, owed,
                 changing, joining, restarts>>

\* The process dies; what it answered no request with, the vendor sends again.
SessionCrash ==
  /\ Len(issued) + restarts < MaxEvents
  /\ restarts' = restarts + 1
  /\ deliveries' = [w \in Wallet |-> <<>>] /\ handling' = [w \in Wallet |-> Quiet]
  /\ changing' = NoChange /\ joining' = "none"
  /\ UNCHANGED <<issued, eventAt, event, revocations, deleg, account, owed>>

SessionNext ==
  \/ \E w \in Wallet : \/ Issue(w) \/ Created(w) \/ Probed(w) \/ Stored(w) \/ RevocationStored(w)
                        \/ Notified(w) \/ Age(w)
  \/ \E e \in Event : Deliver(e)
  \/ Join \/ JoinChecked \/ Joined
  \/ (\E n \in 1..MaxNonce : ChangeMode(n)) \/ ModeVerified
  \/ EnterSafeMode \/ SignerRevoked \/ Purge \/ SessionCrash

SessionSpec == SessionInit /\ [][SessionNext]_sessionVars

-----------------------------------------------------------------------------
(* Properties.                                                             *)

\* A delegation in use has a later time than every recorded revocation of its wallet,
\* in whatever order and however often the events arrived; so one that carries the
\* vendor's time is newer at the vendor too. (Of two events the time of the first
\* receipt stands in for the vendor's where an envelope has none: a delegation without
\* a time that arrives for the first time after a newer revocation counts as newer.)
RevokeSticks ==
  \A r \in revocations :
    LET d == deleg[issued[r].wallet]
    IN  d.status = "active" =>
          /\ eventAt[d.by] > eventAt[r]
          /\ issued[d.by].stamped => d.by > r

\* An event the vendor was told not to send again has had its effect: a
\* revocation is on record and what it revoked is gone; a delegation is
\* stored, or refused for a revocation or because the wallet owns the lane.
FinishedTookEffect ==
  \A e \in DOMAIN issued :
    LET w == issued[e].wallet
    IN  /\ event[e] = "processed" /\ issued[e].kind = "revoked" =>
             e \in revocations /\ (deleg[w].status = "active" => eventAt[deleg[w].by] > eventAt[e])
        /\ event[e] = "processed" /\ issued[e].kind = "created" =>
             deleg[w].status # "none"
        /\ event[e] = "ignored" =>
             issued[e].kind = "created" /\ (RevokedSince(w, e) \/ w = "vault")

\* The owner's credentials, stored because its lane was not known to be its
\* own, do not stay with the agent.
OwnerCredentialsExpire == deleg["vault"].status = "active" ~> deleg["vault"].status # "active"

\* A desk leaves safe mode only after its owner signed a mode change
\* (executor/safe-mode.ts: until the owner re-signs a mode change).
SafeModeNeedsOwner == account.status = "active" => ~owed
=============================================================================
