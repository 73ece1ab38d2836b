----------------------------- MODULE GatewayOAuth -----------------------------
(***************************************************************************)
(* The authorization server of the gateway: authorization transactions,    *)
(* authorization codes and families of rotating refresh tokens, over its   *)
(* D1 tables.                                                              *)
(*                                                                         *)
(* Every handler runs on its own, and its statements and batches are the   *)
(* steps: each member of Slots is a handler in progress.  Random           *)
(* identifiers are numbers handed out once, and the identifier of a family *)
(* is the number of its first token.  The outcome of consent, membership,  *)
(* redirect URI and PKCE checks is open.                                   *)
(***************************************************************************)
EXTENDS Integers

CONSTANTS
    Slots,        \* handlers that may be in progress together
    Clients,      \* registered clients
    TxnLife,      \* lifetime of an authorization transaction
    CodeLife,     \* lifetime of an authorization code
    RefreshLife,  \* lifetime of a family of refresh tokens
    MaxTime,      \* bound: the clock
    MaxMinted     \* bound: random identifiers

ASSUME LifetimeAssumption ==
    /\ TxnLife \in Nat \ {0}
    /\ CodeLife \in Nat \ {0}
    /\ RefreshLife \in Nat \ {0}

ASSUME BoundAssumption ==
    /\ MaxTime \in Nat
    /\ MaxMinted \in Nat

VARIABLES
    now,           \* the clock
    transactions,  \* gateway_oauth_authorization_transactions
    codes,         \* gateway_oauth_authorization_codes
    families,      \* gateway_oauth_refresh_families
    tokens,        \* gateway_oauth_refresh_tokens
    slot,          \* the handlers in progress
    delivered,     \* history: refresh tokens that reached a client
    minted         \* random identifiers so far

tables == <<transactions, codes, families, tokens>>
vars == <<now, tables, slot, delivered, minted>>

--------------------------------------------------------------------------------
(* Values *)

(* held: what the handler has read; origin names the transaction of a grant.  *)
NoRow == [client |-> "none", origin |-> 0, expires |-> 0]
Idle  == [at |-> "idle", client |-> "none", held |-> NoRow, time |-> 0, token |-> 0, next |-> 0]

At(s, at)    == slot[s].at = at
Moved(s, to) == slot' = [slot EXCEPT ![s].at = to]
Ended(s)     == slot' = [slot EXCEPT ![s] = Idle]

With(f, k, x) == [y \in DOMAIN f \cup {k} |-> IF y = k THEN x ELSE f[y]]
Keep(f, S)    == [y \in S |-> f[y]]

Revoked(f) == families[f].revoked

(* What rotate() accepts at time time. *)
Usable(t, time) ==
    /\ t \in DOMAIN tokens
    /\ ~tokens[t].consumed /\ tokens[t].expires > time
    /\ tokens[t].family \in DOMAIN families /\ ~Revoked(tokens[t].family)

--------------------------------------------------------------------------------
(* Authorization *)

(* startGatewayOAuthAuthorization *)
StartAuthorization(c) ==
    /\ minted < MaxMinted /\ minted' = minted + 1
    /\ transactions' = With(transactions, minted + 1,
                            [client |-> c, expires |-> now + TxnLife, consumed |-> FALSE])
    /\ UNCHANGED <<now, codes, families, tokens, slot, delivered>>

(* Mutant of Takeable: a row is found, used or not. *)
Takeable_again(row) == TRUE

(* UPDATE ... WHERE consumed_at IS NULL RETURNING: only one caller gets the row. *)
Takeable(row) == ~row.consumed

(* completeGatewayOAuthAuthorization takes the transaction before it looks at *)
(* anything else.                                                             *)
TakeTransaction(s, x) ==
    /\ At(s, "idle")
    /\ x \in DOMAIN transactions /\ Takeable(transactions[x])
    /\ transactions' = [transactions EXCEPT ![x].consumed = TRUE]
    /\ slot' = [slot EXCEPT ![s].at = "decide",
                            ![s].held = [client |-> transactions[x].client, origin |-> x,
                                         expires |-> transactions[x].expires]]
    /\ UNCHANGED <<now, codes, families, tokens, delivered, minted>>

(* Expired, denied, another user, no membership, or scopes that exceed it. *)
RefuseConsent(s) ==
    /\ At(s, "decide")
    /\ Ended(s)
    /\ UNCHANGED <<now, tables, delivered, minted>>

ApproveConsent(s) ==
    /\ At(s, "decide") /\ slot[s].held.expires > now
    /\ minted < MaxMinted /\ minted' = minted + 1
    /\ codes' = With(codes, minted + 1,
                     [client |-> slot[s].held.client, origin |-> slot[s].held.origin,
                      expires |-> now + CodeLife, consumed |-> FALSE])
    /\ Ended(s)
    /\ UNCHANGED <<now, transactions, families, tokens, delivered>>

--------------------------------------------------------------------------------
(* exchangeGatewayOAuthAuthorizationCode *)

TakeCode(s, k, c) ==
    /\ At(s, "idle")
    /\ k \in DOMAIN codes /\ Takeable(codes[k])
    /\ codes' = [codes EXCEPT ![k].consumed = TRUE]
    /\ slot' = [slot EXCEPT ![s].at = "exchange", ![s].client = c,
                            ![s].held = [client |-> codes[k].client, origin |-> codes[k].origin,
                                         expires |-> codes[k].expires]]
    /\ UNCHANGED <<now, transactions, families, tokens, delivered, minted>>

(* Expired, or the client, the redirect URI or the verifier does not match.   *)
RefuseExchange(s) ==
    /\ At(s, "exchange")
    /\ Ended(s)
    /\ UNCHANGED <<now, tables, delivered, minted>>

(* A new family and its first token are one batch. *)
PutInitial(s) ==
    /\ At(s, "exchange")
    /\ slot[s].held.expires > now /\ slot[s].held.client = slot[s].client
    /\ minted < MaxMinted /\ minted' = minted + 1
    /\ families' = With(families, minted + 1,
                        [client |-> slot[s].client, origin |-> slot[s].held.origin,
                         revoked |-> FALSE, replayed |-> FALSE])
    /\ tokens' = With(tokens, minted + 1,
                      [family |-> minted + 1, generation |-> 0, expires |-> now + RefreshLife,
                       consumed |-> FALSE, successor |-> 0])
    /\ slot' = [slot EXCEPT ![s].at = "issue", ![s].token = minted + 1]
    /\ UNCHANGED <<now, transactions, codes, delivered>>

--------------------------------------------------------------------------------
(* refreshGatewayOAuthAccessToken *)

(* The clock is read, and the successor is drawn, before the rotation. *)
BeginRefresh(s, t, c) ==
    /\ At(s, "idle")
    /\ t \in delivered
    /\ minted < MaxMinted /\ minted' = minted + 1
    /\ slot' = [slot EXCEPT ![s] = [Idle EXCEPT !.at = "rotate", !.client = c, !.time = now,
                                                !.token = t, !.next = minted + 1]]
    /\ UNCHANGED <<now, tables, delivered>>

Rotated(t, next) ==
    With([tokens EXCEPT ![t].consumed = TRUE, ![t].successor = next], next,
         [family |-> tokens[t].family, generation |-> tokens[t].generation + 1,
          expires |-> tokens[t].expires, consumed |-> FALSE, successor |-> 0])

(* Mutants of Rotatable: a consumed token, or one of a revoked family, passes. *)
Rotatable_consumed(s) ==
    LET t == slot[s].token
    IN  /\ t \in DOMAIN tokens /\ tokens[t].expires > slot[s].time
        /\ tokens[t].family \in DOMAIN families /\ ~Revoked(tokens[t].family)
Rotatable_revoked(s) ==
    LET t == slot[s].token
    IN  t \in DOMAIN tokens /\ ~tokens[t].consumed /\ tokens[t].expires > slot[s].time

(* The WHERE clause of the first statement, with the time of the request. *)
Rotatable(s) == Usable(slot[s].token, slot[s].time)

(* One batch: the token is consumed and its successor inserted, or nothing    *)
(* happens.  A successor for the wrong client is revoked.                     *)
Rotate(s) ==
    /\ At(s, "rotate")
    /\ LET t == slot[s].token
       IN  IF Rotatable(s)
           THEN /\ tokens' = Rotated(t, slot[s].next)
                /\ slot' = [slot EXCEPT ![s].token = slot[s].next,
                              ![s].at = IF families[tokens[t].family].client = slot[s].client
                                        THEN "issue" ELSE "revoke"]
           ELSE Moved(s, "find") /\ UNCHANGED tokens
    /\ UNCHANGED <<now, transactions, codes, families, delivered, minted>>

(* A token that cannot be rotated is read again.  Only a consumed one of a    *)
(* family that is not revoked is a replay.                                    *)
IsReplay(t) ==
    /\ t \in DOMAIN tokens /\ tokens[t].consumed
    /\ tokens[t].family \in DOMAIN families /\ ~Revoked(tokens[t].family)

FindCurrent(s) ==
    /\ At(s, "find")
    /\ LET t == slot[s].token
       IN  IF IsReplay(t) THEN slot' = [slot EXCEPT ![s].at = "replay", ![s].token = tokens[t].family]
           ELSE Ended(s)
    /\ UNCHANGED <<now, tables, delivered, minted>>

(* Mutant of RevokeReplayed: the replay is noted, and the successors stay usable. *)
RevokeReplayed_noted(s) ==
    /\ At(s, "replay")
    /\ families' = [f \in DOMAIN families |->
                      [families[f] EXCEPT !.replayed = @ \/ f = slot[s].token]]
    /\ Ended(s)
    /\ UNCHANGED <<now, transactions, codes, tokens, delivered, minted>>

(* One batch: the family is revoked and all of its tokens are consumed. *)
RevokeReplayed(s) ==
    /\ At(s, "replay")
    /\ LET f == slot[s].token
       IN  /\ families' = [g \in DOMAIN families |->
                             IF g = f THEN [families[g] EXCEPT !.revoked = TRUE, !.replayed = TRUE]
                             ELSE families[g]]
           /\ tokens' = [t \in DOMAIN tokens |->
                           IF tokens[t].family = f THEN [tokens[t] EXCEPT !.consumed = TRUE]
                           ELSE tokens[t]]
    /\ Ended(s)
    /\ UNCHANGED <<now, transactions, codes, delivered, minted>>

--------------------------------------------------------------------------------
(* Issuing and revoking *)

(* The access token is signed and the answer carries the refresh token.  If   *)
(* the issuer fails the family is revoked.                                    *)
Issue(s) ==
    /\ At(s, "issue")
    /\ \/ delivered' = delivered \cup {slot[s].token} /\ Ended(s)
       \/ Moved(s, "revoke") /\ UNCHANGED delivered
    /\ UNCHANGED <<now, tables, minted>>

(* revoke(tokenHash, clientId) *)
RevokedBy(t) ==
    IF t \in DOMAIN tokens /\ tokens[t].family \in DOMAIN families
    THEN [families EXCEPT ![tokens[t].family].revoked = TRUE] ELSE families

RevokeIssued(s) ==
    /\ At(s, "revoke")
    /\ families' = RevokedBy(slot[s].token)
    /\ Ended(s)
    /\ UNCHANGED <<now, transactions, codes, tokens, delivered, minted>>

(* The revocation endpoint. *)
RevokeToken(t, c) ==
    /\ t \in delivered \cap DOMAIN tokens
    /\ tokens[t].family \in DOMAIN families /\ families[tokens[t].family].client = c
    /\ families' = RevokedBy(t)
    /\ UNCHANGED <<now, transactions, codes, tokens, slot, delivered, minted>>

--------------------------------------------------------------------------------
(* cleanupGatewayOAuthD1: one batch *)

Retained(f) == {x \in DOMAIN f : f[x].expires > now}

RetainedFamilies ==
    {f \in DOMAIN families : \E t \in Retained(tokens) : tokens[t].family = f}

Cleanup ==
    /\ transactions' = Keep(transactions, Retained(transactions))
    /\ codes' = Keep(codes, Retained(codes))
    /\ tokens' = Keep(tokens, Retained(tokens))
    /\ families' = Keep(families, RetainedFamilies)
    /\ UNCHANGED <<now, slot, delivered, minted>>

Tick ==
    /\ now < MaxTime /\ now' = now + 1
    /\ UNCHANGED <<tables, slot, delivered, minted>>

(* The worker stops, or a statement or the answer is lost. *)
Crash(s) ==
    /\ ~At(s, "idle")
    /\ Ended(s)
    /\ UNCHANGED <<now, tables, delivered, minted>>

Init ==
    /\ now = 0 /\ minted = 0
    /\ transactions = <<>> /\ codes = <<>> /\ families = <<>> /\ tokens = <<>>
    /\ slot = [s \in Slots |-> Idle]
    /\ delivered = {}

Handler(s) ==
    \/ \E x \in DOMAIN transactions : TakeTransaction(s, x)
    \/ RefuseConsent(s) \/ ApproveConsent(s)
    \/ \E k \in DOMAIN codes, c \in Clients : TakeCode(s, k, c)
    \/ RefuseExchange(s) \/ PutInitial(s)
    \/ \E t \in delivered, c \in Clients : BeginRefresh(s, t, c)
    \/ Rotate(s) \/ FindCurrent(s) \/ RevokeReplayed(s)
    \/ Issue(s) \/ RevokeIssued(s)
    \/ Crash(s)

Next ==
    \/ \E c \in Clients : StartAuthorization(c)
    \/ \E s \in Slots : Handler(s)
    \/ \E t \in delivered, c \in Clients : RevokeToken(t, c)
    \/ Cleanup
    \/ Tick

Spec == Init /\ [][Next]_vars

--------------------------------------------------------------------------------
(* Properties *)

Steps == {"idle", "decide", "exchange", "issue", "rotate", "find", "replay", "revoke"}

(* Rows, handlers and the clock have their types, and every stored token has  *)
(* its family.                                                                *)
OAuthTypeOK ==
    /\ now \in 0 .. MaxTime /\ minted \in 0 .. MaxMinted
    /\ delivered \subseteq 1 .. minted
    /\ \A f \in DOMAIN families : f \in 1 .. minted /\ families[f].client \in Clients
    /\ \A t \in DOMAIN tokens :
          /\ t \in 1 .. minted /\ tokens[t].family \in DOMAIN families
          /\ tokens[t].generation \in Nat
    /\ \A s \in Slots : slot[s].at \in Steps /\ slot[s].token \in 0 .. minted

(* One approval gives one grant: however many handlers present the same       *)
(* transaction or code, and whatever the cleanup deletes, no two families go  *)
(* back to one transaction (take() of both stores).                           *)
OneGrantPerApproval ==
    \A f, g \in DOMAIN families : families[f].origin = families[g].origin => f = g

(* A family never forks: of its tokens only the newest generation can be      *)
(* rotated, and no two tokens share a generation, so a token that two parties *)
(* hold is found out by the second one that uses it (rotate()).               *)
FamilyLinear ==
    \A t, u \in DOMAIN tokens :
        tokens[t].family = tokens[u].family /\ t /= u =>
            /\ tokens[t].generation /= tokens[u].generation
            /\ Usable(t, now) => tokens[u].generation < tokens[t].generation

(* Well-formed state, every token with its family and no family forked.       *)
FamiliesInv == OAuthTypeOK /\ FamilyLinear

(* A detected replay ends the family: none of its tokens works any more, the  *)
(* one delivered by the handler that won the race included.                   *)
ReplayEndsFamily ==
    \A t \in DOMAIN tokens : families[tokens[t].family].replayed => ~Usable(t, 0)

(* What is revoked stays revoked: no step adds a token to a revoked family or *)
(* makes its tokens usable, and a consumed token is never usable again, not   *)
(* after a cleanup either.                                                    *)
RevokedStaysDead ==
    [][\A t \in DOMAIN tokens' :
          /\ t \notin DOMAIN tokens =>
                tokens'[t].family \notin {f \in DOMAIN families : Revoked(f)}
          /\ t \in DOMAIN tokens /\ ~Usable(t, 0) => tokens'[t].consumed \/ Revoked(tokens[t].family)']_vars
================================================================================
