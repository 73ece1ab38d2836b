--------------------------- MODULE GatewayOAuthProof ---------------------------
(***************************************************************************)
(* The authorization server, for any number of handlers, clients, codes    *)
(* and tokens: one approval gives one grant, a family of refresh tokens    *)
(* never forks, and what is revoked stays dead.                            *)
(***************************************************************************)
EXTENDS GatewayOAuth, TLAPS

--------------------------------------------------------------------------------
(* The inductive invariant *)

AnyClient   == Clients \cup {"none"}
Transaction == [client : Clients, expires : Nat, consumed : BOOLEAN]
Code        == [client : AnyClient, origin : Nat, expires : Nat, consumed : BOOLEAN]
Family      == [client : Clients, origin : Nat, revoked : BOOLEAN, replayed : BOOLEAN]
Token       == [family : Nat, generation : Nat, expires : Nat, consumed : BOOLEAN, successor : Nat]
HeldRow     == [client : AnyClient, origin : Nat, expires : Nat]
HandlerType == [at : Steps, client : AnyClient, held : HeldRow, time : Nat, token : Nat, next : Nat]

Numbered(f) == DOMAIN f \subseteq 1 .. minted

TableTypes ==
    /\ now \in 0 .. MaxTime /\ minted \in 0 .. MaxMinted /\ delivered \subseteq 1 .. minted
    /\ Numbered(transactions) /\ \A x \in DOMAIN transactions : transactions[x] \in Transaction
    /\ Numbered(codes) /\ \A k \in DOMAIN codes : codes[k] \in Code /\ codes[k].origin <= minted
    /\ Numbered(families) /\ \A f \in DOMAIN families : families[f] \in Family /\ families[f].origin <= minted
    /\ Numbered(tokens) /\ \A t \in DOMAIN tokens : tokens[t] \in Token /\ tokens[t].family \in DOMAIN families

HandlerInv(s) ==
    /\ slot[s].token <= minted /\ slot[s].next <= minted /\ slot[s].held.origin <= minted
    /\ slot[s].at = "exchange" => slot[s].client \in Clients
    /\ slot[s].at = "issue" => slot[s].token > 0
    /\ slot[s].at = "rotate" => slot[s].next > 0 /\ slot[s].next \notin DOMAIN tokens

HandlerTypes == slot \in [Slots -> HandlerType] /\ \A s \in Slots : HandlerInv(s)

(* Successors are drawn once. *)
NextOnce ==
    \A s, u \in Slots : slot[s].at = "rotate" /\ slot[u].at = "rotate" /\ slot[s].next = slot[u].next => s = u

(* An approval is in one place at a time: in its transaction, with one        *)
(* handler, in one code, or in one family.                                    *)
Open(x)  == x \in DOMAIN transactions /\ ~transactions[x].consumed
Loose(k) == k \in DOMAIN codes /\ ~codes[k].consumed
Holds(s) == slot[s].at \in {"decide", "exchange"}

OnePlace ==
    /\ OneGrantPerApproval
    /\ \A s, u \in Slots : Holds(s) /\ Holds(u) /\ slot[s].held.origin = slot[u].held.origin => s = u
    /\ \A k, l \in DOMAIN codes : Loose(k) /\ Loose(l) /\ codes[k].origin = codes[l].origin => k = l
    /\ \A s \in Slots : Holds(s) =>
          /\ ~Open(slot[s].held.origin)
          /\ \A k \in DOMAIN codes : Loose(k) => codes[k].origin # slot[s].held.origin
          /\ \A f \in DOMAIN families : families[f].origin # slot[s].held.origin
    /\ \A k \in DOMAIN codes : Loose(k) =>
          /\ ~Open(codes[k].origin)
          /\ \A f \in DOMAIN families : families[f].origin # codes[k].origin
    /\ \A f \in DOMAIN families : ~Open(families[f].origin)

(* A token that is not consumed is the newest of its family, and a replay     *)
(* revokes.                                                                   *)
Newest(t) == \A u \in DOMAIN tokens : u # t /\ tokens[u].family = tokens[t].family =>
                                         tokens[u].generation < tokens[t].generation

Chains ==
    /\ \A t \in DOMAIN tokens : tokens[t].expires > 0 /\ (~tokens[t].consumed => Newest(t))
    /\ \A t, u \in DOMAIN tokens : tokens[t].family = tokens[u].family
                                     /\ tokens[t].generation = tokens[u].generation => t = u
    /\ \A f \in DOMAIN families : families[f].replayed => families[f].revoked

OAuthInv == TableTypes /\ HandlerTypes /\ NextOnce /\ OnePlace /\ Chains

--------------------------------------------------------------------------------
(* Operators *)

(* A handler that ends holds nothing. *)
LEMMA EndedOne ==
    ASSUME slot \in [Slots -> HandlerType], NEW s \in Slots, Ended(s), minted' \in Nat
    PROVE  /\ slot' \in [Slots -> HandlerType] /\ slot'[s].at = "idle"
           /\ \A u \in Slots \ {s} : slot'[u] = slot[u]
           /\ HandlerInv(s)'
<1>1. NoRow \in HeldRow /\ NoRow.origin = 0
  BY DEF NoRow, HeldRow, AnyClient
<1>2. Idle \in HandlerType /\ Idle.at = "idle" /\ Idle.token = 0 /\ Idle.next = 0 /\ Idle.held.origin = 0
  BY <1>1 DEF Idle, HandlerType, Steps, AnyClient
<1>3. /\ slot' \in [Slots -> HandlerType] /\ slot'[s] = Idle
      /\ \A u \in Slots \ {s} : slot'[u] = slot[u]
  BY <1>2 DEF Ended
<1>4. QED
  BY <1>2, <1>3 DEF HandlerInv

(* A handler that moves keeps the rest of what it holds. *)
LEMMA MovedOne ==
    ASSUME slot \in [Slots -> HandlerType], NEW s \in Slots, NEW to \in Steps, Moved(s, to)
    PROVE  /\ slot' \in [Slots -> HandlerType] /\ slot'[s].at = to
           /\ slot'[s].client = slot[s].client /\ slot'[s].held = slot[s].held
           /\ slot'[s].token = slot[s].token /\ slot'[s].next = slot[s].next
           /\ \A u \in Slots \ {s} : slot'[u] = slot[u]
BY DEF Moved, HandlerType

--------------------------------------------------------------------------------
(* Steps *)

(* The other handlers keep what they rely on, unless a token is inserted      *)
(* under a number that one of them has drawn.                                 *)
LEMMA HandlersKept ==
    ASSUME OAuthInv, NEW s \in Slots, slot' \in [Slots -> HandlerType], HandlerInv(s)',
           minted' \in Nat, minted <= minted',
           \A u \in Slots \ {s} : /\ slot'[u] = slot[u]
                                  /\ slot[u].at = "rotate" => slot[u].next \notin DOMAIN tokens',
           slot'[s].at = "rotate" =>
              \A u \in Slots \ {s} : slot[u].at = "rotate" => slot[u].next # slot'[s].next
    PROVE  HandlerTypes' /\ NextOnce'
<1>1. ASSUME NEW u \in Slots \ {s} PROVE HandlerInv(u)'
  <2>1. /\ slot[u] \in HandlerType /\ HandlerInv(u) /\ minted \in Nat
        /\ slot[u].token \in Nat /\ slot[u].next \in Nat /\ slot[u].held.origin \in Nat
    BY DEF OAuthInv, HandlerTypes, HandlerType, HeldRow, TableTypes
  <2>2. QED
    BY <2>1 DEF HandlerInv
<1>2. NextOnce'
  BY DEF OAuthInv, NextOnce
<1>3. QED
  BY <1>1, <1>2 DEF HandlerTypes

(* A step that puts no approval anywhere new. *)
LEMMA NothingGranted ==
    ASSUME OAuthInv,
           \A x : Open(x)' => Open(x),
           \A s \in Slots : Holds(s)' => Holds(s) /\ slot'[s].held.origin = slot[s].held.origin,
           \A k \in DOMAIN codes' : Loose(k)' => Loose(k) /\ codes'[k].origin = codes[k].origin,
           \A f \in DOMAIN families' : f \in DOMAIN families /\ families'[f].origin = families[f].origin
    PROVE  OnePlace'
<1>1. \A k : Loose(k) => k \in DOMAIN codes
  BY DEF Loose
<1>2. OneGrantPerApproval'
  BY DEF OAuthInv, OnePlace, OneGrantPerApproval
<1>3. \A s, u \in Slots : Holds(s)' /\ Holds(u)' /\ slot'[s].held.origin = slot'[u].held.origin => s = u
  BY DEF OAuthInv, OnePlace
<1>4. \A k, l \in DOMAIN codes' : Loose(k)' /\ Loose(l)' /\ codes'[k].origin = codes'[l].origin => k = l
  BY <1>1 DEF OAuthInv, OnePlace
<1>5. ASSUME NEW s \in Slots, Holds(s)'
      PROVE  /\ ~Open(slot[s].held.origin)'
             /\ \A k \in DOMAIN codes' : Loose(k)' => codes'[k].origin # slot'[s].held.origin
             /\ \A f \in DOMAIN families' : families'[f].origin # slot'[s].held.origin
  <2>1. Holds(s) /\ slot'[s].held.origin = slot[s].held.origin
    BY <1>5
  <2>2. /\ ~Open(slot[s].held.origin)
        /\ \A k \in DOMAIN codes : Loose(k) => codes[k].origin # slot[s].held.origin
        /\ \A f \in DOMAIN families : families[f].origin # slot[s].held.origin
    BY <2>1 DEF OAuthInv, OnePlace
  <2>3. ~Open(slot[s].held.origin)'
    BY <2>1, <2>2 DEF Open
  <2>4. QED
    BY <1>1, <2>1, <2>2, <2>3
<1>6. ASSUME NEW k \in DOMAIN codes', Loose(k)'
      PROVE  /\ ~Open(codes[k].origin)'
             /\ \A f \in DOMAIN families' : families'[f].origin # codes'[k].origin
  <2>1. k \in DOMAIN codes /\ Loose(k) /\ codes'[k].origin = codes[k].origin
    BY <1>1, <1>6
  <2>2. /\ ~Open(codes[k].origin)
        /\ \A f \in DOMAIN families : families[f].origin # codes[k].origin
    BY <2>1 DEF OAuthInv, OnePlace
  <2>3. QED
    BY <2>1, <2>2 DEF Open
<1>7. ASSUME NEW f \in DOMAIN families' PROVE ~Open(families[f].origin)'
  <2>1. f \in DOMAIN families /\ families'[f].origin = families[f].origin /\ ~Open(families[f].origin)
    BY DEF OAuthInv, OnePlace
  <2>2. QED
    BY <2>1 DEF Open
<1>8. QED
  BY <1>2, <1>3, <1>4, <1>5, <1>6, <1>7 DEF OnePlace

(* A step that inserts no token and takes no consumption back. *)
LEMMA NothingRotated ==
    ASSUME OAuthInv,
           \A t \in DOMAIN tokens' : /\ t \in DOMAIN tokens
                                     /\ tokens'[t].family = tokens[t].family
                                     /\ tokens'[t].generation = tokens[t].generation
                                     /\ tokens'[t].expires = tokens[t].expires
                                     /\ tokens[t].consumed => tokens'[t].consumed,
           \A f \in DOMAIN families' : families'[f].replayed => families'[f].revoked
    PROVE  Chains'
<1>1. \A t \in DOMAIN tokens' : tokens'[t].expires > 0 /\ (~tokens'[t].consumed => Newest(t)')
  BY DEF OAuthInv, Chains, Newest
<1>2. \A t, u \in DOMAIN tokens' : tokens'[t].family = tokens'[u].family
                                     /\ tokens'[t].generation = tokens'[u].generation => t = u
  BY DEF OAuthInv, Chains
<1>3. QED
  BY <1>1, <1>2 DEF Chains

(* The tables keep their types when only numbers or the clock advance. *)
LEMMA TablesKept ==
    ASSUME OAuthInv, UNCHANGED tables, now' \in 0 .. MaxTime, minted' \in 0 .. MaxMinted, minted <= minted',
           delivered' \subseteq 1 .. minted'
    PROVE  TableTypes' /\ Chains'
<1>1. /\ minted \in Nat /\ minted' \in Nat /\ 1 .. minted \subseteq 1 .. minted'
      /\ UNCHANGED <<transactions, codes, families, tokens>>
  BY BoundAssumption DEF OAuthInv, TableTypes, tables
<1>2. /\ \A k \in DOMAIN codes : codes[k].origin <= minted'
      /\ \A f \in DOMAIN families : families[f].origin <= minted'
  BY <1>1 DEF OAuthInv, TableTypes, Code, Family
<1>3. TableTypes'
  BY <1>1, <1>2 DEF OAuthInv, TableTypes, Numbered
<1>4. Chains'
  BY <1>1 DEF OAuthInv, Chains, Newest
<1>5. QED
  BY <1>3, <1>4

(* A step that leaves the tables alone and gives its handler no approval.     *)
LEMMA QuietKeeps ==
    ASSUME OAuthInv, NEW s \in Slots, UNCHANGED <<now, tables>>, minted' \in 0 .. MaxMinted, minted <= minted',
           delivered' \subseteq 1 .. minted', slot' \in [Slots -> HandlerType], HandlerInv(s)',
           \A u \in Slots \ {s} : slot'[u] = slot[u], slot'[s].at \notin {"decide", "exchange"},
           slot'[s].at = "rotate" =>
              \A u \in Slots \ {s} : slot[u].at = "rotate" => slot[u].next # slot'[s].next
    PROVE  OAuthInv'
<1>1. TableTypes' /\ Chains'
  BY TablesKept DEF OAuthInv, TableTypes
<1>2. HandlerTypes' /\ NextOnce'
  <2>1. minted' \in Nat /\ tokens' = tokens
    BY BoundAssumption DEF tables
  <2>2. \A u \in Slots \ {s} : slot[u].at = "rotate" => slot[u].next \notin DOMAIN tokens'
    BY <2>1 DEF OAuthInv, HandlerTypes, HandlerInv
  <2>3. QED
    BY <2>1, <2>2, HandlersKept
<1>3. OnePlace'
  BY NothingGranted DEF tables, Open, Loose, Holds
<1>4. QED
  BY <1>1, <1>2, <1>3 DEF OAuthInv

(* Ending a handler, for whatever reason. *)
LEMMA EndKeeps ==
    ASSUME OAuthInv, NEW s \in Slots, UNCHANGED <<now, tables, minted>>, Ended(s), delivered' \subseteq 1 .. minted
    PROVE  OAuthInv'
<1>1. slot \in [Slots -> HandlerType] /\ minted \in Nat /\ minted \in 0 .. MaxMinted
  BY BoundAssumption DEF OAuthInv, HandlerTypes, TableTypes
<1>2. QED
  BY <1>1, EndedOne, QuietKeeps

--------------------------------------------------------------------------------
(* Handlers that leave the tables alone *)

(* The facts about a handler and the numbers. *)
LEMMA HandlerFacts ==
    ASSUME OAuthInv, NEW s \in Slots
    PROVE  /\ slot \in [Slots -> HandlerType] /\ slot[s] \in HandlerType /\ HandlerInv(s)
           /\ minted \in Nat /\ minted \in 0 .. MaxMinted /\ now \in Nat /\ now \in 0 .. MaxTime
           /\ delivered \subseteq 1 .. minted
           /\ slot[s].token \in Nat /\ slot[s].next \in Nat /\ slot[s].held \in HeldRow
           /\ slot[s].held.origin \in Nat /\ slot[s].held.origin <= minted
           /\ slot[s].client \in AnyClient /\ slot[s].held.client \in AnyClient
BY BoundAssumption DEF OAuthInv, TableTypes, HandlerTypes, HandlerType, HandlerInv, HeldRow

(* The successor is drawn before the rotation, so it is a number of its own. *)
LEMMA BeginRefreshKeeps ==
    ASSUME OAuthInv, NEW s \in Slots, NEW t \in delivered, NEW c \in Clients, BeginRefresh(s, t, c)
    PROVE  OAuthInv'
<1> DEFINE q == [Idle EXCEPT !.at = "rotate", !.client = c, !.time = now, !.token = t, !.next = minted + 1]
<1>1. /\ minted < MaxMinted /\ minted' = minted + 1 /\ UNCHANGED <<now, tables, delivered>>
      /\ slot' = [slot EXCEPT ![s] = q]
  BY DEF BeginRefresh
<1>2. t \in 1 .. minted /\ minted' \in 0 .. MaxMinted /\ minted <= minted' /\ 1 .. minted \subseteq 1 .. minted'
  BY <1>1, HandlerFacts, BoundAssumption
<1>3. NoRow \in HeldRow /\ NoRow.origin = 0
  BY DEF NoRow, HeldRow, AnyClient
<1>4. /\ q \in HandlerType /\ q.at = "rotate" /\ q.token = t /\ q.next = minted + 1 /\ q.held.origin = 0
  <2>1. now \in Nat /\ minted + 1 \in Nat /\ t \in Nat /\ c \in AnyClient
    BY <1>2, HandlerFacts DEF AnyClient
  <2>2. Idle \in HandlerType /\ Idle.held = NoRow
    BY <1>3 DEF Idle, HandlerType, Steps, AnyClient
  <2>3. QED
    BY <1>3, <2>1, <2>2 DEF HandlerType, Steps
<1> HIDE DEF q
<1>5. /\ slot' \in [Slots -> HandlerType] /\ slot'[s] = q
      /\ \A u \in Slots \ {s} : slot'[u] = slot[u]
  BY <1>1, <1>4, HandlerFacts
<1>6. minted + 1 \notin DOMAIN tokens'
  BY <1>1, HandlerFacts DEF OAuthInv, TableTypes, Numbered, tables
<1>7. HandlerInv(s)'
  BY <1>1, <1>2, <1>4, <1>5, <1>6, HandlerFacts DEF HandlerInv
<1>8. \A u \in Slots \ {s} : slot[u].next # slot'[s].next
  BY <1>4, <1>5, HandlerFacts DEF HandlerInv
<1>9. QED
  BY <1>1, <1>2, <1>4, <1>5, <1>7, <1>8, HandlerFacts, QuietKeeps

(* A replay is remembered by the number of its family. *)
LEMMA FindCurrentKeeps ==
    ASSUME OAuthInv, NEW s \in Slots, FindCurrent(s)
    PROVE  OAuthInv'
<1> DEFINE t == slot[s].token
<1>1. UNCHANGED <<now, tables, delivered, minted>>
  BY DEF FindCurrent
<1>2. CASE ~IsReplay(t)
  BY <1>1, <1>2, HandlerFacts, EndKeeps DEF FindCurrent
<1>3. CASE IsReplay(t)
  <2>1. slot' = [slot EXCEPT ![s].at = "replay", ![s].token = tokens[t].family]
    BY <1>3 DEF FindCurrent
  <2>2. tokens[t].family \in Nat /\ tokens[t].family <= minted
    BY <1>3, HandlerFacts DEF IsReplay, OAuthInv, TableTypes, Numbered, Token
  <2>3. /\ slot' \in [Slots -> HandlerType] /\ slot'[s].at = "replay" /\ slot'[s].token = tokens[t].family
        /\ slot'[s].next = slot[s].next /\ slot'[s].held = slot[s].held
        /\ \A u \in Slots \ {s} : slot'[u] = slot[u]
    BY <2>1, <2>2, HandlerFacts DEF HandlerType, Steps
  <2>4. HandlerInv(s)'
    BY <1>1, <2>2, <2>3, HandlerFacts DEF HandlerInv
  <2>5. QED
    BY <1>1, <2>3, <2>4, HandlerFacts, QuietKeeps
<1>4. QED
  BY <1>2, <1>3

(* The token is delivered, or the family is about to be revoked. *)
LEMMA IssueKeeps ==
    ASSUME OAuthInv, NEW s \in Slots, Issue(s)
    PROVE  OAuthInv'
<1>1. UNCHANGED <<now, tables, minted>>
  BY DEF Issue
<1>2. CASE delivered' = delivered \cup {slot[s].token} /\ Ended(s)
  <2>1. slot[s].token \in 1 .. minted
    BY HandlerFacts DEF HandlerInv, Issue, At
  <2>2. QED
    BY <1>1, <1>2, <2>1, HandlerFacts, EndKeeps
<1>3. CASE Moved(s, "revoke") /\ UNCHANGED delivered
  <2>1. /\ slot' \in [Slots -> HandlerType] /\ slot'[s].at = "revoke"
        /\ slot'[s].held = slot[s].held /\ slot'[s].token = slot[s].token /\ slot'[s].next = slot[s].next
        /\ \A u \in Slots \ {s} : slot'[u] = slot[u]
    BY <1>3, HandlerFacts, MovedOne DEF Steps
  <2>2. HandlerInv(s)'
    BY <1>1, <2>1, HandlerFacts DEF HandlerInv
  <2>3. QED
    BY <1>1, <1>3, <2>1, <2>2, HandlerFacts, QuietKeeps
<1>4. QED
  BY <1>2, <1>3 DEF Issue

--------------------------------------------------------------------------------
(* Approvals *)

(* A new transaction has a number that no grant goes back to. *)
LEMMA StartAuthorizationKeeps ==
    ASSUME OAuthInv, NEW c \in Clients, StartAuthorization(c)
    PROVE  OAuthInv'
<1> DEFINE n   == minted + 1
           row == [client |-> c, expires |-> now + TxnLife, consumed |-> FALSE]
<1>1. /\ minted < MaxMinted /\ minted' = n /\ transactions' = With(transactions, n, row)
      /\ UNCHANGED <<now, codes, families, tokens, slot, delivered>>
  BY DEF StartAuthorization
<1>2. TableTypes /\ minted \in Nat /\ now \in Nat /\ n \in 0 .. MaxMinted /\ 1 .. minted \subseteq 1 .. n
  BY <1>1, BoundAssumption DEF OAuthInv, TableTypes
<1>3. row \in Transaction
  BY <1>2, LifetimeAssumption DEF Transaction
<1> HIDE DEF row
<1>4. /\ DOMAIN transactions' = DOMAIN transactions \cup {n} /\ transactions'[n] = row
      /\ \A x \in DOMAIN transactions \ {n} : transactions'[x] = transactions[x]
  BY <1>1 DEF With
<1>5. /\ \A k \in DOMAIN codes : codes[k].origin \in Nat /\ codes[k].origin <= minted
      /\ \A f \in DOMAIN families : families[f].origin \in Nat /\ families[f].origin <= minted
      /\ \A s \in Slots : slot[s].held.origin \in Nat /\ slot[s].held.origin <= minted
  BY <1>2, HandlerFacts DEF TableTypes, Code, Family
<1>6. TableTypes'
  <2>1. Numbered(transactions)' /\ \A x \in DOMAIN transactions' : transactions'[x] \in Transaction
    BY <1>1, <1>2, <1>3, <1>4 DEF TableTypes, Numbered
  <2>2. /\ \A k \in DOMAIN codes : codes[k].origin <= n
        /\ \A f \in DOMAIN families : families[f].origin <= n
    BY <1>2, <1>5
  <2>3. QED
    BY <1>1, <1>2, <2>1, <2>2 DEF TableTypes, Numbered
<1>7. HandlerTypes' /\ NextOnce'
  <2>1. ASSUME NEW s \in Slots PROVE HandlerInv(s)'
    BY <1>1, HandlerFacts DEF HandlerInv
  <2>2. QED
    BY <1>1, <2>1 DEF OAuthInv, HandlerTypes, NextOnce
<1>8. OnePlace'
  <2>1. \A x : x # n => (Open(x)' <=> Open(x))
    BY <1>4 DEF Open
  <2>2. ASSUME NEW s \in Slots, Holds(s) PROVE ~Open(slot[s].held.origin)'
    <3>1. slot'[s].held.origin = slot[s].held.origin /\ slot[s].held.origin # n /\ ~Open(slot[s].held.origin)
      BY <1>1, <1>2, <1>5, <2>2 DEF OAuthInv, OnePlace
    <3>2. QED
      BY <1>4, <3>1 DEF Open
  <2>3. ASSUME NEW k \in DOMAIN codes, Loose(k) PROVE ~Open(codes[k].origin)'
    <3>1. codes'[k].origin = codes[k].origin /\ codes[k].origin # n /\ ~Open(codes[k].origin)
      BY <1>1, <1>2, <1>5, <2>3 DEF OAuthInv, OnePlace
    <3>2. QED
      BY <1>4, <3>1 DEF Open
  <2>4. ASSUME NEW f \in DOMAIN families PROVE ~Open(families[f].origin)'
    <3>1. families'[f].origin = families[f].origin /\ families[f].origin # n /\ ~Open(families[f].origin)
      BY <1>1, <1>2, <1>5 DEF OAuthInv, OnePlace
    <3>2. QED
      BY <1>4, <3>1 DEF Open
  <2>5. (\A s \in Slots : Holds(s)' <=> Holds(s)) /\ (\A k : Loose(k)' <=> Loose(k))
    BY <1>1 DEF Holds, Loose
  <2>6. QED
    BY <1>1, <2>2, <2>3, <2>4, <2>5 DEF OAuthInv, OnePlace, OneGrantPerApproval
<1>9. Chains'
  BY <1>1 DEF OAuthInv, Chains, Newest
<1>10. QED
  BY <1>6, <1>7, <1>8, <1>9 DEF OAuthInv

(* A step that moves the approval x to the one place (kind, p), and nothing   *)
(* else anywhere.                                                             *)
MovesTo(x, kind, p) ==
    /\ \A y : Open(y)' => Open(y) /\ y # x
    /\ \A u \in Slots : Holds(u)' =>
          \/ Holds(u) /\ slot'[u].held.origin = slot[u].held.origin /\ slot[u].held.origin # x
          \/ kind = "handler" /\ u = p /\ slot'[u].held.origin = x
    /\ \A k \in DOMAIN codes' : Loose(k)' =>
          \/ k \in DOMAIN codes /\ Loose(k) /\ codes'[k].origin = codes[k].origin /\ codes[k].origin # x
          \/ kind = "code" /\ k = p /\ codes'[k].origin = x
    /\ \A f \in DOMAIN families' :
          \/ f \in DOMAIN families /\ families'[f].origin = families[f].origin /\ families[f].origin # x
          \/ kind = "family" /\ f = p /\ families'[f].origin = x

(* Such a step keeps every approval in one place. *)
LEMMA ApprovalMoves ==
    ASSUME OAuthInv, NEW x, NEW kind, NEW p, MovesTo(x, kind, p)
    PROVE  OnePlace'
<1> USE DEF MovesTo
<1>1. OneGrantPerApproval'
  BY DEF OAuthInv, OnePlace, OneGrantPerApproval
<1>2. \A s, u \in Slots : Holds(s)' /\ Holds(u)' /\ slot'[s].held.origin = slot'[u].held.origin => s = u
  BY DEF OAuthInv, OnePlace
<1>3. \A k, l \in DOMAIN codes' : Loose(k)' /\ Loose(l)' /\ codes'[k].origin = codes'[l].origin => k = l
  BY DEF OAuthInv, OnePlace
<1>4. ASSUME NEW s \in Slots, Holds(s)'
      PROVE  /\ ~Open(slot[s].held.origin)'
             /\ \A k \in DOMAIN codes' : Loose(k)' => codes'[k].origin # slot'[s].held.origin
             /\ \A f \in DOMAIN families' : families'[f].origin # slot'[s].held.origin
  <2>1. CASE Holds(s) /\ slot'[s].held.origin = slot[s].held.origin /\ slot[s].held.origin # x
    <3>1. /\ ~Open(slot[s].held.origin)
          /\ \A k \in DOMAIN codes : Loose(k) => codes[k].origin # slot[s].held.origin
          /\ \A f \in DOMAIN families : families[f].origin # slot[s].held.origin
      BY <2>1 DEF OAuthInv, OnePlace
    <3>2. ~Open(slot[s].held.origin)'
      BY <2>1, <3>1 DEF Open
    <3>3. QED
      BY <2>1, <3>1, <3>2
  <2>2. CASE kind = "handler" /\ s = p /\ slot'[s].held.origin = x
    <3>1. ~Open(slot[s].held.origin)'
      BY <2>2 DEF Open
    <3>2. QED
      BY <2>2, <3>1
  <2>3. QED
    BY <1>4, <2>1, <2>2
<1>5. ASSUME NEW k \in DOMAIN codes', Loose(k)'
      PROVE  /\ ~Open(codes[k].origin)'
             /\ \A f \in DOMAIN families' : families'[f].origin # codes'[k].origin
  <2>1. CASE k \in DOMAIN codes /\ Loose(k) /\ codes'[k].origin = codes[k].origin /\ codes[k].origin # x
    <3>1. ~Open(codes[k].origin) /\ \A f \in DOMAIN families : families[f].origin # codes[k].origin
      BY <2>1 DEF OAuthInv, OnePlace
    <3>2. ~Open(codes[k].origin)'
      BY <2>1, <3>1 DEF Open
    <3>3. QED
      BY <2>1, <3>1, <3>2
  <2>2. CASE kind = "code" /\ k = p /\ codes'[k].origin = x
    <3>1. ~Open(codes[k].origin)'
      BY <2>2 DEF Open
    <3>2. QED
      BY <2>2, <3>1
  <2>3. QED
    BY <1>5, <2>1, <2>2
<1>6. ASSUME NEW f \in DOMAIN families' PROVE ~Open(families[f].origin)'
  <2>1. CASE f \in DOMAIN families /\ families'[f].origin = families[f].origin /\ families[f].origin # x
    <3>1. ~Open(families[f].origin)
      BY <2>1 DEF OAuthInv, OnePlace
    <3>2. QED
      BY <2>1, <3>1 DEF Open
  <2>2. CASE kind = "family" /\ f = p /\ families'[f].origin = x
    BY <2>2 DEF Open
  <2>3. QED
    BY <2>1, <2>2
<1>7. QED
  BY <1>1, <1>2, <1>3, <1>4, <1>5, <1>6 DEF OnePlace

(* The handler that takes a transaction is the only one that has its approval. *)
LEMMA TakeTransactionKeeps ==
    ASSUME OAuthInv, NEW s \in Slots, NEW x \in DOMAIN transactions, TakeTransaction(s, x)
    PROVE  OAuthInv'
<1> DEFINE h == [client |-> transactions[x].client, origin |-> x, expires |-> transactions[x].expires]
<1>1. /\ transactions' = [transactions EXCEPT ![x].consumed = TRUE] /\ Open(x)
      /\ slot' = [slot EXCEPT ![s].at = "decide", ![s].held = h]
      /\ UNCHANGED <<now, codes, families, tokens, delivered, minted>>
  BY DEF TakeTransaction, Takeable, Open
<1>2. /\ TableTypes /\ transactions[x] \in Transaction /\ x \in 1 .. minted /\ x \in Nat /\ minted \in Nat
      /\ x <= minted
  BY HandlerFacts DEF OAuthInv, TableTypes, Numbered
<1>3. h \in HeldRow /\ h.origin = x
  BY <1>2 DEF HeldRow, Transaction, AnyClient
<1> HIDE DEF h
<1>4. /\ DOMAIN transactions' = DOMAIN transactions /\ transactions'[x] \in Transaction /\ transactions'[x].consumed
      /\ \A y \in DOMAIN transactions \ {x} : transactions'[y] = transactions[y]
  BY <1>1, <1>2 DEF Transaction
<1>5. /\ slot' \in [Slots -> HandlerType] /\ slot'[s].at = "decide" /\ slot'[s].held = h
      /\ slot'[s].token = slot[s].token /\ slot'[s].next = slot[s].next
      /\ \A u \in Slots \ {s} : slot'[u] = slot[u]
  BY <1>1, <1>3, HandlerFacts DEF HandlerType, Steps
<1>6. TableTypes'
  BY <1>1, <1>2, <1>4 DEF TableTypes, Numbered
<1>7. HandlerTypes' /\ NextOnce'
  <2>1. HandlerInv(s)'
    BY <1>1, <1>2, <1>3, <1>5, HandlerFacts DEF HandlerInv
  <2>2. \A u \in Slots \ {s} : slot[u].at = "rotate" => slot[u].next \notin DOMAIN tokens'
    BY <1>1 DEF OAuthInv, HandlerTypes, HandlerInv
  <2>3. QED
    BY <1>1, <1>2, <1>5, <2>1, <2>2, HandlersKept
<1>8. OnePlace'
  <2>1. \A y : Open(y)' => Open(y) /\ y # x
    BY <1>4 DEF Open
  <2>2. \A u \in Slots : Holds(u)' => \/ u = s /\ slot'[u].held.origin = x
                                      \/ u # s /\ Holds(u) /\ slot'[u].held = slot[u].held
    BY <1>3, <1>5 DEF Holds
  <2>3. (\A k : Loose(k)' <=> Loose(k)) /\ codes' = codes /\ families' = families
    BY <1>1 DEF Loose
  <2>4. /\ \A u \in Slots : Holds(u) => slot[u].held.origin # x
        /\ \A k \in DOMAIN codes : Loose(k) => codes[k].origin # x
        /\ \A f \in DOMAIN families : families[f].origin # x
    BY <1>1 DEF OAuthInv, OnePlace
  <2>5. MovesTo(x, "handler", s)
    BY <2>1, <2>2, <2>3, <2>4 DEF MovesTo
  <2>6. QED
    BY <2>5, ApprovalMoves
<1>9. Chains'
  BY <1>1 DEF OAuthInv, Chains, Newest
<1>10. QED
  BY <1>6, <1>7, <1>8, <1>9 DEF OAuthInv

(* A consent that is approved becomes one code. *)
LEMMA ApproveConsentKeeps ==
    ASSUME OAuthInv, NEW s \in Slots, ApproveConsent(s)
    PROVE  OAuthInv'
<1> DEFINE n   == minted + 1
           row == [client |-> slot[s].held.client, origin |-> slot[s].held.origin,
                   expires |-> now + CodeLife, consumed |-> FALSE]
<1>1. /\ minted < MaxMinted /\ minted' = n /\ codes' = With(codes, n, row) /\ Ended(s) /\ Holds(s)
      /\ UNCHANGED <<now, transactions, families, tokens, delivered>>
  BY DEF ApproveConsent, At, Holds
<1>2. TableTypes /\ minted \in Nat /\ now \in Nat /\ n \in 0 .. MaxMinted /\ 1 .. minted \subseteq 1 .. n
  BY <1>1, BoundAssumption DEF OAuthInv, TableTypes
<1>3. row \in Code /\ row.origin = slot[s].held.origin /\ row.origin <= n
  BY <1>2, HandlerFacts, LifetimeAssumption DEF Code
<1> HIDE DEF row
<1>4. /\ DOMAIN codes' = DOMAIN codes \cup {n} /\ codes'[n] = row
      /\ \A k \in DOMAIN codes \ {n} : codes'[k] = codes[k]
  BY <1>1 DEF With
<1>5. n \notin DOMAIN codes
  BY <1>2 DEF TableTypes, Numbered
<1>6. TableTypes'
  <2>1. \A k \in DOMAIN codes : codes[k].origin <= n
    BY <1>2 DEF TableTypes, Code
  <2>2. \A f \in DOMAIN families : families[f].origin <= n
    BY <1>2 DEF TableTypes, Family
  <2>3. Numbered(codes)' /\ \A k \in DOMAIN codes' : codes'[k] \in Code /\ codes'[k].origin <= n
    BY <1>1, <1>2, <1>3, <1>4, <2>1 DEF TableTypes, Numbered
  <2>4. QED
    BY <1>1, <1>2, <2>2, <2>3 DEF TableTypes, Numbered
<1>7. /\ slot' \in [Slots -> HandlerType] /\ slot'[s].at = "idle" /\ HandlerInv(s)'
      /\ \A u \in Slots \ {s} : slot'[u] = slot[u]
  BY <1>1, <1>2, HandlerFacts, EndedOne
<1>8. HandlerTypes' /\ NextOnce'
  <2>1. \A u \in Slots \ {s} : slot[u].at = "rotate" => slot[u].next \notin DOMAIN tokens'
    BY <1>1 DEF OAuthInv, HandlerTypes, HandlerInv
  <2>2. minted' \in Nat /\ minted <= minted'
    BY <1>1, <1>2
  <2>3. QED
    BY <1>7, <2>1, <2>2, HandlersKept
<1>9. OnePlace'
  <2> DEFINE x == slot[s].held.origin
  <2>1. /\ ~Open(x)
        /\ \A k \in DOMAIN codes : Loose(k) => codes[k].origin # x
        /\ \A f \in DOMAIN families : families[f].origin # x
        /\ \A u \in Slots \ {s} : Holds(u) => slot[u].held.origin # x
    BY <1>1 DEF OAuthInv, OnePlace
  <2>2. \A y : Open(y)' => Open(y) /\ y # x
    BY <1>1, <2>1 DEF Open
  <2>3. \A u \in Slots : Holds(u)' =>
           Holds(u) /\ slot'[u].held.origin = slot[u].held.origin /\ slot[u].held.origin # x
    BY <1>7, <2>1 DEF Holds
  <2>4. \A k \in DOMAIN codes' : Loose(k)' =>
          \/ k \in DOMAIN codes /\ Loose(k) /\ codes'[k].origin = codes[k].origin /\ codes[k].origin # x
          \/ k = n /\ codes'[k].origin = x
    BY <1>3, <1>4, <1>5, <2>1 DEF Loose
  <2>5. MovesTo(x, "code", n)
    BY <1>1, <2>1, <2>2, <2>3, <2>4 DEF MovesTo
  <2> HIDE DEF x, n
  <2>6. QED
    BY <2>5, ApprovalMoves
<1>10. Chains'
  BY <1>1 DEF OAuthInv, Chains, Newest
<1>11. QED
  BY <1>6, <1>8, <1>9, <1>10 DEF OAuthInv

(* The handler that takes a code is the only one that has its approval. *)
LEMMA TakeCodeKeeps ==
    ASSUME OAuthInv, NEW s \in Slots, NEW k \in DOMAIN codes, NEW c \in Clients, TakeCode(s, k, c)
    PROVE  OAuthInv'
<1> DEFINE h == [client |-> codes[k].client, origin |-> codes[k].origin, expires |-> codes[k].expires]
           x == codes[k].origin
<1>1. /\ codes' = [codes EXCEPT ![k].consumed = TRUE] /\ Loose(k)
      /\ slot' = [slot EXCEPT ![s].at = "exchange", ![s].client = c, ![s].held = h]
      /\ UNCHANGED <<now, transactions, families, tokens, delivered, minted>>
  BY DEF TakeCode, Takeable, Loose
<1>2. TableTypes /\ codes[k] \in Code /\ x \in Nat /\ minted \in Nat /\ x <= minted
  BY HandlerFacts DEF OAuthInv, TableTypes, Code
<1>3. h \in HeldRow /\ h.origin = x
  BY <1>2 DEF HeldRow, Code
<1> HIDE DEF h
<1>4. /\ DOMAIN codes' = DOMAIN codes /\ codes'[k] \in Code /\ codes'[k].consumed /\ codes'[k].origin = x
      /\ \A l \in DOMAIN codes \ {k} : codes'[l] = codes[l]
  BY <1>1, <1>2 DEF Code
<1>5. /\ slot' \in [Slots -> HandlerType] /\ slot'[s].at = "exchange" /\ slot'[s].held = h /\ slot'[s].client = c
      /\ slot'[s].token = slot[s].token /\ slot'[s].next = slot[s].next
      /\ \A u \in Slots \ {s} : slot'[u] = slot[u]
  <2>1. c \in AnyClient
    BY DEF AnyClient
  <2>2. QED
    BY <1>1, <1>3, <2>1, HandlerFacts DEF HandlerType, Steps
<1>6. TableTypes'
  BY <1>1, <1>2, <1>4 DEF TableTypes, Numbered
<1>7. HandlerTypes' /\ NextOnce'
  <2>1. HandlerInv(s)'
    BY <1>1, <1>2, <1>3, <1>5, HandlerFacts DEF HandlerInv
  <2>2. \A u \in Slots \ {s} : slot[u].at = "rotate" => slot[u].next \notin DOMAIN tokens'
    BY <1>1 DEF OAuthInv, HandlerTypes, HandlerInv
  <2>3. QED
    BY <1>1, <1>2, <1>5, <2>1, <2>2, HandlersKept
<1>8. OnePlace'
  <2>1. /\ ~Open(x)
        /\ \A l \in DOMAIN codes \ {k} : Loose(l) => codes[l].origin # x
        /\ \A f \in DOMAIN families : families[f].origin # x
        /\ \A u \in Slots : Holds(u) => slot[u].held.origin # x
    BY <1>1 DEF OAuthInv, OnePlace
  <2>2. \A y : Open(y)' => Open(y) /\ y # x
    BY <1>1, <2>1 DEF Open
  <2>3. \A u \in Slots : Holds(u)' =>
          \/ Holds(u) /\ slot'[u].held.origin = slot[u].held.origin /\ slot[u].held.origin # x
          \/ u = s /\ slot'[u].held.origin = x
    BY <1>3, <1>5, <2>1 DEF Holds
  <2>4. \A l \in DOMAIN codes' : Loose(l)' =>
          l \in DOMAIN codes /\ Loose(l) /\ codes'[l].origin = codes[l].origin /\ codes[l].origin # x
    BY <1>4, <2>1 DEF Loose
  <2>5. MovesTo(x, "handler", s)
    BY <1>1, <2>1, <2>2, <2>3, <2>4 DEF MovesTo
  <2> HIDE DEF x
  <2>6. QED
    BY <2>5, ApprovalMoves
<1>9. Chains'
  BY <1>1 DEF OAuthInv, Chains, Newest
<1>10. QED
  BY <1>6, <1>7, <1>8, <1>9 DEF OAuthInv

--------------------------------------------------------------------------------
(* Families of tokens *)

(* The exchange gives the approval to one new family, which nothing refers to *)
(* before.                                                                    *)
LEMMA PutInitialKeeps ==
    ASSUME OAuthInv, NEW s \in Slots, PutInitial(s)
    PROVE  OAuthInv'
<1> DEFINE n   == minted + 1
           fam == [client |-> slot[s].client, origin |-> slot[s].held.origin,
                   revoked |-> FALSE, replayed |-> FALSE]
           tok == [family |-> n, generation |-> 0, expires |-> now + RefreshLife,
                   consumed |-> FALSE, successor |-> 0]
<1>1. /\ minted < MaxMinted /\ minted' = n /\ slot[s].at = "exchange"
      /\ families' = With(families, n, fam) /\ tokens' = With(tokens, n, tok)
      /\ slot' = [slot EXCEPT ![s].at = "issue", ![s].token = n]
      /\ UNCHANGED <<now, transactions, codes, delivered>>
  BY DEF PutInitial, At
<1>2. /\ TableTypes /\ minted \in Nat /\ now \in Nat /\ n \in 0 .. MaxMinted /\ n \in Nat /\ n > 0
      /\ 1 .. minted \subseteq 1 .. n /\ n \in 1 .. n /\ minted <= n
  BY <1>1, BoundAssumption DEF OAuthInv, TableTypes
<1>3. /\ fam \in Family /\ fam.origin = slot[s].held.origin /\ ~fam.replayed /\ fam.origin <= n
  <2>1. slot[s].client \in Clients
    BY <1>1, HandlerFacts DEF HandlerInv
  <2>2. QED
    BY <1>2, <2>1, HandlerFacts DEF Family
<1>4. /\ tok \in Token /\ tok.family = n /\ tok.generation = 0 /\ tok.expires > 0
  BY <1>2, LifetimeAssumption DEF Token
<1> HIDE DEF fam, tok
<1>5. /\ DOMAIN families' = DOMAIN families \cup {n} /\ families'[n] = fam
      /\ \A f \in DOMAIN families \ {n} : families'[f] = families[f]
  BY <1>1 DEF With
<1>6. /\ DOMAIN tokens' = DOMAIN tokens \cup {n} /\ tokens'[n] = tok
      /\ \A t \in DOMAIN tokens \ {n} : tokens'[t] = tokens[t]
  BY <1>1 DEF With
<1>7. n \notin DOMAIN families /\ n \notin DOMAIN tokens
  BY <1>2 DEF TableTypes, Numbered
<1>8. \A t \in DOMAIN tokens : tokens'[t] = tokens[t] /\ tokens[t].family \in DOMAIN families /\ tokens[t].family # n
  BY <1>2, <1>6, <1>7 DEF TableTypes
<1>9. TableTypes'
  <2>1. \A k \in DOMAIN codes : codes[k].origin <= n
    BY <1>2 DEF TableTypes, Code
  <2>2. \A f \in DOMAIN families : families[f].origin <= n
    BY <1>2 DEF TableTypes, Family
  <2>3. Numbered(families)' /\ \A f \in DOMAIN families' : families'[f] \in Family /\ families'[f].origin <= n
    BY <1>1, <1>2, <1>3, <1>5, <2>2 DEF TableTypes, Numbered
  <2>4. Numbered(tokens)' /\ \A t \in DOMAIN tokens' : tokens'[t] \in Token /\ tokens'[t].family \in DOMAIN families'
    BY <1>1, <1>2, <1>4, <1>5, <1>6, <1>8 DEF TableTypes, Numbered
  <2>5. QED
    BY <1>1, <1>2, <2>1, <2>3, <2>4 DEF TableTypes, Numbered
<1>10. /\ slot' \in [Slots -> HandlerType] /\ slot'[s].at = "issue" /\ slot'[s].token = n
       /\ slot'[s].held = slot[s].held /\ slot'[s].next = slot[s].next
       /\ \A u \in Slots \ {s} : slot'[u] = slot[u]
  BY <1>1, <1>2, HandlerFacts DEF HandlerType, Steps
<1>11. HandlerTypes' /\ NextOnce'
  <2>1. HandlerInv(s)'
    BY <1>1, <1>2, <1>10, HandlerFacts DEF HandlerInv
  <2>2. \A u \in Slots \ {s} : slot[u].at = "rotate" => slot[u].next \notin DOMAIN tokens'
    BY <1>6, HandlerFacts DEF HandlerInv
  <2>3. QED
    BY <1>1, <1>2, <1>10, <2>1, <2>2, HandlersKept
<1>12. OnePlace'
  <2> DEFINE x == slot[s].held.origin
  <2>1. /\ ~Open(x)
        /\ \A k \in DOMAIN codes : Loose(k) => codes[k].origin # x
        /\ \A f \in DOMAIN families : families[f].origin # x
        /\ \A u \in Slots \ {s} : Holds(u) => slot[u].held.origin # x
    BY <1>1 DEF OAuthInv, OnePlace, Holds
  <2>2. \A y : Open(y)' => Open(y) /\ y # x
    BY <1>1, <2>1 DEF Open
  <2>3. \A u \in Slots : Holds(u)' =>
           Holds(u) /\ slot'[u].held.origin = slot[u].held.origin /\ slot[u].held.origin # x
    BY <1>10, <2>1 DEF Holds
  <2>4. \A k \in DOMAIN codes' : Loose(k)' =>
           k \in DOMAIN codes /\ Loose(k) /\ codes'[k].origin = codes[k].origin /\ codes[k].origin # x
    BY <1>1, <2>1 DEF Loose
  <2>5. \A f \in DOMAIN families' :
          \/ f \in DOMAIN families /\ families'[f].origin = families[f].origin /\ families[f].origin # x
          \/ f = n /\ families'[f].origin = x
    BY <1>3, <1>5, <1>7, <2>1
  <2>6. MovesTo(x, "family", n)
    BY <2>2, <2>3, <2>4, <2>5 DEF MovesTo
  <2> HIDE DEF x, n
  <2>7. QED
    BY <2>6, ApprovalMoves
<1>13. Chains'
  <2>1. ASSUME NEW t \in DOMAIN tokens', ~tokens'[t].consumed PROVE Newest(t)'
    <3>1. CASE t = n
      BY <1>4, <1>6, <1>8, <3>1 DEF Newest
    <3>2. CASE t # n
      <4>1. t \in DOMAIN tokens /\ tokens'[t] = tokens[t] /\ Newest(t)
        BY <1>6, <2>1, <3>2 DEF OAuthInv, Chains
      <4>2. QED
        BY <1>4, <1>6, <1>8, <4>1 DEF Newest
    <3>3. QED
      BY <3>1, <3>2
  <2>2. \A t \in DOMAIN tokens' : tokens'[t].expires > 0
    BY <1>4, <1>6, <1>8 DEF OAuthInv, Chains
  <2>3. \A t, u \in DOMAIN tokens' : tokens'[t].family = tokens'[u].family
                                       /\ tokens'[t].generation = tokens'[u].generation => t = u
    BY <1>4, <1>6, <1>8 DEF OAuthInv, Chains
  <2>4. \A f \in DOMAIN families' : families'[f].replayed => families'[f].revoked
    BY <1>3, <1>5 DEF OAuthInv, Chains
  <2>5. QED
    BY <2>1, <2>2, <2>3, <2>4 DEF Chains
<1>14. QED
  BY <1>9, <1>11, <1>12, <1>13 DEF OAuthInv

(* What a rotation writes. *)
LEMMA RotatedRows ==
    ASSUME OAuthInv, NEW t \in DOMAIN tokens, NEW next \in Nat, next \notin DOMAIN tokens,
           tokens' = Rotated(t, next)
    PROVE  /\ DOMAIN tokens' = DOMAIN tokens \cup {next}
           /\ \A u \in DOMAIN tokens \ {t} : tokens'[u] = tokens[u]
           /\ tokens'[t] \in Token /\ tokens'[t].consumed /\ tokens'[t].family = tokens[t].family
           /\ tokens'[t].generation = tokens[t].generation /\ tokens'[t].expires = tokens[t].expires
           /\ tokens'[next] \in Token /\ tokens'[next].family = tokens[t].family
           /\ tokens'[next].generation = tokens[t].generation + 1 /\ tokens'[next].expires = tokens[t].expires
<1> DEFINE old == [tokens EXCEPT ![t].consumed = TRUE, ![t].successor = next]
           row == [family |-> tokens[t].family, generation |-> tokens[t].generation + 1,
                   expires |-> tokens[t].expires, consumed |-> FALSE, successor |-> 0]
<1>1. tokens[t] \in Token /\ tokens' = With(old, next, row)
  BY DEF OAuthInv, TableTypes, Rotated
<1>2. /\ row \in Token /\ row.family = tokens[t].family /\ row.generation = tokens[t].generation + 1
      /\ row.expires = tokens[t].expires
  BY <1>1 DEF Token
<1>3. /\ DOMAIN old = DOMAIN tokens /\ \A u \in DOMAIN tokens \ {t} : old[u] = tokens[u]
      /\ old[t] \in Token /\ old[t].consumed /\ old[t].family = tokens[t].family
      /\ old[t].generation = tokens[t].generation /\ old[t].expires = tokens[t].expires
  BY <1>1 DEF Token
<1> HIDE DEF old, row
<1>4. /\ DOMAIN tokens' = DOMAIN old \cup {next} /\ tokens'[next] = row
      /\ \A u \in DOMAIN old \ {next} : tokens'[u] = old[u]
  BY <1>1 DEF With
<1>5. QED
  BY <1>2, <1>3, <1>4

(* A rotation consumes the newest token, and its successor becomes the newest. *)
LEMMA RotateKeeps ==
    ASSUME OAuthInv, NEW s \in Slots, Rotate(s)
    PROVE  OAuthInv'
<1> DEFINE t == slot[s].token
           n == slot[s].next
<1>1. UNCHANGED <<now, transactions, codes, families, delivered, minted>> /\ slot[s].at = "rotate"
  BY DEF Rotate, At
<1>2. /\ TableTypes /\ minted \in Nat /\ n \in Nat /\ n <= minted /\ n > 0 /\ n \in 1 .. minted
      /\ n \notin DOMAIN tokens
  BY <1>1, HandlerFacts DEF HandlerInv, OAuthInv
<1>3. CASE ~Rotatable(s)
  <2>1. Moved(s, "find") /\ UNCHANGED tokens
    BY <1>3 DEF Rotate
  <2>2. /\ slot' \in [Slots -> HandlerType] /\ slot'[s].at = "find"
        /\ slot'[s].held = slot[s].held /\ slot'[s].token = slot[s].token /\ slot'[s].next = slot[s].next
        /\ \A u \in Slots \ {s} : slot'[u] = slot[u]
    BY <2>1, HandlerFacts, MovedOne DEF Steps
  <2>3. HandlerInv(s)'
    BY <1>1, <2>2, HandlerFacts DEF HandlerInv
  <2>4. UNCHANGED tables
    BY <1>1, <2>1 DEF tables
  <2>5. QED
    BY <1>1, <2>2, <2>3, <2>4, HandlerFacts, QuietKeeps
<1>4. CASE Rotatable(s)
  <2> DEFINE to == IF families[tokens[t].family].client = slot[s].client THEN "issue" ELSE "revoke"
  <2>1. /\ tokens' = Rotated(t, n) /\ slot' = [slot EXCEPT ![s].token = n, ![s].at = to]
    BY <1>4 DEF Rotate
  <2>2. t \in DOMAIN tokens /\ ~tokens[t].consumed /\ tokens[t] \in Token /\ tokens[t].family \in DOMAIN families
    BY <1>2, <1>4 DEF Rotatable, Usable, TableTypes
  <2>3. to \in {"issue", "revoke"}
    OBVIOUS
  <2> HIDE DEF to
  <2>4. /\ slot' \in [Slots -> HandlerType] /\ slot'[s].at \in {"issue", "revoke"} /\ slot'[s].token = n
        /\ slot'[s].held = slot[s].held /\ slot'[s].next = slot[s].next
        /\ \A u \in Slots \ {s} : slot'[u] = slot[u]
    BY <1>2, <2>1, <2>3, HandlerFacts DEF HandlerType, Steps
  <2>5. /\ DOMAIN tokens' = DOMAIN tokens \cup {n}
        /\ \A u \in DOMAIN tokens \ {t} : tokens'[u] = tokens[u]
        /\ tokens'[t] \in Token /\ tokens'[t].consumed /\ tokens'[t].family = tokens[t].family
        /\ tokens'[t].generation = tokens[t].generation /\ tokens'[t].expires = tokens[t].expires
        /\ tokens'[n] \in Token /\ tokens'[n].family = tokens[t].family
        /\ tokens'[n].generation = tokens[t].generation + 1 /\ tokens'[n].expires = tokens[t].expires
    BY <1>2, <2>1, <2>2, RotatedRows
  <2> HIDE DEF t, n
  <2>6. TableTypes'
    BY <1>1, <1>2, <2>2, <2>5 DEF TableTypes, Numbered
  <2>7. HandlerTypes' /\ NextOnce'
    <3>1. HandlerInv(s)'
      BY <1>1, <1>2, <2>4, HandlerFacts DEF HandlerInv
    <3>2. \A u \in Slots \ {s} : slot[u].at = "rotate" => slot[u].next \notin DOMAIN tokens'
      BY <1>1, <2>5 DEF OAuthInv, HandlerTypes, HandlerInv, NextOnce, n
    <3>3. QED
      BY <1>1, <1>2, <2>4, <3>1, <3>2, HandlersKept
  <2>8. OnePlace'
    <3>1. (\A x : Open(x)' => Open(x)) /\ (\A k \in DOMAIN codes' : Loose(k)' => Loose(k))
      BY <1>1 DEF Open, Loose
    <3>2. \A u \in Slots : Holds(u)' => Holds(u) /\ slot'[u].held.origin = slot[u].held.origin
      BY <2>4 DEF Holds
    <3>3. QED
      BY <1>1, <3>1, <3>2, NothingGranted
  <2>9. Chains'
    <3>1. /\ \A u \in DOMAIN tokens : /\ tokens'[u].family = tokens[u].family
                                      /\ tokens'[u].generation = tokens[u].generation
                                      /\ tokens'[u].expires = tokens[u].expires /\ tokens[u].generation \in Nat
                                      /\ ~tokens'[u].consumed => u # t /\ ~tokens[u].consumed
      BY <1>2, <2>5 DEF TableTypes, Token
    <3>2. /\ \A u \in DOMAIN tokens : tokens[u].expires > 0 /\ (~tokens[u].consumed => Newest(u))
          /\ \A u, w \in DOMAIN tokens : tokens[u].family = tokens[w].family
                                           /\ tokens[u].generation = tokens[w].generation => u = w
          /\ \A f \in DOMAIN families : families[f].replayed => families[f].revoked
      BY DEF OAuthInv, Chains
    <3>3. \A u \in DOMAIN tokens : u # t /\ tokens[u].family = tokens[t].family =>
                                      tokens[u].generation < tokens[t].generation
      BY <2>2, <3>2 DEF Newest
    <3>4. \A u \in DOMAIN tokens : tokens[u].family = tokens[t].family =>
                                      tokens'[u].generation < tokens'[n].generation
      BY <2>2, <2>5, <3>1, <3>3
    <3>5. \A u \in DOMAIN tokens : ~tokens'[u].consumed => tokens[u].family # tokens[t].family
      <4>1. SUFFICES ASSUME NEW u \in DOMAIN tokens, ~tokens'[u].consumed, tokens[u].family = tokens[t].family
                     PROVE  FALSE
        OBVIOUS
      <4>2. u # t /\ ~tokens[u].consumed
        BY <3>1, <4>1
      <4>3. tokens[u].generation < tokens[t].generation /\ tokens[t].generation < tokens[u].generation
        BY <2>2, <3>2, <3>3, <4>1, <4>2 DEF Newest
      <4>4. QED
        BY <2>2, <3>1, <4>3
    <3>6. ASSUME NEW u \in DOMAIN tokens', ~tokens'[u].consumed PROVE Newest(u)'
      <4>1. CASE u = n
        BY <2>5, <3>1, <3>4, <4>1 DEF Newest
      <4>2. CASE u \in DOMAIN tokens
        <5>1. Newest(u) /\ tokens[u].family # tokens[t].family
          BY <3>1, <3>2, <3>5, <3>6, <4>2
        <5>2. QED
          BY <2>5, <3>1, <4>2, <5>1 DEF Newest
      <4>3. QED
        BY <2>5, <4>1, <4>2
    <3>7. \A u, w \in DOMAIN tokens' : tokens'[u].family = tokens'[w].family
                                         /\ tokens'[u].generation = tokens'[w].generation => u = w
      <4>1. \A u \in DOMAIN tokens : tokens[u].family = tokens[t].family =>
                                        tokens'[u].generation # tokens'[n].generation
        BY <2>2, <2>5, <3>1, <3>4
      <4>2. QED
        BY <2>5, <3>1, <3>2, <4>1
    <3>8. \A u \in DOMAIN tokens' : tokens'[u].expires > 0
      BY <2>2, <2>5, <3>1, <3>2
    <3>9. QED
      BY <1>1, <3>2, <3>6, <3>7, <3>8 DEF Chains
  <2>10. QED
    BY <2>6, <2>7, <2>8, <2>9 DEF OAuthInv
<1>5. QED
  BY <1>3, <1>4

(* A step that only revokes families and consumes tokens. *)
LEMMA RevocationKeeps ==
    ASSUME OAuthInv, UNCHANGED <<now, transactions, codes, delivered, minted>>,
           DOMAIN families' = DOMAIN families, DOMAIN tokens' = DOMAIN tokens,
           \A f \in DOMAIN families : /\ families'[f] \in Family /\ families'[f].origin = families[f].origin
                                      /\ families'[f].replayed => families'[f].revoked,
           \A t \in DOMAIN tokens : /\ tokens'[t] \in Token /\ tokens'[t].family = tokens[t].family
                                    /\ tokens'[t].generation = tokens[t].generation
                                    /\ tokens'[t].expires = tokens[t].expires
                                    /\ tokens[t].consumed => tokens'[t].consumed,
           slot' = slot \/ \E s \in Slots : Ended(s)
    PROVE  OAuthInv'
<1>1. TableTypes'
  BY DEF OAuthInv, TableTypes, Numbered
<1>2. Chains'
  BY NothingRotated
<1>3. /\ HandlerTypes' /\ NextOnce'
      /\ \A u \in Slots : Holds(u)' => Holds(u) /\ slot'[u].held.origin = slot[u].held.origin
  <2>1. CASE slot' = slot
    BY <2>1 DEF OAuthInv, HandlerTypes, HandlerInv, NextOnce, Holds
  <2>2. ASSUME NEW s \in Slots, Ended(s)
        PROVE  /\ HandlerTypes' /\ NextOnce'
               /\ \A u \in Slots : Holds(u)' => Holds(u) /\ slot'[u].held.origin = slot[u].held.origin
    <3>1. slot \in [Slots -> HandlerType] /\ minted \in Nat /\ minted' \in Nat /\ minted <= minted'
      BY <2>2, HandlerFacts
    <3>2. /\ slot' \in [Slots -> HandlerType] /\ slot'[s].at = "idle" /\ HandlerInv(s)'
          /\ \A u \in Slots \ {s} : slot'[u] = slot[u]
      BY <2>2, <3>1, EndedOne
    <3>3. \A u \in Slots \ {s} : slot[u].at = "rotate" => slot[u].next \notin DOMAIN tokens'
      BY DEF OAuthInv, HandlerTypes, HandlerInv
    <3>4. HandlerTypes' /\ NextOnce'
      BY <3>1, <3>2, <3>3, HandlersKept
    <3>5. QED
      BY <3>2, <3>4 DEF Holds
  <2>3. QED
    BY <2>1, <2>2
<1>4. OnePlace'
  <2>1. (\A x : Open(x)' => Open(x)) /\ (\A k \in DOMAIN codes' : Loose(k)' => Loose(k))
    BY DEF Open, Loose
  <2>2. QED
    BY <1>3, <2>1, NothingGranted
<1>5. QED
  BY <1>1, <1>2, <1>3, <1>4 DEF OAuthInv

(* A replay revokes the family and consumes its tokens. *)
LEMMA RevokeReplayedKeeps ==
    ASSUME OAuthInv, NEW s \in Slots, RevokeReplayed(s)
    PROVE  OAuthInv'
<1>1. /\ UNCHANGED <<now, transactions, codes, delivered, minted>> /\ Ended(s)
      /\ DOMAIN families' = DOMAIN families /\ DOMAIN tokens' = DOMAIN tokens
  BY DEF RevokeReplayed
<1>2. \A f \in DOMAIN families : /\ families'[f] \in Family /\ families'[f].origin = families[f].origin
                                 /\ families'[f].replayed => families'[f].revoked
  BY DEF RevokeReplayed, OAuthInv, TableTypes, Family, Chains
<1>3. \A t \in DOMAIN tokens : /\ tokens'[t] \in Token /\ tokens'[t].family = tokens[t].family
                               /\ tokens'[t].generation = tokens[t].generation
                               /\ tokens'[t].expires = tokens[t].expires
                               /\ tokens[t].consumed => tokens'[t].consumed
  BY DEF RevokeReplayed, OAuthInv, TableTypes, Token
<1>4. QED
  BY <1>1, <1>2, <1>3, RevocationKeeps

(* What revoke() writes: one family may be revoked, nothing else changes. *)
LEMMA RevokedByOne ==
    ASSUME OAuthInv, NEW t, families' = RevokedBy(t)
    PROVE  /\ DOMAIN families' = DOMAIN families
           /\ \A f \in DOMAIN families :
                 /\ families'[f] \in Family /\ families'[f].origin = families[f].origin
                 /\ families'[f].replayed = families[f].replayed
                 /\ families[f].revoked => families'[f].revoked
<1>1. \A f \in DOMAIN families : families[f] \in Family
  BY DEF OAuthInv, TableTypes
<1>2. QED
  BY <1>1 DEF RevokedBy, Family

(* The revocations of one token, by a handler or by its client. *)
LEMMA RevokeIssuedKeeps ==
    ASSUME OAuthInv, NEW s \in Slots, RevokeIssued(s)
    PROVE  OAuthInv'
<1> DEFINE t == slot[s].token
<1>1. /\ UNCHANGED <<now, transactions, codes, tokens, delivered, minted>> /\ Ended(s) /\ families' = RevokedBy(t)
  BY DEF RevokeIssued
<1> HIDE DEF t
<1>2. /\ DOMAIN families' = DOMAIN families
      /\ \A f \in DOMAIN families : /\ families'[f] \in Family /\ families'[f].origin = families[f].origin
                                    /\ families'[f].replayed => families'[f].revoked
  BY <1>1, RevokedByOne DEF OAuthInv, Chains
<1>3. \A u \in DOMAIN tokens : tokens[u] \in Token
  BY DEF OAuthInv, TableTypes
<1>4. QED
  BY <1>1, <1>2, <1>3, RevocationKeeps

(* The revocation endpoint. *)
LEMMA RevokeTokenKeeps ==
    ASSUME OAuthInv, NEW t \in delivered, NEW c \in Clients, RevokeToken(t, c)
    PROVE  OAuthInv'
<1>1. /\ UNCHANGED <<now, transactions, codes, tokens, slot, delivered, minted>> /\ families' = RevokedBy(t)
  BY DEF RevokeToken
<1>2. /\ DOMAIN families' = DOMAIN families
      /\ \A f \in DOMAIN families : /\ families'[f] \in Family /\ families'[f].origin = families[f].origin
                                    /\ families'[f].replayed => families'[f].revoked
  BY <1>1, RevokedByOne DEF OAuthInv, Chains
<1>3. \A u \in DOMAIN tokens : tokens[u] \in Token
  BY DEF OAuthInv, TableTypes
<1>4. QED
  BY <1>1, <1>2, <1>3, RevocationKeeps

--------------------------------------------------------------------------------
(* Cleanup, and every step *)

(* The cleanup keeps the family of every token that it keeps. *)
LEMMA CleanupKeeps ==
    ASSUME OAuthInv, Cleanup
    PROVE  OAuthInv'
<1>1. UNCHANGED <<now, slot, delivered, minted>>
  BY DEF Cleanup
<1>2. /\ DOMAIN transactions' \subseteq DOMAIN transactions
      /\ \A x \in DOMAIN transactions' : transactions'[x] = transactions[x]
      /\ DOMAIN codes' \subseteq DOMAIN codes /\ \A k \in DOMAIN codes' : codes'[k] = codes[k]
  BY DEF Cleanup, Keep, Retained
<1>3. /\ DOMAIN tokens' = Retained(tokens) /\ DOMAIN tokens' \subseteq DOMAIN tokens
      /\ \A t \in DOMAIN tokens' : tokens'[t] = tokens[t]
      /\ DOMAIN families' = RetainedFamilies /\ DOMAIN families' \subseteq DOMAIN families
      /\ \A f \in DOMAIN families' : families'[f] = families[f]
  BY DEF Cleanup, Keep, Retained, RetainedFamilies
<1>4. \A t \in DOMAIN tokens' : tokens'[t].family \in DOMAIN families'
  BY <1>3 DEF OAuthInv, TableTypes, RetainedFamilies
<1>5. TableTypes'
  BY <1>1, <1>2, <1>3, <1>4 DEF OAuthInv, TableTypes, Numbered
<1>6. HandlerTypes' /\ NextOnce'
  <2>1. ASSUME NEW u \in Slots PROVE HandlerInv(u)'
    BY <1>1, <1>3, HandlerFacts DEF HandlerInv
  <2>2. QED
    BY <1>1, <2>1 DEF OAuthInv, HandlerTypes, NextOnce
<1>7. OnePlace'
  <2>1. \A x : Open(x)' => Open(x)
    BY <1>2 DEF Open
  <2>2. \A k \in DOMAIN codes' : Loose(k)' => Loose(k) /\ codes'[k].origin = codes[k].origin
    BY <1>2 DEF Loose
  <2>3. \A u \in Slots : Holds(u)' => Holds(u) /\ slot'[u].held.origin = slot[u].held.origin
    BY <1>1 DEF Holds
  <2>4. QED
    BY <1>3, <2>1, <2>2, <2>3, NothingGranted
<1>8. Chains'
  <2>1. \A f \in DOMAIN families' : families'[f].replayed => families'[f].revoked
    BY <1>3 DEF OAuthInv, Chains
  <2>2. QED
    BY <1>3, <2>1, NothingRotated
<1>9. QED
  BY <1>5, <1>6, <1>7, <1>8 DEF OAuthInv

(* The clock touches nothing. *)
LEMMA TickKeeps ==
    ASSUME OAuthInv, Tick
    PROVE  OAuthInv'
<1>1. UNCHANGED <<tables, slot, delivered, minted>> /\ now < MaxTime /\ now' = now + 1
  BY DEF Tick
<1>2. minted \in Nat /\ minted \in 0 .. MaxMinted /\ delivered \subseteq 1 .. minted /\ now' \in 0 .. MaxTime
  BY <1>1, BoundAssumption DEF OAuthInv, TableTypes
<1>3. TableTypes' /\ Chains'
  BY <1>1, <1>2, TablesKept
<1>4. UNCHANGED <<transactions, codes, families, tokens>>
  BY <1>1 DEF tables
<1>5. HandlerTypes' /\ NextOnce'
  BY <1>1, <1>4 DEF OAuthInv, HandlerTypes, HandlerInv, NextOnce
<1>6. OnePlace'
  BY <1>1, <1>4, NothingGranted DEF Open, Loose, Holds
<1>7. QED
  BY <1>3, <1>5, <1>6 DEF OAuthInv

(* The empty tables satisfy the invariant. *)
LEMMA OAuthStart ==
    ASSUME Init
    PROVE  OAuthInv
<1>1. /\ now = 0 /\ minted = 0 /\ delivered = {} /\ slot = [s \in Slots |-> Idle]
      /\ DOMAIN transactions = {} /\ DOMAIN codes = {} /\ DOMAIN families = {} /\ DOMAIN tokens = {}
  BY DEF Init
<1>2. NoRow \in HeldRow /\ NoRow.origin = 0
  BY DEF NoRow, HeldRow, AnyClient
<1>3. Idle \in HandlerType /\ Idle.at = "idle" /\ Idle.token = 0 /\ Idle.next = 0 /\ Idle.held.origin = 0
  BY <1>2 DEF Idle, HandlerType, Steps, AnyClient
<1>4. TableTypes
  BY <1>1, BoundAssumption DEF TableTypes, Numbered
<1>5. HandlerTypes /\ NextOnce
  BY <1>1, <1>3 DEF HandlerTypes, HandlerInv, NextOnce
<1>6. OnePlace
  BY <1>1, <1>3 DEF OnePlace, OneGrantPerApproval, Holds, Loose, Open
<1>7. Chains
  BY <1>1 DEF Chains
<1>8. QED
  BY <1>4, <1>5, <1>6, <1>7 DEF OAuthInv

(* Every step of the server keeps the invariant. *)
LEMMA OAuthStep ==
    ASSUME OAuthInv, [Next]_vars
    PROVE  OAuthInv'
<1>1. CASE UNCHANGED vars
  BY <1>1 DEF vars, tables, OAuthInv, TableTypes, Numbered, HandlerTypes, HandlerInv, NextOnce, OnePlace,
              OneGrantPerApproval, Open, Loose, Holds, Chains, Newest
<1>2. ASSUME NEW s \in Slots, Handler(s) PROVE OAuthInv'
  <2>1. CASE RefuseConsent(s) \/ RefuseExchange(s) \/ Crash(s)
    BY <2>1, HandlerFacts, EndKeeps DEF RefuseConsent, RefuseExchange, Crash
  <2>2. ASSUME NEW x \in DOMAIN transactions, TakeTransaction(s, x) PROVE OAuthInv'
    BY <2>2, TakeTransactionKeeps
  <2>3. ASSUME NEW k \in DOMAIN codes, NEW c \in Clients, TakeCode(s, k, c) PROVE OAuthInv'
    BY <2>3, TakeCodeKeeps
  <2>4. ASSUME NEW t \in delivered, NEW c \in Clients, BeginRefresh(s, t, c) PROVE OAuthInv'
    BY <2>4, BeginRefreshKeeps
  <2>5. QED
    BY <1>2, <2>1, <2>2, <2>3, <2>4, ApproveConsentKeeps, PutInitialKeeps, RotateKeeps, FindCurrentKeeps,
       RevokeReplayedKeeps, IssueKeeps, RevokeIssuedKeeps DEF Handler
<1>3. ASSUME NEW c \in Clients, StartAuthorization(c) PROVE OAuthInv'
  BY <1>3, StartAuthorizationKeeps
<1>4. ASSUME NEW t \in delivered, NEW c \in Clients, RevokeToken(t, c) PROVE OAuthInv'
  BY <1>4, RevokeTokenKeeps
<1>5. QED
  BY <1>1, <1>2, <1>3, <1>4, CleanupKeeps, TickKeeps DEF Next

--------------------------------------------------------------------------------
(* Theorems *)

(* The authorization server keeps its inductive invariant: rows and handlers  *)
(* are well formed, successors are drawn once, an approval is in one place at *)
(* a time, and families are chains (all handlers of gateway-oauth).           *)
THEOREM OAuthCorrect == Spec => []OAuthInv
<1>1. Init => OAuthInv
  BY OAuthStart
<1>2. OAuthInv /\ [Next]_vars => OAuthInv'
  BY OAuthStep
<1>3. QED
  BY <1>1, <1>2, PTL DEF Spec

(* One approval gives one grant, for any number of handlers that present the  *)
(* same transaction or code at the same time (take() of both stores).         *)
THEOREM ApprovalsGrantOnce == Spec => []OneGrantPerApproval
<1>1. OAuthInv => OneGrantPerApproval
  BY DEF OAuthInv, OnePlace
<1>2. QED
  BY <1>1, OAuthCorrect, PTL

(* A family of refresh tokens never forks: its tokens have distinct           *)
(* generations and only the newest can be rotated, however rotations,         *)
(* replays, revocations and cleanups interleave (rotate()).                   *)
THEOREM FamiliesNeverFork == Spec => []FamiliesInv
<1>1. ASSUME OAuthInv PROVE OAuthTypeOK
  <2>1. \A s \in Slots : slot[s].at \in Steps /\ slot[s].token \in 0 .. minted
    <3>1. SUFFICES ASSUME NEW s \in Slots PROVE slot[s].at \in Steps /\ slot[s].token \in 0 .. minted
      OBVIOUS
    <3>2. QED
      BY <1>1, HandlerFacts DEF HandlerInv, HandlerType
  <2>2. QED
    BY <1>1, <2>1 DEF OAuthInv, TableTypes, Numbered, Family, Token, OAuthTypeOK
<1>2. ASSUME OAuthInv PROVE FamilyLinear
  BY <1>2 DEF OAuthInv, Chains, Newest, FamilyLinear, Usable
<1>3. OAuthInv => FamiliesInv
  BY <1>1, <1>2 DEF FamiliesInv
<1>4. QED
  BY <1>3, OAuthCorrect, PTL

(* A detected replay ends the family, the tokens that the winner of the race  *)
(* received included (revokeReplayedFamily).                                  *)
THEOREM ReplaysEndFamilies == Spec => []ReplayEndsFamily
<1>1. OAuthInv => ReplayEndsFamily
  BY DEF OAuthInv, TableTypes, Chains, ReplayEndsFamily, Usable, Revoked
<1>2. QED
  BY <1>1, OAuthCorrect, PTL

(* What a step must not do to tokens that are dead. *)
StaysDead ==
    \A t \in DOMAIN tokens' :
       /\ t \notin DOMAIN tokens => tokens'[t].family \notin {f \in DOMAIN families : Revoked(f)}
       /\ t \in DOMAIN tokens /\ ~Usable(t, 0) => tokens'[t].consumed \/ Revoked(tokens[t].family)'

(* A step that inserts no token and takes neither a consumption nor a         *)
(* revocation back.                                                           *)
LEMMA NothingRevived ==
    ASSUME OAuthInv,
           \A t \in DOMAIN tokens' : /\ t \in DOMAIN tokens /\ tokens'[t].family = tokens[t].family
                                     /\ tokens[t].consumed => tokens'[t].consumed,
           \A f \in DOMAIN families' : families[f].revoked => families'[f].revoked,
           \A t \in DOMAIN tokens' : tokens'[t].family \in DOMAIN families'
    PROVE  StaysDead
<1>1. \A t \in DOMAIN tokens : tokens[t].family \in DOMAIN families /\ tokens[t].expires > 0
  BY DEF OAuthInv, TableTypes, Chains
<1>2. QED
  BY <1>1 DEF StaysDead, Usable, Revoked

(* No step of the server revives a token. *)
LEMMA DeadStep ==
    ASSUME OAuthInv, OAuthInv', Next
    PROVE  StaysDead
<1>1. \A t \in DOMAIN tokens' : tokens'[t].family \in DOMAIN families'
  BY DEF OAuthInv, TableTypes
<1>2. CASE UNCHANGED <<tokens, families>>
  BY <1>1, <1>2, NothingRevived
<1>3. ASSUME NEW t, families' = RevokedBy(t), UNCHANGED tokens PROVE StaysDead
  BY <1>1, <1>3, RevokedByOne, NothingRevived
<1>4. CASE Cleanup
  <2>1. /\ \A t \in DOMAIN tokens' : t \in DOMAIN tokens /\ tokens'[t] = tokens[t]
        /\ \A f \in DOMAIN families' : families'[f] = families[f]
    BY <1>4 DEF Cleanup, Keep, Retained, RetainedFamilies
  <2>2. QED
    BY <1>1, <2>1, NothingRevived
<1>5. ASSUME NEW s \in Slots, RevokeReplayed(s) PROVE StaysDead
  <2>1. \A t \in DOMAIN tokens' : /\ t \in DOMAIN tokens /\ tokens'[t].family = tokens[t].family
                                  /\ tokens[t].consumed => tokens'[t].consumed
    BY <1>5 DEF RevokeReplayed, OAuthInv, TableTypes, Token
  <2>2. \A f \in DOMAIN families' : families[f].revoked => families'[f].revoked
    BY <1>5 DEF RevokeReplayed, OAuthInv, TableTypes, Family
  <2>3. QED
    BY <1>1, <2>1, <2>2, NothingRevived
<1>6. ASSUME NEW s \in Slots, PutInitial(s) PROVE StaysDead
  <2> DEFINE n == minted + 1
  <2>1. /\ DOMAIN tokens' = DOMAIN tokens \cup {n} /\ tokens'[n].family = n
        /\ \A t \in DOMAIN tokens \ {n} : tokens'[t] = tokens[t]
        /\ \A f \in DOMAIN families \ {n} : families'[f] = families[f]
    BY <1>6 DEF PutInitial, With
  <2>2. n \notin DOMAIN tokens /\ n \notin DOMAIN families
    BY DEF OAuthInv, TableTypes, Numbered
  <2>3. \A t \in DOMAIN tokens : tokens[t].family \in DOMAIN families /\ tokens[t].expires > 0
    BY DEF OAuthInv, TableTypes, Chains
  <2> HIDE DEF n
  <2>4. QED
    BY <2>1, <2>2, <2>3 DEF StaysDead, Usable, Revoked
<1>7. ASSUME NEW s \in Slots, Rotate(s) PROVE StaysDead
  <2> DEFINE t == slot[s].token
             n == slot[s].next
  <2>1. CASE ~Rotatable(s)
    BY <1>2, <1>7, <2>1 DEF Rotate
  <2>2. CASE Rotatable(s)
    <3>1. /\ tokens' = Rotated(t, n) /\ UNCHANGED families /\ t \in DOMAIN tokens /\ ~Revoked(tokens[t].family)
          /\ n \in Nat /\ n \notin DOMAIN tokens
      BY <1>7, <2>2, HandlerFacts DEF Rotate, Rotatable, Usable, HandlerInv, At
    <3> HIDE DEF t, n
    <3>2. /\ DOMAIN tokens' = DOMAIN tokens \cup {n} /\ \A u \in DOMAIN tokens \ {t} : tokens'[u] = tokens[u]
          /\ tokens'[t].consumed /\ tokens'[n].family = tokens[t].family
      BY <3>1, RotatedRows
    <3>3. \A u \in DOMAIN tokens : tokens[u].family \in DOMAIN families /\ tokens[u].expires > 0
      BY DEF OAuthInv, TableTypes, Chains
    <3>4. QED
      BY <3>1, <3>2, <3>3 DEF StaysDead, Usable, Revoked
  <2>3. QED
    BY <2>1, <2>2
<1>8. ASSUME NEW s \in Slots, Handler(s) PROVE StaysDead
  <2>1. CASE RevokeIssued(s)
    BY <1>3, <2>1 DEF RevokeIssued
  <2>2. QED
    BY <1>2, <1>5, <1>6, <1>7, <1>8, <2>1
       DEF Handler, TakeTransaction, RefuseConsent, ApproveConsent, TakeCode, RefuseExchange, BeginRefresh,
           FindCurrent, Issue, Crash, tables
<1>9. CASE \E c \in Clients : StartAuthorization(c)
  BY <1>2, <1>9 DEF StartAuthorization
<1>10. CASE \E t \in delivered, c \in Clients : RevokeToken(t, c)
  BY <1>3, <1>10 DEF RevokeToken
<1>11. CASE Tick
  BY <1>2, <1>11 DEF Tick, tables
<1>12. QED
  BY <1>4, <1>8, <1>9, <1>10, <1>11 DEF Next

(* What is revoked or consumed stays so: no step adds a token to a revoked    *)
(* family or makes a dead token usable, a cleanup included                    *)
(* (cleanupGatewayOAuthD1).                                                   *)
THEOREM DeadTokensStayDead == Spec => RevokedStaysDead
<1>1. OAuthInv /\ OAuthInv' /\ [Next]_vars => [StaysDead]_vars
  BY DeadStep
<1>2. QED
  BY <1>1, OAuthCorrect, PTL DEF Spec, RevokedStaysDead, StaysDead
================================================================================
