--------------------------- MODULE CharacterAuth ---------------------------
(***************************************************************************)
(* Login, sessions and the two token pairs of a character (app/deps.py,    *)
(* app/routes/auth.py and the clear-data route of app/routes/settings.py). *)
(* Every request is a coroutine of its own: it reads the session cookie    *)
(* when it arrives and writes it back, if it changed it, when it answers;  *)
(* in between it awaits MongoDB and EVE SSO, and other requests run.       *)
(*                                                                         *)
(* A token stands for one answer of EVE SSO: the access token, its refresh *)
(* token and the expiry.  When SSO rotates, a refresh replaces the refresh *)
(* token, and the old one is answered with 400 from then on.               *)
(* A nonce stands for a PKCE verifier and the state generated with it.     *)
(***************************************************************************)
EXTENDS Naturals, Sequences, FiniteSets

CONSTANTS
  Browsers,    \* cookie jars
  Chars,       \* characters
  NoChar,      \* no character in the session
  Requests,    \* requests that may be in progress at once
  Rotates,     \* does EVE SSO replace a refresh token that is used?
  MaxNonces,   \* bound: PKCE pairs generated
  MaxTokens,   \* bound: token answers of EVE SSO
  MaxErrors    \* bound: failed calls and revoked grants

ASSUME BoundsAreNat == MaxNonces \in Nat /\ MaxTokens \in Nat /\ MaxErrors \in Nat
ASSUME RotatesIsFlag == Rotates \in BOOLEAN
ASSUME NoCharIsNone == NoChar \notin Chars

VARIABLES
  cookie,  \* per browser: the session in its cookie
  pages,   \* per browser: the SSO pages a redirect has opened
  req,     \* per request: the coroutine's locals
  db,      \* the characters collection
  tokens,  \* EVE SSO: the tokens issued so far
  nonces,  \* PKCE pairs generated so far
  errors   \* failures so far

vars == <<cookie, pages, req, db, tokens, nonces, errors>>

Flows == {"base", "corp"}
NoToken == 0
NoNonce == 0
Tokens == 0..MaxTokens
Nonces == 0..MaxNonces

\* request.session
Sessions == [char : Chars \cup {NoChar}, login : Nonces, corp : Nonces]
EmptySession == [char |-> NoChar, login |-> NoNonce, corp |-> NoNonce]

\* An SSO page waiting for the player's approval.
Pages == [nonce : Nonces \ {NoNonce}, flow : Flows]

\* CharacterDocument; corpScopes and corpId say whether corp_scopes and
\* corporation_id are set, corp is the corp token pair with its expiry.
NoDoc == [base |-> NoToken, corp |-> NoToken, corpScopes |-> FALSE, corpId |-> FALSE]
Docs == [base : Tokens, corp : Tokens, corpScopes : BOOLEAN, corpId : BOOLEAN]
Stored(c) == db[c].base # NoToken

\* A token as EVE SSO keeps it; next is the one a rotation replaced it with,
\* and lost is history: the request it was issued to failed to store it.
TokenRecords == [char : Chars, flow : Flows, next : Tokens, expired : BOOLEAN,
                 revoked : BOOLEAN, lost : BOOLEAN]

Routes == {"login", "callback", "logout", "page", "connect", "disconnect", "clear"}
Phases == {"find", "base", "corp", "save", "body", "exchange", "store", "respond"}
Idle == [phase |-> "idle"]
Busy == [phase : Phases, route : Routes, browser : Browsers, session : Sessions,
         base : Tokens, corp : Tokens, touched : SUBSET Flows,
         flow : Flows, as : Chars \cup {NoChar}, opens : SUBSET Pages]

\* A request that arrives with the cookie of browser b.
Arriving(b, route, phase) ==
  [phase |-> phase, route |-> route, browser |-> b, session |-> cookie[b],
   base |-> NoToken, corp |-> NoToken, touched |-> {},
   flow |-> "base", as |-> NoChar, opens |-> {}]

Init ==
  /\ cookie = [b \in Browsers |-> EmptySession]
  /\ pages = [b \in Browsers |-> {}]
  /\ req = [q \in Requests |-> Idle]
  /\ db = [c \in Chars |-> NoDoc]
  /\ tokens = <<>>
  /\ nonces = 0
  /\ errors = 0

Error == errors < MaxErrors /\ errors' = errors + 1

-----------------------------------------------------------------------------
(* EVE SSO *)

Live(t) == tokens[t].next = NoToken /\ ~tokens[t].revoked

Fresh(c, flow) == [char |-> c, flow |-> flow, next |-> NoToken, expired |-> FALSE,
                   revoked |-> FALSE, lost |-> FALSE]

NewToken == Len(tokens) + 1
Room == Len(tokens) < MaxTokens

\* The tokens after a refresh with t.
Refreshed(t) ==
  LET after == Append(tokens, Fresh(tokens[t].char, tokens[t].flow))
  IN  IF Rotates THEN [after EXCEPT ![t].next = NewToken] ELSE after

\* The tokens of S were received by a request that did not store them.
Lose(ts, S) == [t \in DOMAIN ts |-> IF t \in S THEN [ts[t] EXCEPT !.lost = TRUE] ELSE ts[t]]

\* An access token that is stored reaches its expiry (within the bound: while
\* SSO may still answer the refresh this calls for).
Expire(t) ==
  /\ Room /\ ~tokens[t].expired
  /\ \E c \in Chars : t \in {db[c].base, db[c].corp}
  /\ tokens' = [tokens EXCEPT ![t].expired = TRUE]
  /\ UNCHANGED <<cookie, pages, req, db, nonces, errors>>

\* The player withdraws the grant: all its refresh tokens are refused.
Revoke(c, flow) ==
  /\ \E t \in DOMAIN tokens :
       tokens[t].char = c /\ tokens[t].flow = flow /\ ~tokens[t].revoked
  /\ Error
  /\ tokens' = [t \in DOMAIN tokens |->
                  IF tokens[t].char = c /\ tokens[t].flow = flow
                  THEN [tokens[t] EXCEPT !.revoked = TRUE] ELSE tokens[t]]
  /\ UNCHANGED <<cookie, pages, req, db, nonces>>

-----------------------------------------------------------------------------
(* Requests arrive *)

\* /auth/login
Login(q, b) ==
  /\ req[q] = Idle
  /\ nonces < MaxNonces
  /\ nonces' = nonces + 1
  /\ req' = [req EXCEPT ![q] =
       [Arriving(b, "login", "respond") EXCEPT
          !.session.login = nonces + 1,
          !.opens = {[nonce |-> nonces + 1, flow |-> "base"]}]]
  /\ UNCHANGED <<cookie, pages, db, tokens, errors>>

\* /auth/logout
Logout(q, b) ==
  /\ req[q] = Idle
  /\ cookie[b] # EmptySession
  /\ req' = [req EXCEPT ![q] =
       [Arriving(b, "logout", "respond") EXCEPT !.session = EmptySession]]
  /\ UNCHANGED <<cookie, pages, db, tokens, nonces, errors>>

\* A route that depends on get_current_character.
Guarded(q, b, route) ==
  /\ req[q] = Idle
  /\ cookie[b].char # NoChar
  /\ req' = [req EXCEPT ![q] = Arriving(b, route, "find")]
  /\ UNCHANGED <<cookie, pages, db, tokens, nonces, errors>>

\* Mutant of Callback: what is pending, not the state that came back, tells which
\* flow it completes.
CallbackByPending(q, b, p, c) ==
  /\ req[q] = Idle
  /\ \/ cookie[b].corp = p.nonce /\ cookie[b].char # NoChar
     \/ cookie[b].corp # p.nonce /\ cookie[b].login = p.nonce
  /\ req' = [req EXCEPT ![q] =
       [Arriving(b, "callback", "exchange") EXCEPT
          !.flow = IF cookie[b].corp # NoNonce /\ cookie[b].char # NoChar
                   THEN "corp" ELSE "base",
          !.as = c,
          !.opens = {p}]]
  /\ pages' = [pages EXCEPT ![b] = @ \ {p}]
  /\ UNCHANGED <<cookie, db, tokens, nonces, errors>>

\* /auth/callback after the player approved page p as character c: the pending
\* state that matches tells which flow it completes; none is answered with 400.
Callback(q, b, p, c) ==
  /\ req[q] = Idle
  /\ \/ cookie[b].corp = p.nonce /\ cookie[b].char # NoChar
     \/ cookie[b].corp # p.nonce /\ cookie[b].login = p.nonce
  /\ req' = [req EXCEPT ![q] =
       [Arriving(b, "callback", "exchange") EXCEPT
          !.flow = IF cookie[b].corp = p.nonce THEN "corp" ELSE "base",
          !.as = c,
          !.opens = {p}]]
  /\ pages' = [pages EXCEPT ![b] = @ \ {p}]
  /\ UNCHANGED <<cookie, db, tokens, nonces, errors>>

-----------------------------------------------------------------------------
(* get_current_character *)

\* The request goes on once its character is known and its updates are saved:
\* a page, or /auth/me, changes nothing more.
Resolved(r) ==
  IF r.route = "page" THEN Idle
  ELSE [r EXCEPT !.phase = "body", !.base = NoToken, !.corp = NoToken, !.touched = {}]

CorpDue(r) == r.corp # NoToken /\ tokens[r.corp].expired

\* Mutant of PastBase: update_one without the test of updates.
PastBaseUnguarded(r) ==
  IF CorpDue(r) THEN [r EXCEPT !.phase = "corp"] ELSE [r EXCEPT !.phase = "save"]

\* The next await once the base token is good: the refresh of the corp token,
\* the update_one, which needs something to update, or the route.
PastBase(r) ==
  IF CorpDue(r) THEN [r EXCEPT !.phase = "corp"]
  ELSE IF r.touched # {} THEN [r EXCEPT !.phase = "save"]
  ELSE Resolved(r)

Find(q) ==
  LET r == req[q]
      d == db[r.session.char]
      loaded == [r EXCEPT !.base = d.base, !.corp = d.corp]
  IN  /\ r.phase = "find"
      /\ req' = [req EXCEPT ![q] =
                   IF ~Stored(r.session.char) THEN Idle
                   ELSE IF tokens[d.base].expired THEN [loaded EXCEPT !.phase = "base"]
                   ELSE PastBase(loaded)]
      /\ UNCHANGED <<cookie, pages, db, tokens, nonces, errors>>

RefreshBase(q) ==
  LET r == req[q]
  IN  /\ r.phase = "base" /\ Live(r.base)
      /\ Room
      /\ tokens' = Refreshed(r.base)
      /\ req' = [req EXCEPT ![q] =
                   PastBase([r EXCEPT !.base = NewToken, !.touched = {"base"}])]
      /\ UNCHANGED <<cookie, pages, db, nonces, errors>>

\* SSO answers 400: the session forgets its character.
BaseRefused(q) ==
  LET r == req[q]
  IN  /\ r.phase = "base" /\ ~Live(r.base)
      /\ req' = [req EXCEPT ![q] = [r EXCEPT !.phase = "respond", !.base = NoToken,
                                   !.corp = NoToken, !.session.char = NoChar]]
      /\ UNCHANGED <<cookie, pages, db, tokens, nonces, errors>>

RefreshCorp(q) ==
  LET r == req[q]
  IN  /\ r.phase = "corp" /\ Live(r.corp)
      /\ Room
      /\ tokens' = Refreshed(r.corp)
      /\ req' = [req EXCEPT ![q] = [r EXCEPT !.phase = "save", !.corp = NewToken,
                                            !.touched = @ \cup {"corp"}]]
      /\ UNCHANGED <<cookie, pages, db, nonces, errors>>

\* SSO answers 400: the corporation is disconnected, the request goes on.
CorpRefused(q) ==
  LET r == req[q]
  IN  /\ r.phase = "corp" /\ ~Live(r.corp)
      /\ req' = [req EXCEPT ![q] = [r EXCEPT !.phase = "save", !.corp = NoToken,
                                            !.touched = @ \cup {"corp"}]]
      /\ UNCHANGED <<cookie, pages, db, tokens, nonces, errors>>

\* Any other failure of the call is raised: the request ends with nothing
\* saved, neither what this refresh returned, if SSO had handled it, nor what
\* the refresh of the base token had.
RefreshFails(q) ==
  LET r == req[q]
      t == IF r.phase = "base" THEN r.base ELSE r.corp
      had == IF "base" \in r.touched THEN {r.base} ELSE {}
  IN  /\ r.phase \in {"base", "corp"}
      /\ Error
      /\ \/ tokens' = Lose(tokens, had)
         \/ /\ Live(t) /\ Room
            /\ tokens' = Lose(Refreshed(t), had \cup {NewToken})
      /\ req' = [req EXCEPT ![q] = Idle]
      /\ UNCHANGED <<cookie, pages, db, nonces>>

\* Mutant of Save: the rotated base refresh token is not among the updates.
SaveAccessOnly(q) ==
  LET r == req[q]
      c == r.session.char
  IN  /\ r.phase = "save"
      /\ db' = [db EXCEPT ![c] =
                  IF Stored(c) /\ "corp" \in r.touched
                  THEN [@ EXCEPT !.corp = r.corp, !.corpScopes = @ /\ r.corp # NoToken]
                  ELSE @]
      /\ req' = [req EXCEPT ![q] = Resolved(r)]
      /\ UNCHANGED <<cookie, pages, tokens, nonces, errors>>

\* Mutant of Save: update_one with upsert=True.
SaveUpserts(q) ==
  LET r == req[q]
      c == r.session.char
  IN  /\ r.phase = "save"
      /\ db' = [db EXCEPT ![c] =
                  IF Stored(c) THEN [@ EXCEPT !.base = r.base, !.corp = r.corp]
                  ELSE [NoDoc EXCEPT !.base = r.base, !.corp = r.corp]]
      /\ req' = [req EXCEPT ![q] = Resolved(r)]
      /\ UNCHANGED <<cookie, pages, tokens, nonces, errors>>

\* update_one({"_id"}, {"$set": updates}): no upsert.
Save(q) ==
  LET r == req[q]
      c == r.session.char
      d == db[c]
      withBase == IF "base" \in r.touched THEN [d EXCEPT !.base = r.base] ELSE d
      withBoth == IF "corp" \notin r.touched THEN withBase
                  ELSE IF r.corp = NoToken
                       THEN [withBase EXCEPT !.corp = NoToken, !.corpScopes = FALSE]
                       ELSE [withBase EXCEPT !.corp = r.corp]
  IN  /\ r.phase = "save"
      /\ db' = [db EXCEPT ![c] = IF Stored(c) THEN withBoth ELSE d]
      /\ req' = [req EXCEPT ![q] = Resolved(r)]
      /\ UNCHANGED <<cookie, pages, tokens, nonces, errors>>

-----------------------------------------------------------------------------
(* The routes behind get_current_character *)

\* /auth/connect-corp
ConnectCorp(q) ==
  /\ req[q].phase = "body" /\ req[q].route = "connect"
  /\ nonces < MaxNonces
  /\ nonces' = nonces + 1
  /\ req' = [req EXCEPT ![q].phase = "respond", ![q].session.corp = nonces + 1,
                        ![q].opens = {[nonce |-> nonces + 1, flow |-> "corp"]}]
  /\ UNCHANGED <<cookie, pages, db, tokens, errors>>

\* /auth/disconnect-corp: $unset of the five fields.
DisconnectCorp(q) ==
  /\ req[q].phase = "body" /\ req[q].route = "disconnect"
  /\ db' = [db EXCEPT ![req[q].session.char].corp = NoToken,
                      ![req[q].session.char].corpScopes = FALSE,
                      ![req[q].session.char].corpId = FALSE]
  /\ req' = [req EXCEPT ![q] = Idle]
  /\ UNCHANGED <<cookie, pages, tokens, nonces, errors>>

\* /settings clear-data: delete_one, then session.clear().
ClearData(q) ==
  /\ req[q].phase = "body" /\ req[q].route = "clear"
  /\ db' = [db EXCEPT ![req[q].session.char] = NoDoc]
  /\ req' = [req EXCEPT ![q].phase = "respond", ![q].session = EmptySession]
  /\ UNCHANGED <<cookie, pages, tokens, nonces, errors>>

-----------------------------------------------------------------------------
(* /auth/callback *)

\* exchange_code_for_token and validate_access_token: SSO issues a token of the
\* flow the approved page asked for.  A corp connection as another character is
\* answered with 400, and its token is dropped.
Exchange(q) ==
  LET r == req[q]
      p == CHOOSE p \in r.opens : TRUE
      mine == r.flow = "base" \/ r.as = r.session.char
  IN  /\ r.phase = "exchange"
      /\ Room
      /\ tokens' = Append(tokens, [Fresh(r.as, p.flow) EXCEPT !.lost = ~mine])
      /\ req' = [req EXCEPT ![q] =
                   IF mine THEN [@ EXCEPT !.phase = "store", !.base = NewToken, !.opens = {}]
                   ELSE Idle]
      /\ UNCHANGED <<cookie, pages, db, nonces, errors>>

\* _complete_login's upsert: every field but created_at is set, the five of the
\* corporation to None.
StoreLogin(q) ==
  LET r == req[q]
  IN  /\ r.phase = "store" /\ r.flow = "base"
      /\ db' = [db EXCEPT ![r.as] = [NoDoc EXCEPT !.base = r.base]]
      /\ req' = [req EXCEPT ![q] = [r EXCEPT !.phase = "respond", !.base = NoToken,
                      !.session.login = NoNonce, !.session.char = r.as]]
      /\ UNCHANGED <<cookie, pages, tokens, nonces, errors>>

\* _complete_corp_connection's update_one: no upsert.
StoreCorp(q) ==
  LET r == req[q]
  IN  /\ r.phase = "store" /\ r.flow = "corp"
      /\ db' = [db EXCEPT ![r.as] =
                  IF Stored(r.as)
                  THEN [@ EXCEPT !.corp = r.base, !.corpScopes = TRUE, !.corpId = TRUE]
                  ELSE @]
      /\ req' = [req EXCEPT ![q] = [r EXCEPT !.phase = "respond", !.base = NoToken,
                      !.session.corp = NoNonce]]
      /\ UNCHANGED <<cookie, pages, tokens, nonces, errors>>

\* The exchange, the JWKS or the public-info call fails: nothing is stored.
CallbackFails(q) ==
  /\ req[q].phase \in {"exchange", "store"}
  /\ Error
  /\ tokens' = Lose(tokens, {req[q].base})
  /\ req' = [req EXCEPT ![q] = Idle]
  /\ UNCHANGED <<cookie, pages, db, nonces>>

-----------------------------------------------------------------------------
\* The answer reaches the browser: the changed session replaces its cookie, and
\* a redirect to SSO opens a page.
Respond(q) ==
  LET r == req[q]
  IN  /\ r.phase = "respond"
      /\ cookie' = [cookie EXCEPT ![r.browser] = r.session]
      /\ pages' = [pages EXCEPT ![r.browser] = @ \cup r.opens]
      /\ req' = [req EXCEPT ![q] = Idle]
      /\ UNCHANGED <<db, tokens, nonces, errors>>

Arrive(q) ==
  \E b \in Browsers :
    \/ Login(q, b)
    \/ Logout(q, b)
    \/ \E route \in {"page", "connect", "disconnect", "clear"} : Guarded(q, b, route)
    \/ \E p \in pages[b], c \in Chars : Callback(q, b, p, c)

GetCurrentCharacter(q) ==
  \/ Find(q)
  \/ RefreshBase(q) \/ BaseRefused(q)
  \/ RefreshCorp(q) \/ CorpRefused(q)
  \/ RefreshFails(q)
  \/ Save(q)

Route(q) ==
  \/ ConnectCorp(q) \/ DisconnectCorp(q) \/ ClearData(q)
  \/ Exchange(q) \/ StoreLogin(q) \/ StoreCorp(q) \/ CallbackFails(q)
  \/ Respond(q)

Sso ==
  \/ \E t \in DOMAIN tokens : Expire(t)
  \/ \E c \in Chars, flow \in Flows : Revoke(c, flow)

Next == Sso \/ \E q \in Requests : Arrive(q) \/ GetCurrentCharacter(q) \/ Route(q)

Spec == Init /\ [][Next]_vars

-----------------------------------------------------------------------------
(* Properties *)

\* Type correctness, with what a request's phase says of its locals: a save
\* has something to save, and what is to be stored was issued.
TypeOK ==
  /\ cookie \in [Browsers -> Sessions]
  /\ pages \in [Browsers -> SUBSET Pages]
  /\ req \in [Requests -> Busy \cup {Idle}]
  /\ db \in [Chars -> Docs]
  /\ tokens \in Seq(TokenRecords) /\ Len(tokens) <= MaxTokens
  /\ nonces \in Nonces
  /\ errors \in 0..MaxErrors
  /\ \A q \in Requests :
       /\ req[q].phase = "save" => req[q].touched # {}
       /\ req[q].phase \in {"base", "corp", "save", "store"} => req[q].base \in DOMAIN tokens

\* Both flows end in the same callback and both pairs sit in one document: a
\* token stored in a character's document was issued to that character, in the
\* flow its place stands for.
TokensInPlace ==
  \A c \in Chars : \A t \in DOMAIN tokens :
    /\ db[c].base = t => tokens[t].char = c /\ tokens[t].flow = "base"
    /\ db[c].corp = t => tokens[t].char = c /\ tokens[t].flow = "corp"

\* Request q has received token t and has still to save it.
Carries(q, t) ==
  /\ req[q].phase \in {"corp", "save"}
  /\ \/ "base" \in req[q].touched /\ req[q].base = t
     \/ "corp" \in req[q].touched /\ req[q].corp = t

\* A rotated refresh token is worthless, so however requests overlap, a stored
\* one is good unless the player revoked the grant, a request is about to save
\* the one that replaced it, or a failed call dropped that one.
StoredTokenAccounted ==
  \A c \in Chars : \A t \in {db[c].base, db[c].corp} \ {NoToken} :
    LET n == tokens[t].next
    IN  \/ Live(t) \/ tokens[t].revoked
        \/ n # NoToken /\ (tokens[n].lost \/ \E q \in Requests : Carries(q, n))

\* clear-data deletes the document: a refresh or a connection in flight must
\* not bring it back, only a login creates one.
OnlyLoginCreates ==
  [][\A c \in Chars : ~Stored(c) /\ Stored(c)' =>
       \E q \in Requests : /\ req[q].phase = "store" /\ req'[q].phase = "respond"
                           /\ req[q].flow = "base" /\ req[q].as = c]_vars

\* "corp_refresh_token being non-None is the connected flag; disconnecting nulls
\* all five fields back out" (models/character.py): what is connected has its
\* corporation and its scopes.
ConnectedHasCorporation ==
  \A c \in Chars : db[c].corp # NoToken => db[c].corpId /\ db[c].corpScopes

=============================================================================
