------------------------ MODULE CharacterAuthProofs ------------------------
(***************************************************************************)
(* Proofs about CharacterAuth, for any browsers, characters, requests in   *)
(* progress and bounds, whether SSO rotates refresh tokens or not.         *)
(***************************************************************************)
EXTENDS CharacterAuth, SequenceTheorems, TLAPS

-----------------------------------------------------------------------------
(* The inductive invariant *)

\* Token t of ts was issued to character c in the given flow.
Issued(ts, t, c, flow) == t \in 1..Len(ts) /\ ts[t].char = c /\ ts[t].flow = flow

\* What the phase of a request says of its locals.
RequestOK(ts, r) ==
  /\ r \in Busy
  /\ r.base \in 0..Len(ts) /\ r.corp \in 0..Len(ts)
  /\ r.phase \in {"find", "base", "corp", "save", "body"} => r.session.char \in Chars
  /\ r.phase \in {"base", "corp", "save"} =>
       /\ Issued(ts, r.base, r.session.char, "base")
       /\ r.corp # NoToken => Issued(ts, r.corp, r.session.char, "corp")
  /\ r.phase \in {"find", "base"} => r.touched = {}
  /\ r.phase = "corp" => r.corp # NoToken /\ "corp" \notin r.touched
  /\ r.phase = "save" => r.touched # {}
  /\ r.phase \in {"exchange", "store"} => r.as \in Chars /\ r.corp = NoToken
  /\ r.phase = "exchange" => \E p \in Pages : r.opens = {p} /\ p.flow = r.flow
  /\ r.phase = "store" => Issued(ts, r.base, r.as, r.flow)

\* A document d of character c that is there has its tokens; one that is not
\* has none.
DocumentOK(ts, c, d) ==
  /\ d.base # NoToken => Issued(ts, d.base, c, "base")
  /\ d.corp # NoToken => d.base # NoToken /\ Issued(ts, d.corp, c, "corp")

LocalsInv ==
  /\ \A q \in Requests : req[q] # Idle => RequestOK(tokens, req[q])
  /\ \A c \in Chars : DocumentOK(tokens, c, db[c])

\* A session, or the pages of a set, hold nonce n for a login or for a
\* connection of the corporation.
SessionHas(s, n, flow) == n = IF flow = "base" THEN s.login ELSE s.corp
PagesHave(P, n, flow) == \E p \in P : p.nonce = n /\ p.flow = flow
ForFlow(n, flow) ==
  \/ \E b \in Browsers : SessionHas(cookie[b], n, flow) \/ PagesHave(pages[b], n, flow)
  \/ \E q \in Requests :
       /\ req[q] # Idle
       /\ SessionHas(req[q].session, n, flow) \/ PagesHave(req[q].opens, n, flow)

\* No nonce is for both, so the state that matches tells the flow.
NonceInv ==
  \A n \in Nonces \ {NoNonce} :
    /\ \A flow \in Flows : ForFlow(n, flow) => n <= nonces
    /\ ~(ForFlow(n, "base") /\ ForFlow(n, "corp"))

\* The locals r carry token t to be saved, hold it unseen by anyone else, name it.
CarriesIn(r, t) ==
  /\ r.phase \in {"corp", "save"}
  /\ \/ "base" \in r.touched /\ r.base = t
     \/ "corp" \in r.touched /\ r.corp = t
Owns(r, t) == CarriesIn(r, t) \/ (r.phase = "store" /\ r.base = t)
Names(r, t) == r.phase \in {"base", "corp", "save", "store"} /\ (r.base = t \/ r.corp = t)
StoredToken(t) == \E c \in Chars : db[c].base = t \/ db[c].corp = t

OwnInv ==
  \A q \in Requests, t \in 1..Len(tokens) : Owns(req[q], t) =>
    /\ tokens[t].next = NoToken
    /\ ~StoredToken(t)
    /\ \A p \in Requests \ {q} : ~Names(req[p], t)

\* A rotated token is replaced by one of the same character and flow.
NextInv ==
  \A t \in 1..Len(tokens) : tokens[t].next # NoToken =>
    Issued(tokens, tokens[t].next, tokens[t].char, tokens[t].flow)

AuthInv == TypeOK /\ LocalsInv /\ NonceInv /\ OwnInv /\ NextInv /\ StoredTokenAccounted

-----------------------------------------------------------------------------
(* The tokens of EVE SSO *)

\* us is ts some steps later: no token changes its character or flow, and only
\* those of S may have been replaced, by the one that was issued last.
Extends(ts, us, S) ==
  /\ us \in Seq(TokenRecords) /\ Len(us) \in Nat /\ Len(us) <= MaxTokens /\ Len(ts) <= Len(us)
  /\ \A t \in 1..Len(ts) :
       /\ us[t].char = ts[t].char /\ us[t].flow = ts[t].flow
       /\ ts[t].revoked => us[t].revoked
       /\ ts[t].lost => us[t].lost
       /\ \/ us[t].next = ts[t].next
          \/ /\ t \in S /\ us[t].next = Len(ts) + 1
             /\ Issued(us, Len(ts) + 1, ts[t].char, ts[t].flow)
  /\ \A t \in 1..Len(us) : t > Len(ts) => us[t].next = NoToken

LEMMA NoExtension ==
  ASSUME NEW ts \in Seq(TokenRecords), Len(ts) <= MaxTokens
  PROVE  Extends(ts, ts, {})
BY LenProperties DEF Extends

LEMMA FreshIsToken ==
  ASSUME NEW c \in Chars, NEW flow \in Flows
  PROVE  /\ Fresh(c, flow) \in TokenRecords
         /\ [Fresh(c, flow) EXCEPT !.lost = TRUE] \in TokenRecords
         /\ [Fresh(c, flow) EXCEPT !.lost = FALSE] \in TokenRecords
<1>1. Fresh(c, flow) \in TokenRecords
  BY BoundsAreNat DEF Fresh, TokenRecords, Tokens, NoToken
<1>2. \A f \in TokenRecords : [f EXCEPT !.lost = TRUE] \in TokenRecords
  BY DEF TokenRecords
<1>3. \A f \in TokenRecords : [f EXCEPT !.lost = FALSE] \in TokenRecords
  BY DEF TokenRecords
<1> QED
  BY <1>1, <1>2, <1>3

LEMMA Appended ==
  ASSUME NEW ts \in Seq(TokenRecords), Len(ts) < MaxTokens,
         NEW f \in TokenRecords, f.next = NoToken
  PROVE  /\ Extends(ts, Append(ts, f), {})
         /\ Len(Append(ts, f)) = Len(ts) + 1
         /\ Append(ts, f)[Len(ts) + 1] = f
         /\ \A t \in 1..Len(ts) : Append(ts, f)[t] = ts[t]
<1>1. /\ Append(ts, f) \in Seq(TokenRecords)
      /\ Len(Append(ts, f)) = Len(ts) + 1
      /\ Append(ts, f)[Len(ts) + 1] = f
      /\ \A t \in 1..Len(ts) : Append(ts, f)[t] = ts[t]
      /\ Len(ts) \in Nat
  BY AppendProperties, LenProperties
<1>2. \A t \in 1..Len(Append(ts, f)) : t > Len(ts) => t = Len(ts) + 1
  BY <1>1
<1>3. Len(ts) + 1 <= MaxTokens /\ Len(ts) <= Len(ts) + 1
  BY <1>1, BoundsAreNat
<1> QED
  BY <1>1, <1>2, <1>3 DEF Extends

\* Record g of a token keeps what f says of it for good.
Keeps(f, g) ==
  /\ g.char = f.char /\ g.flow = f.flow /\ g.next = f.next
  /\ f.revoked => g.revoked
  /\ f.lost => g.lost

LEMMA FlagsKeep ==
  ASSUME NEW f \in TokenRecords,
         NEW g \in {f, [f EXCEPT !.expired = TRUE], [f EXCEPT !.revoked = TRUE],
                    [f EXCEPT !.lost = TRUE]}
  PROVE  g \in TokenRecords /\ Keeps(f, g)
<1>1. CASE g = f
  BY <1>1 DEF Keeps
<1>2. CASE g = [f EXCEPT !.expired = TRUE]
  BY <1>2 DEF Keeps, TokenRecords
<1>3. CASE g = [f EXCEPT !.revoked = TRUE]
  BY <1>3 DEF Keeps, TokenRecords
<1>4. CASE g = [f EXCEPT !.lost = TRUE]
  BY <1>4 DEF Keeps, TokenRecords
<1> QED
  BY <1>1, <1>2, <1>3, <1>4

\* A sequence that sets a flag in some records of another.
LEMMA Rewritten ==
  ASSUME NEW ts \in Seq(TokenRecords), Len(ts) <= MaxTokens, NEW us,
         us = [t \in 1..Len(ts) |-> us[t]],
         \A t \in 1..Len(ts) :
            us[t] \in {ts[t], [ts[t] EXCEPT !.expired = TRUE], [ts[t] EXCEPT !.revoked = TRUE],
                       [ts[t] EXCEPT !.lost = TRUE]}
  PROVE  Extends(ts, us, {}) /\ Len(us) = Len(ts)
<1>1. Len(ts) \in Nat /\ \A t \in 1..Len(ts) : ts[t] \in TokenRecords
  BY LenProperties, ElementOfSeq
<1>2. \A t \in 1..Len(ts) : us[t] \in TokenRecords /\ Keeps(ts[t], us[t])
  BY <1>1, FlagsKeep
<1>3. us \in [1..Len(ts) -> TokenRecords]
  BY <1>2
<1>4. us \in Seq(TokenRecords) /\ Len(us) = Len(ts)
  BY <1>1, <1>3, SeqDef, LenProperties
<1> QED
  BY <1>1, <1>2, <1>4 DEF Extends, Keeps

LEMMA Lost ==
  ASSUME NEW ts \in Seq(TokenRecords), Len(ts) <= MaxTokens, NEW S
  PROVE  /\ Extends(ts, Lose(ts, S), {}) /\ Len(Lose(ts, S)) = Len(ts)
         /\ \A t \in 1..Len(ts) : t \in S => Lose(ts, S)[t].lost
<1> DEFINE us == Lose(ts, S)
<1>1. DOMAIN ts = 1..Len(ts) /\ \A t \in 1..Len(ts) : ts[t] \in TokenRecords
  BY LenProperties, ElementOfSeq
<1>2. /\ us = [t \in 1..Len(ts) |-> us[t]]
      /\ \A t \in 1..Len(ts) : us[t] = IF t \in S THEN [ts[t] EXCEPT !.lost = TRUE] ELSE ts[t]
  BY <1>1 DEF Lose
<1> HIDE DEF us
<1>3. \A f \in TokenRecords : [f EXCEPT !.lost = TRUE].lost
  BY DEF TokenRecords
<1>4. Extends(ts, us, {}) /\ Len(us) = Len(ts)
  BY <1>2, Rewritten
<1> QED
  BY <1>1, <1>2, <1>3, <1>4 DEF us

LEMMA ExtendsTwice ==
  ASSUME NEW ts \in Seq(TokenRecords), NEW us, NEW vs, NEW S,
         Extends(ts, us, S), Extends(us, vs, {})
  PROVE  Extends(ts, vs, S)
<1>1. Len(ts) \in Nat /\ Len(us) \in Nat /\ Len(vs) \in Nat /\ Len(ts) <= Len(us) /\ Len(us) <= Len(vs)
  BY LenProperties DEF Extends
<1>2. \A t \in 1..Len(ts) : t \in 1..Len(us)
  BY <1>1
<1>3. \A t \in 1..Len(us) : /\ vs[t].char = us[t].char /\ vs[t].flow = us[t].flow
                            /\ vs[t].next = us[t].next
                            /\ us[t].revoked => vs[t].revoked
                            /\ us[t].lost => vs[t].lost
  BY DEF Extends
<1>4. \A c, f : Issued(us, Len(ts) + 1, c, f) => Issued(vs, Len(ts) + 1, c, f)
  BY <1>1, <1>3 DEF Issued
<1>5. \A t \in 1..Len(vs) : t > Len(ts) => vs[t].next = NoToken
  <2> SUFFICES ASSUME NEW t \in 1..Len(vs), t > Len(ts) PROVE vs[t].next = NoToken
    OBVIOUS
  <2>1. CASE t \in 1..Len(us)
    BY <2>1, <1>3 DEF Extends
  <2>2. CASE t > Len(us)
    BY <2>2 DEF Extends
  <2> QED
    BY <2>1, <2>2, <1>1
<1> QED
  BY <1>1, <1>2, <1>3, <1>4, <1>5 DEF Extends

\* A refresh with a token issues one of the same character and flow.
LEMMA RefreshedTokens ==
  ASSUME TypeOK, NEW t \in 1..Len(tokens), Room
  PROVE  /\ Extends(tokens, Refreshed(t), {t})
         /\ Len(Refreshed(t)) = Len(tokens) + 1
         /\ Issued(Refreshed(t), Len(tokens) + 1, tokens[t].char, tokens[t].flow)
         /\ Refreshed(t)[t].next \in {tokens[t].next, Len(tokens) + 1}
<1> DEFINE f == Fresh(tokens[t].char, tokens[t].flow)
           us == Append(tokens, f)
           vs == [us EXCEPT ![t].next = NewToken]
<1>1. tokens \in Seq(TokenRecords) /\ Len(tokens) \in Nat /\ Len(tokens) < MaxTokens
  BY LenProperties DEF TypeOK, Room
<1>2. tokens[t] \in TokenRecords
  BY <1>1, ElementOfSeq
<1>3. f \in TokenRecords /\ f.next = NoToken /\ f.char = tokens[t].char /\ f.flow = tokens[t].flow
  <2>1. tokens[t].char \in Chars /\ tokens[t].flow \in Flows
    BY <1>2 DEF TokenRecords
  <2> QED
    BY <2>1, FreshIsToken DEF Fresh
<1>4. /\ Extends(tokens, us, {}) /\ Len(us) = Len(tokens) + 1 /\ us[Len(tokens) + 1] = f
      /\ \A u \in 1..Len(tokens) : us[u] = tokens[u]
  BY <1>1, <1>3, Appended
<1>5. us \in Seq(TokenRecords) /\ DOMAIN us = 1..Len(us)
  BY <1>4, LenProperties DEF Extends
<1> HIDE DEF us, f
<1>6. /\ vs \in Seq(TokenRecords) /\ Len(vs) = Len(us)
      /\ \A u \in 1..Len(us) : u # t => vs[u] = us[u]
      /\ vs[t] = [us[t] EXCEPT !.next = Len(tokens) + 1]
  <2>1. t \in 1..Len(us) /\ us[t] \in TokenRecords
    BY <1>1, <1>2, <1>4
  <2>2. Len(tokens) + 1 \in Tokens
    BY <1>1, BoundsAreNat DEF Tokens
  <2>3. [us[t] EXCEPT !.next = Len(tokens) + 1] \in TokenRecords
    BY <2>1, <2>2 DEF TokenRecords
  <2>4. vs = [us EXCEPT ![t] = [us[t] EXCEPT !.next = Len(tokens) + 1]]
    BY DEF NewToken
  <2> DEFINE x == [us[t] EXCEPT !.next = Len(tokens) + 1]
  <2>5. x \in TokenRecords /\ vs = [us EXCEPT ![t] = x]
    BY <2>3, <2>4
  <2> HIDE DEF x, vs
  <2>6. vs \in Seq(TokenRecords) /\ Len(vs) = Len(us) /\ \A u \in 1..Len(us) : vs[u] = IF u = t THEN x ELSE us[u]
    BY <2>5, <2>1, <1>5, ExceptSeq
  <2> QED
    BY <2>6, <2>1 DEF x
<1>7. /\ vs[t].next = Len(tokens) + 1
      /\ vs[t].char = us[t].char /\ vs[t].flow = us[t].flow
      /\ vs[t].revoked = us[t].revoked /\ vs[t].lost = us[t].lost
  BY <1>2, <1>4, <1>6 DEF TokenRecords
<1> HIDE DEF vs
<1>8. Refreshed(t) = IF Rotates THEN vs ELSE us
  BY DEF Refreshed, vs, us, f
<1>9. Extends(tokens, vs, {t}) /\ Issued(vs, Len(tokens) + 1, tokens[t].char, tokens[t].flow)
  <2>1. Len(tokens) + 1 # t /\ Len(tokens) + 1 \in 1..Len(us)
    BY <1>1, <1>4
  <2>2. Issued(vs, Len(tokens) + 1, tokens[t].char, tokens[t].flow)
    BY <2>1, <1>3, <1>4, <1>6 DEF Issued
  <2>3. \A u \in 1..Len(vs) : u > Len(tokens) => vs[u].next = NoToken
    BY <1>1, <1>3, <1>4, <1>6, <2>1
  <2>4. \A u \in 1..Len(tokens) : u # t => vs[u] = tokens[u]
    BY <1>1, <1>4, <1>6
  <2>5. us[t] = tokens[t]
    BY <1>4
  <2>6. Len(vs) \in Nat /\ Len(vs) <= MaxTokens /\ Len(tokens) <= Len(vs)
    BY <1>4, <1>6 DEF Extends
  <2> QED
    BY <2>2, <2>3, <2>4, <2>5, <2>6, <1>6, <1>7 DEF Extends
<1>10. Extends(tokens, us, {t}) /\ Issued(us, Len(tokens) + 1, tokens[t].char, tokens[t].flow)
  <2>1. Len(tokens) + 1 \in 1..Len(us)
    BY <1>1, <1>4
  <2> QED
    BY <2>1, <1>3, <1>4 DEF Extends, Issued
<1> QED
  BY <1>4, <1>6, <1>7, <1>8, <1>9, <1>10

-----------------------------------------------------------------------------
(* The locals of requests *)

LEMMA IdleApart ==
  /\ Idle \notin Busy
  /\ \A t : ~Owns(Idle, t) /\ ~Names(Idle, t) /\ ~CarriesIn(Idle, t)
<1>1. Idle.phase = "idle" /\ \A b \in Busy : b.phase # "idle"
  BY DEF Idle, Busy, Phases
<1> QED
  BY <1>1 DEF Owns, Names, CarriesIn

LEMMA CarriesByLocals ==
  ASSUME NEW q \in Requests, NEW t
  PROVE  Carries(q, t) <=> CarriesIn(req[q], t)
BY DEF Carries, CarriesIn

\* What is true of a request or a document stays true as tokens are issued.
LEMMA IssuedStays ==
  ASSUME NEW ts, NEW us, NEW S, Len(ts) \in Nat, Extends(ts, us, S),
         NEW t, NEW c, NEW flow, Issued(ts, t, c, flow)
  PROVE  Issued(us, t, c, flow)
BY DEF Issued, Extends

LEMMA RequestStaysOK ==
  ASSUME NEW ts, NEW us, NEW S, Len(ts) \in Nat, Extends(ts, us, S), NEW r, RequestOK(ts, r)
  PROVE  RequestOK(us, r)
<1>1. \A t, c, flow : Issued(ts, t, c, flow) => Issued(us, t, c, flow)
  BY IssuedStays
<1>2. \A n : n \in 0..Len(ts) => n \in 0..Len(us)
  BY DEF Extends
<1> QED
  BY <1>1, <1>2 DEF RequestOK

LEMMA DocumentStaysOK ==
  ASSUME NEW ts, NEW us, NEW S, Len(ts) \in Nat, Extends(ts, us, S),
         NEW c, NEW d, DocumentOK(ts, c, d)
  PROVE  DocumentOK(us, c, d)
BY IssuedStays DEF DocumentOK

\* The locals of request q become r, and tokens of S may be replaced.
LocalsStep(q, r, S) ==
  /\ req' = [req EXCEPT ![q] = r]
  /\ r = Idle \/ RequestOK(tokens', r)
  /\ Extends(tokens, tokens', S)
  /\ db' \in [Chars -> Docs]
  /\ \A c \in Chars : DocumentOK(tokens', c, db'[c])
  /\ \A t : StoredToken(t)' => t \in 0..Len(tokens)
  /\ \A t \in S : Names(req[q], t)
  /\ \A t \in 1..Len(tokens) :
       /\ Names(r, t) => Names(req[q], t) \/ StoredToken(t)
       /\ Owns(r, t) => Owns(req[q], t) /\ t \notin S /\ ~StoredToken(t)'
       /\ StoredToken(t)' => StoredToken(t) \/ Owns(req[q], t)
       /\ CarriesIn(req[q], t) =>
            \/ CarriesIn(r, t)
            \/ tokens'[t].lost
            \/ \A u \in 1..Len(tokens) : StoredToken(u)' => tokens[u].next # t
  /\ \A t \in S : tokens'[t].next = Len(tokens) + 1 =>
       CarriesIn(r, Len(tokens) + 1) \/ tokens'[Len(tokens) + 1].lost

LEMMA LocalsStepOwn ==
  ASSUME AuthInv, NEW q \in Requests, NEW r, NEW S, LocalsStep(q, r, S)
  PROVE  LocalsInv' /\ OwnInv' /\ NextInv'
<1>1. /\ req \in [Requests -> Busy \cup {Idle}] /\ tokens \in Seq(TokenRecords)
      /\ Len(tokens) \in Nat
  BY LenProperties DEF AuthInv, TypeOK
<1>2. \A p \in Requests : req'[p] = IF p = q THEN r ELSE req[p]
  BY <1>1 DEF LocalsStep
<1>3. Extends(tokens, tokens', S)
  BY DEF LocalsStep
<1>4. \A p \in Requests : req'[p] # Idle => RequestOK(tokens', req'[p])
  BY <1>1, <1>2, <1>3, RequestStaysOK DEF LocalsStep, AuthInv, LocalsInv
<1>5. LocalsInv'
  BY <1>4 DEF LocalsInv, LocalsStep
<1>6. NextInv'
  <2> SUFFICES ASSUME NEW t \in 1..Len(tokens'), tokens'[t].next # NoToken
               PROVE  Issued(tokens', tokens'[t].next, tokens'[t].char, tokens'[t].flow)
    BY DEF NextInv, Issued
  <2>1. t \in 1..Len(tokens)
    BY <1>1, <1>3 DEF Extends
  <2>2. CASE tokens'[t].next = tokens[t].next
    <3>1. Issued(tokens, tokens[t].next, tokens[t].char, tokens[t].flow)
      BY <2>1, <2>2 DEF AuthInv, NextInv
    <3> QED
      BY <3>1, <2>1, <2>2, <1>1, <1>3, IssuedStays DEF Extends
  <2>3. CASE tokens'[t].next # tokens[t].next
    BY <2>1, <2>3, <1>3 DEF Extends
  <2> QED
    BY <2>2, <2>3
<1>7. OwnInv'
  <2> SUFFICES ASSUME NEW p \in Requests, NEW t \in 1..Len(tokens'), Owns(req'[p], t)
               PROVE  /\ tokens'[t].next = NoToken
                      /\ ~StoredToken(t)'
                      /\ \A o \in Requests \ {p} : ~Names(req'[o], t)
    BY DEF OwnInv, Owns, CarriesIn, Names
  <2>1. CASE t \in 1..Len(tokens) /\ p = q
    <3>1. Owns(r, t) /\ Owns(req[q], t) /\ t \notin S /\ ~StoredToken(t)'
      BY <2>1, <1>2 DEF LocalsStep
    <3>2. tokens[t].next = NoToken /\ \A o \in Requests \ {q} : ~Names(req[o], t)
      BY <3>1, <2>1 DEF AuthInv, OwnInv
    <3>3. tokens'[t].next = tokens[t].next
      BY <3>1, <2>1, <1>3 DEF Extends
    <3> QED
      BY <3>1, <3>2, <3>3, <2>1, <1>2
  <2>2. CASE t \in 1..Len(tokens) /\ p # q
    <3>1. Owns(req[p], t)
      BY <2>2, <1>2
    <3>2. tokens[t].next = NoToken /\ ~StoredToken(t) /\ \A o \in Requests \ {p} : ~Names(req[o], t)
      BY <3>1, <2>2 DEF AuthInv, OwnInv
    <3>3. ~Names(req[q], t) /\ ~Owns(req[q], t)
      BY <3>2, <2>2 DEF Owns, Names, CarriesIn
    <3>4. t \notin S /\ ~Names(r, t) /\ ~StoredToken(t)'
      BY <3>2, <3>3, <2>2 DEF LocalsStep
    <3>5. tokens'[t].next = tokens[t].next
      BY <3>4, <2>2, <1>3 DEF Extends
    <3> QED
      BY <3>2, <3>4, <3>5, <1>2
  <2>3. CASE t > Len(tokens)
    <3>1. \A o \in Requests : o # q => ~Names(req[o], t)
      <4> SUFFICES ASSUME NEW o \in Requests, o # q, Names(req[o], t) PROVE FALSE
        OBVIOUS
      <4>1. RequestOK(tokens, req[o])
        BY IdleApart DEF AuthInv, LocalsInv
      <4> QED
        BY <4>1, <2>3, <1>1 DEF RequestOK, Names
    <3>2. p = q
      BY <3>1, <1>2 DEF Owns, Names, CarriesIn
    <3>3. ~StoredToken(t)'
      BY <2>3, <1>1 DEF LocalsStep
    <3> QED
      BY <3>1, <3>2, <3>3, <2>3, <1>2, <1>3 DEF Extends
  <2> QED
    BY <2>1, <2>2, <2>3, <1>1, <1>3 DEF Extends
<1> QED
  BY <1>5, <1>6, <1>7

\* Token t is good, or its replacement is on the way to the document or lost.
Accounted(t) ==
  \/ tokens[t].next = NoToken \/ tokens[t].revoked
  \/ tokens[tokens[t].next].lost
  \/ \E q \in Requests : CarriesIn(req[q], tokens[t].next)

AllAccounted == \A t : StoredToken(t) /\ t # NoToken => Accounted(t)
StoredKnown ==
  /\ \A c \in Chars : DocumentOK(tokens, c, db[c])
  /\ \A t \in 1..Len(tokens) : tokens[t] \in TokenRecords

LEMMA AccountedByToken ==
  StoredKnown => (StoredTokenAccounted <=> AllAccounted)
<1> SUFFICES ASSUME StoredKnown PROVE StoredTokenAccounted <=> AllAccounted
  OBVIOUS
<1>1. \A t : \A q \in Requests : Carries(q, t) <=> CarriesIn(req[q], t)
  BY CarriesByLocals
<1>2. \A t : (\E c \in Chars : t \in {db[c].base, db[c].corp}) <=> StoredToken(t)
  BY DEF StoredToken
<1>3. StoredTokenAccounted <=>
        \A t : (\E c \in Chars : t \in {db[c].base, db[c].corp} \ {NoToken}) =>
          LET n == tokens[t].next
          IN  \/ Live(t) \/ tokens[t].revoked
              \/ n # NoToken /\ (tokens[n].lost \/ \E q \in Requests : Carries(q, n))
  BY DEF StoredTokenAccounted
<1>4. \A t : StoredToken(t) /\ t # NoToken => tokens[t].revoked \in BOOLEAN
  <2> SUFFICES ASSUME NEW t, StoredToken(t), t # NoToken PROVE tokens[t].revoked \in BOOLEAN
    OBVIOUS
  <2>1. t \in 1..Len(tokens)
    BY DEF StoredKnown, StoredToken, DocumentOK, Issued
  <2>2. tokens[t] \in TokenRecords
    BY <2>1 DEF StoredKnown
  <2> QED
    BY <2>2 DEF TokenRecords
<1> QED
  BY <1>1, <1>2, <1>3, <1>4 DEF AllAccounted, Accounted, Live

LEMMA LocalsStepAccounted ==
  ASSUME AuthInv, NEW q \in Requests, NEW r, NEW S, LocalsStep(q, r, S)
  PROVE  StoredTokenAccounted'
<1>1. /\ req \in [Requests -> Busy \cup {Idle}] /\ tokens \in Seq(TokenRecords)
      /\ Len(tokens) \in Nat
  BY LenProperties DEF AuthInv, TypeOK
<1>2. \A p \in Requests : req'[p] = IF p = q THEN r ELSE req[p]
  BY <1>1 DEF LocalsStep
<1>3. Extends(tokens, tokens', S)
  BY DEF LocalsStep
<1>4. \A t \in 1..Len(tokens) : tokens[t] \in TokenRecords
  BY <1>1, ElementOfSeq
<1>5. \A t \in 1..Len(tokens') : tokens'[t] \in TokenRecords
  BY <1>3, ElementOfSeq DEF Extends
<1>6. \A t : StoredToken(t) /\ t # NoToken => Accounted(t)
  BY <1>4, AccountedByToken DEF AuthInv, LocalsInv, StoredKnown, AllAccounted
<1>7. ASSUME NEW t, StoredToken(t)', t # NoToken PROVE Accounted(t)'
  <2>1. t \in 1..Len(tokens)
    BY <1>1, <1>7 DEF NoToken, LocalsStep
  <2>2. tokens[t].revoked => tokens'[t].revoked
    BY <2>1, <1>3 DEF Extends
  <2>3. CASE tokens'[t].next # tokens[t].next
    <3>1. t \in S /\ tokens'[t].next = Len(tokens) + 1
      BY <2>1, <2>3, <1>3 DEF Extends
    <3>2. CarriesIn(req'[q], Len(tokens) + 1) \/ tokens'[Len(tokens) + 1].lost
      BY <3>1, <1>2 DEF LocalsStep
    <3> QED
      BY <3>1, <3>2 DEF Accounted
  <2>4. CASE tokens'[t].next = tokens[t].next /\ tokens[t].next = NoToken
    BY <2>4 DEF Accounted
  <2>5. CASE tokens'[t].next = tokens[t].next /\ tokens[t].next # NoToken
    <3>1. StoredToken(t)
      <4>1. StoredToken(t) \/ Owns(req[q], t)
        BY <2>1, <1>7 DEF LocalsStep
      <4>2. Owns(req[q], t) => tokens[t].next = NoToken
        BY <2>1 DEF AuthInv, OwnInv
      <4> QED
        BY <4>1, <4>2, <2>5
    <3>2. tokens[t].next \in 1..Len(tokens)
      BY <2>1, <2>5 DEF AuthInv, NextInv, Issued
    <3>3. CASE tokens[t].revoked
      BY <3>3, <2>2 DEF Accounted
    <3>4. CASE tokens[tokens[t].next].lost
      <4>1. tokens'[tokens[t].next].lost
        BY <3>2, <3>4, <1>3 DEF Extends
      <4> QED
        BY <4>1, <2>5 DEF Accounted
    <3>5. ASSUME NEW p \in Requests, CarriesIn(req[p], tokens[t].next) PROVE Accounted(t)'
      <4>1. CASE p # q
        <5>1. CarriesIn(req'[p], tokens'[t].next)
          BY <4>1, <3>5, <2>5, <1>2
        <5> QED
          BY <5>1 DEF Accounted
      <4>2. CASE p = q
        <5>1. \/ CarriesIn(r, tokens[t].next)
              \/ tokens'[tokens[t].next].lost
              \/ \A u \in 1..Len(tokens) : StoredToken(u)' => tokens[u].next # tokens[t].next
          BY <4>2, <3>5, <3>2 DEF LocalsStep
        <5>2. CarriesIn(req'[q], tokens'[t].next) \/ tokens'[tokens'[t].next].lost
          BY <5>1, <1>7, <2>1, <2>5, <1>2
        <5> QED
          BY <5>2 DEF Accounted
      <4> QED
        BY <4>1, <4>2
    <3> QED
      BY <3>1, <3>3, <3>4, <3>5, <2>5, <1>6, <1>7 DEF Accounted
  <2> QED
    BY <2>3, <2>4, <2>5
<1>8. StoredKnown' /\ AllAccounted'
  BY <1>5, <1>7 DEF LocalsStep, StoredKnown, AllAccounted
<1> QED
  BY <1>8, AccountedByToken, PTL

-----------------------------------------------------------------------------
(* What each action makes of the locals of its request *)

LEMMA StoredTokens ==
  ASSUME AuthInv
  PROVE  \A t : StoredToken(t) => t \in 0..Len(tokens)
<1>1. Len(tokens) \in Nat
  BY LenProperties DEF AuthInv, TypeOK
<1> QED
  BY <1>1 DEF AuthInv, LocalsInv, DocumentOK, Issued, StoredToken, NoToken

LEMMA Known ==
  ASSUME AuthInv
  PROVE  /\ tokens \in Seq(TokenRecords) /\ Len(tokens) \in Nat /\ Len(tokens) <= MaxTokens
         /\ req \in [Requests -> Busy \cup {Idle}] /\ db \in [Chars -> Docs]
         /\ \A q \in Requests : req[q] # Idle => RequestOK(tokens, req[q])
BY LenProperties DEF AuthInv, TypeOK, LocalsInv

\* A step that changes neither the documents nor the tokens.
LEMMA QuietStep ==
  ASSUME AuthInv, NEW q \in Requests, NEW r, req' = [req EXCEPT ![q] = r],
         r = Idle \/ RequestOK(tokens, r), UNCHANGED <<db, tokens>>,
         \A t \in 1..Len(tokens) :
            /\ Names(r, t) => Names(req[q], t) \/ StoredToken(t)
            /\ Owns(r, t) => Owns(req[q], t)
            /\ CarriesIn(req[q], t) => CarriesIn(r, t)
  PROVE  LocalsStep(q, r, {})
<1>1. Extends(tokens, tokens, {})
  BY Known, NoExtension
<1>2. \A t : StoredToken(t)' <=> StoredToken(t)
  BY DEF StoredToken
<1>3. \A t : StoredToken(t) => t \in 0..Len(tokens)
  BY StoredTokens
<1>4. \A t \in 1..Len(tokens) : Owns(req[q], t) => ~StoredToken(t)
  BY DEF AuthInv, OwnInv
<1>5. \A c \in Chars : DocumentOK(tokens, c, db[c])
  BY DEF AuthInv, LocalsInv
<1> QED
  BY <1>1, <1>2, <1>3, <1>4, <1>5, Known DEF LocalsStep

\* A request that arrives names no token.
LEMMA ArriveStep ==
  ASSUME AuthInv, NEW q \in Requests, NEW r, req' = [req EXCEPT ![q] = r], req[q] = Idle,
         r \in Busy, r.base = NoToken, r.corp = NoToken, r.touched = {},
         \/ r.phase = "respond"
         \/ r.phase = "find" /\ r.session.char \in Chars
         \/ /\ r.phase = "exchange" /\ r.as \in Chars
            /\ \E p \in Pages : r.opens = {p} /\ p.flow = r.flow,
         UNCHANGED <<db, tokens>>
  PROVE  LocalsStep(q, r, {})
<1>1. RequestOK(tokens, r)
  BY Known DEF RequestOK, NoToken
<1>2. \A t : ~Names(r, t) /\ ~Owns(r, t)
  BY DEF Names, Owns, CarriesIn
<1>3. \A t : ~CarriesIn(req[q], t)
  BY IdleApart
<1> QED
  BY <1>1, <1>2, <1>3, QuietStep

LEMMA ArrivingType ==
  ASSUME TypeOK, NEW b \in Browsers, NEW route \in Routes, NEW phase \in Phases
  PROVE  /\ Arriving(b, route, phase) \in Busy
         /\ Arriving(b, route, phase) =
              [phase |-> phase, route |-> route, browser |-> b, session |-> cookie[b],
               base |-> NoToken, corp |-> NoToken, touched |-> {},
               flow |-> "base", as |-> NoChar, opens |-> {}]
<1>1. cookie[b] \in Sessions
  BY DEF TypeOK
<1> QED
  BY <1>1, BoundsAreNat DEF Arriving, Busy, Flows, Tokens, NoToken

\* The nonces of r come from session s and from the pages of P.
NoncesFrom(r, s, P) ==
  r = Idle \/ /\ r.session.login \in {s.login, NoNonce}
              /\ r.session.corp \in {s.corp, NoNonce}
              /\ r.opens \subseteq P

\* The request a login opens.
LEMMA LoginStep ==
  ASSUME AuthInv, NEW q \in Requests, NEW b \in Browsers, Login(q, b)
  PROVE  \E r : /\ LocalsStep(q, r, {})
                /\ r.session = [cookie[b] EXCEPT !.login = nonces + 1]
                /\ r.opens = {[nonce |-> nonces + 1, flow |-> "base"]}
<1> DEFINE a == Arriving(b, "login", "respond")
           s == [cookie[b] EXCEPT !.login = nonces + 1]
           P == {[nonce |-> nonces + 1, flow |-> "base"]}
           r == [[a EXCEPT !.session = s] EXCEPT !.opens = P]
<1>1. /\ a \in Busy /\ a.session = cookie[b] /\ a.phase = "respond"
      /\ a.base = NoToken /\ a.corp = NoToken /\ a.touched = {}
  BY ArrivingType DEF AuthInv, Routes, Phases
<1>2. nonces + 1 \in Nonces /\ nonces + 1 # NoNonce /\ cookie[b] \in Sessions
  BY BoundsAreNat DEF AuthInv, TypeOK, Login, Nonces, NoNonce
<1>3. s \in Sessions
  BY <1>2 DEF Sessions
<1>4. P \in SUBSET Pages
  BY <1>2 DEF Pages, Flows
<1>5. req' = [req EXCEPT ![q] = r] /\ req[q] = Idle /\ UNCHANGED <<db, tokens>>
  BY <1>1 DEF Login
<1> HIDE DEF a, s, P
<1>6. /\ r \in Busy /\ r.session = s /\ r.opens = P /\ r.phase = "respond"
      /\ r.base = NoToken /\ r.corp = NoToken /\ r.touched = {}
  BY <1>1, <1>3, <1>4 DEF Busy
<1> HIDE DEF r
<1>7. LocalsStep(q, r, {})
  BY <1>5, <1>6, ArriveStep
<1> QED
  BY <1>6, <1>7 DEF s, P

LEMMA LogoutStep ==
  ASSUME AuthInv, NEW q \in Requests, NEW b \in Browsers, Logout(q, b)
  PROVE  \E r : LocalsStep(q, r, {}) /\ NoncesFrom(r, cookie[b], {})
<1> DEFINE a == Arriving(b, "logout", "respond")
           r == [a EXCEPT !.session = EmptySession]
<1>1. /\ a \in Busy /\ a.session = cookie[b] /\ a.phase = "respond"
      /\ a.base = NoToken /\ a.corp = NoToken /\ a.touched = {} /\ a.opens = {}
  BY ArrivingType DEF AuthInv, Routes, Phases
<1>2. EmptySession \in Sessions
  BY BoundsAreNat DEF EmptySession, Sessions, Nonces, NoNonce
<1>3. req' = [req EXCEPT ![q] = r] /\ req[q] = Idle /\ UNCHANGED <<db, tokens>>
  BY DEF Logout
<1> HIDE DEF a
<1>4. /\ r \in Busy /\ r.session = EmptySession /\ r.opens = {} /\ r.phase = "respond"
      /\ r.base = NoToken /\ r.corp = NoToken /\ r.touched = {}
  BY <1>1, <1>2 DEF Busy
<1> HIDE DEF r
<1>5. LocalsStep(q, r, {})
  BY <1>3, <1>4, ArriveStep
<1> QED
  BY <1>4, <1>5 DEF NoncesFrom, EmptySession

LEMMA GuardedStep ==
  ASSUME AuthInv, NEW q \in Requests, NEW b \in Browsers,
         NEW route \in {"page", "connect", "disconnect", "clear"}, Guarded(q, b, route)
  PROVE  \E r : LocalsStep(q, r, {}) /\ NoncesFrom(r, cookie[b], {})
<1> DEFINE r == Arriving(b, route, "find")
<1>1. /\ r \in Busy /\ r.session = cookie[b] /\ r.phase = "find"
      /\ r.base = NoToken /\ r.corp = NoToken /\ r.touched = {} /\ r.opens = {}
  BY ArrivingType DEF AuthInv, Routes, Phases
<1>2. cookie[b].char \in Chars
  BY DEF Guarded, AuthInv, TypeOK, Sessions
<1>3. req' = [req EXCEPT ![q] = r] /\ req[q] = Idle /\ UNCHANGED <<db, tokens>>
  BY DEF Guarded
<1> HIDE DEF r
<1>4. LocalsStep(q, r, {})
  BY <1>1, <1>2, <1>3, ArriveStep
<1> QED
  BY <1>1, <1>4 DEF NoncesFrom

\* The pending state that matches is of the flow the page asked for.
LEMMA CallbackFlow ==
  ASSUME AuthInv, NEW q \in Requests, NEW b \in Browsers, NEW p \in pages[b], NEW c \in Chars,
         Callback(q, b, p, c)
  PROVE  p \in Pages /\ p.flow = IF cookie[b].corp = p.nonce THEN "corp" ELSE "base"
<1>1. p \in Pages /\ p.nonce \in Nonces \ {NoNonce} /\ p.flow \in Flows
  BY DEF AuthInv, TypeOK, Pages
<1>2. ForFlow(p.nonce, p.flow)
  BY DEF ForFlow, PagesHave
<1>3. cookie[b].corp = p.nonce => ForFlow(p.nonce, "corp")
  BY DEF ForFlow, SessionHas
<1>4. cookie[b].login = p.nonce => ForFlow(p.nonce, "base")
  BY DEF ForFlow, SessionHas
<1>5. ~(ForFlow(p.nonce, "base") /\ ForFlow(p.nonce, "corp"))
  BY <1>1 DEF AuthInv, NonceInv
<1>6. cookie[b].corp = p.nonce \/ (cookie[b].corp # p.nonce /\ cookie[b].login = p.nonce)
  BY DEF Callback
<1> QED
  BY <1>1, <1>2, <1>3, <1>4, <1>5, <1>6 DEF Flows

LEMMA CallbackStep ==
  ASSUME AuthInv, NEW q \in Requests, NEW b \in Browsers, NEW p \in pages[b], NEW c \in Chars,
         Callback(q, b, p, c)
  PROVE  \E r : LocalsStep(q, r, {}) /\ NoncesFrom(r, cookie[b], pages[b])
<1> DEFINE a == Arriving(b, "callback", "exchange")
           flow == IF cookie[b].corp = p.nonce THEN "corp" ELSE "base"
           P == {p}
           r == [[[a EXCEPT !.flow = flow] EXCEPT !.as = c] EXCEPT !.opens = P]
<1>1. /\ a \in Busy /\ a.session = cookie[b] /\ a.phase = "exchange"
      /\ a.base = NoToken /\ a.corp = NoToken /\ a.touched = {}
  BY ArrivingType DEF AuthInv, Routes, Phases
<1>2. p \in Pages /\ p.flow = flow /\ flow \in Flows
  BY CallbackFlow DEF Flows
<1>3. req' = [req EXCEPT ![q] = r] /\ req[q] = Idle /\ UNCHANGED <<db, tokens>>
  BY DEF Callback
<1>4. P \subseteq Pages /\ P \subseteq pages[b] /\ \E x \in Pages : P = {x} /\ x.flow = flow
  BY <1>2
<1> HIDE DEF a, flow, P
<1>5. /\ r \in Busy /\ r.session = cookie[b] /\ r.opens = P /\ r.phase = "exchange"
      /\ r.base = NoToken /\ r.corp = NoToken /\ r.touched = {} /\ r.as = c /\ r.flow = flow
  BY <1>1, <1>2, <1>4 DEF Busy
<1> HIDE DEF r
<1>6. LocalsStep(q, r, {})
  BY <1>3, <1>4, <1>5, ArriveStep
<1> QED
  BY <1>4, <1>5, <1>6 DEF NoncesFrom

-----------------------------------------------------------------------------
(* get_current_character *)

\* The locals of a request that goes on to its route.
LEMMA ResolvedLocals ==
  ASSUME NEW ts, NEW r \in Busy, r.session.char \in Chars, 0 \in 0..Len(ts)
  PROVE  /\ Resolved(r) = Idle \/ RequestOK(ts, Resolved(r))
         /\ NoncesFrom(Resolved(r), r.session, r.opens)
         /\ \A t : ~Names(Resolved(r), t) /\ ~Owns(Resolved(r), t) /\ ~CarriesIn(Resolved(r), t)
<1>1. CASE r.route = "page"
  BY <1>1, IdleApart DEF Resolved, NoncesFrom
<1>2. CASE r.route # "page"
  <2> DEFINE n == [r EXCEPT !.phase = "body", !.base = NoToken, !.corp = NoToken, !.touched = {}]
  <2>1. n = Resolved(r)
    BY <1>2 DEF Resolved
  <2>2. NoToken \in Tokens
    BY BoundsAreNat DEF Tokens, NoToken
  <2>3. /\ n \in Busy /\ n.phase = "body" /\ n.base = NoToken /\ n.corp = NoToken
        /\ n.touched = {} /\ n.session = r.session /\ n.opens = r.opens
    BY <2>2 DEF Busy, Phases
  <2> HIDE DEF n
  <2>5. RequestOK(ts, n)
    BY <2>3 DEF RequestOK, NoToken
  <2>6. NoncesFrom(n, r.session, r.opens)
    BY <2>3 DEF NoncesFrom
  <2>7. \A t : ~Names(n, t) /\ ~Owns(n, t) /\ ~CarriesIn(n, t)
    BY <2>3 DEF Names, Owns, CarriesIn
  <2> QED
    BY <2>1, <2>5, <2>6, <2>7
<1> QED
  BY <1>1, <1>2

\* The locals after the base token is good: of their tokens none is new, and
\* what was touched is carried on.
LEMMA PastBaseLocals ==
  ASSUME NEW ts, NEW r \in Busy, 0 \in 0..Len(ts),
         r.base \in 0..Len(ts), r.corp \in 0..Len(ts), r.session.char \in Chars,
         Issued(ts, r.base, r.session.char, "base"),
         r.corp # NoToken => Issued(ts, r.corp, r.session.char, "corp"),
         r.touched \in {{}, {"base"}}
  PROVE  /\ PastBase(r) = Idle \/ RequestOK(ts, PastBase(r))
         /\ NoncesFrom(PastBase(r), r.session, r.opens)
         /\ \A t : Names(PastBase(r), t) => t \in {r.base, r.corp}
         /\ \A t : Owns(PastBase(r), t) <=> "base" \in r.touched /\ t = r.base
         /\ \A t : CarriesIn(PastBase(r), t) <=> "base" \in r.touched /\ t = r.base
<1>1. CASE CorpDue(r)
  <2> DEFINE n == [r EXCEPT !.phase = "corp"]
  <2>1. /\ n \in Busy /\ n.phase = "corp" /\ n.base = r.base /\ n.corp = r.corp
        /\ n.touched = r.touched /\ n.session = r.session /\ n.opens = r.opens
    BY DEF Busy, Phases
  <2>2. PastBase(r) = n
    BY <1>1 DEF PastBase
  <2> HIDE DEF n
  <2>3. RequestOK(ts, n)
    BY <2>1, <1>1 DEF RequestOK, CorpDue
  <2>4. NoncesFrom(n, r.session, r.opens)
    BY <2>1 DEF NoncesFrom
  <2>5. \A t : Names(n, t) => t \in {r.base, r.corp}
    BY <2>1 DEF Names
  <2>6. \A t : CarriesIn(n, t) <=> "base" \in r.touched /\ t = r.base
    BY <2>1 DEF CarriesIn
  <2>7. \A t : Owns(n, t) <=> CarriesIn(n, t)
    BY <2>1 DEF Owns
  <2> QED
    BY <2>2, <2>3, <2>4, <2>5, <2>6, <2>7
<1>2. CASE ~CorpDue(r) /\ r.touched # {}
  <2> DEFINE n == [r EXCEPT !.phase = "save"]
  <2>1. /\ n \in Busy /\ n.phase = "save" /\ n.base = r.base /\ n.corp = r.corp
        /\ n.touched = r.touched /\ n.session = r.session /\ n.opens = r.opens
    BY DEF Busy, Phases
  <2>2. PastBase(r) = n
    BY <1>2 DEF PastBase
  <2> HIDE DEF n
  <2>3. RequestOK(ts, n)
    BY <2>1, <1>2 DEF RequestOK
  <2>4. NoncesFrom(n, r.session, r.opens)
    BY <2>1 DEF NoncesFrom
  <2>5. \A t : Names(n, t) => t \in {r.base, r.corp}
    BY <2>1 DEF Names
  <2>6. \A t : CarriesIn(n, t) <=> "base" \in r.touched /\ t = r.base
    BY <2>1 DEF CarriesIn
  <2>7. \A t : Owns(n, t) <=> CarriesIn(n, t)
    BY <2>1 DEF Owns
  <2> QED
    BY <2>2, <2>3, <2>4, <2>5, <2>6, <2>7
<1>3. CASE ~CorpDue(r) /\ r.touched = {}
  <2>1. PastBase(r) = Resolved(r)
    BY <1>3 DEF PastBase
  <2>2. Resolved(r) = Idle \/ RequestOK(ts, Resolved(r))
    BY ResolvedLocals
  <2> QED
    BY <2>1, <2>2, <1>3, ResolvedLocals
<1> QED
  BY <1>1, <1>2, <1>3

LEMMA FindStep ==
  ASSUME AuthInv, NEW q \in Requests, Find(q)
  PROVE  \E r : LocalsStep(q, r, {}) /\ NoncesFrom(r, req[q].session, req[q].opens)
<1> DEFINE c == req[q].session.char
           l == [req[q] EXCEPT !.base = db[c].base, !.corp = db[c].corp]
           b == [l EXCEPT !.phase = "base"]
<1>1. req[q].phase = "find" /\ req[q] # Idle
  BY DEF Find, Idle
<1>2. /\ req[q] \in Busy /\ c \in Chars /\ req[q].touched = {}
      /\ tokens \in Seq(TokenRecords) /\ Len(tokens) \in Nat /\ db[c] \in Docs
      /\ DocumentOK(tokens, c, db[c])
  BY <1>1, Known DEF RequestOK, AuthInv, LocalsInv
<1>3. /\ l \in Busy /\ l.base = db[c].base /\ l.corp = db[c].corp /\ l.touched = {}
      /\ l.session = req[q].session /\ l.opens = req[q].opens
  BY <1>2 DEF Busy, Docs
<1>4. /\ b \in Busy /\ b.base = db[c].base /\ b.corp = db[c].corp /\ b.touched = {}
      /\ b.session = req[q].session /\ b.opens = req[q].opens /\ b.phase = "base"
  BY <1>2 DEF Busy, Docs, Phases
<1>5. \/ req' = [req EXCEPT ![q] = Idle]
      \/ req' = [req EXCEPT ![q] = b] /\ Stored(c)
      \/ req' = [req EXCEPT ![q] = PastBase(l)] /\ Stored(c)
  BY DEF Find
<1>6. UNCHANGED <<db, tokens>>
  BY DEF Find
<1>7. Stored(c) =>
        /\ l.base \in 0..Len(tokens) /\ l.corp \in 0..Len(tokens)
        /\ Issued(tokens, l.base, c, "base")
        /\ l.corp # NoToken => Issued(tokens, l.corp, c, "corp")
  <2>1. \A t, flow : Issued(tokens, t, c, flow) => t \in 0..Len(tokens)
    BY <1>2 DEF Issued
  <2>2. l.corp = NoToken => l.corp \in 0..Len(tokens)
    BY <1>2 DEF NoToken
  <2> QED
    BY <1>2, <1>3, <2>1, <2>2 DEF Stored, DocumentOK
<1>8. \A t : t \in {l.base, l.corp} => StoredToken(t)
  BY <1>2, <1>3 DEF StoredToken
<1>9. \A t : ~CarriesIn(req[q], t)
  BY <1>1 DEF CarriesIn
<1>10. l.session.char = c /\ b.session.char = c /\ b.base = l.base /\ b.corp = l.corp
  BY <1>3, <1>4
<1> HIDE DEF c, l, b
<1>11. CASE req' = [req EXCEPT ![q] = Idle]
  <2>1. LocalsStep(q, Idle, {})
    BY <1>6, <1>9, <1>11, IdleApart, QuietStep
  <2> QED
    BY <2>1 DEF NoncesFrom
<1>12. CASE req' = [req EXCEPT ![q] = b] /\ Stored(c)
  <2>1. RequestOK(tokens, b)
    BY <1>2, <1>4, <1>7, <1>10, <1>12 DEF RequestOK
  <2>2. \A t : (Names(b, t) => StoredToken(t)) /\ ~Owns(b, t)
    BY <1>4, <1>8, <1>10 DEF Names, Owns, CarriesIn
  <2>3. LocalsStep(q, b, {})
    BY <1>6, <1>9, <1>12, <2>1, <2>2, QuietStep
  <2> QED
    BY <2>3, <1>4 DEF NoncesFrom
<1>13. CASE req' = [req EXCEPT ![q] = PastBase(l)] /\ Stored(c)
  <2>1. /\ PastBase(l) = Idle \/ RequestOK(tokens, PastBase(l))
        /\ NoncesFrom(PastBase(l), l.session, l.opens)
        /\ \A t : Names(PastBase(l), t) => t \in {l.base, l.corp}
        /\ \A t : ~Owns(PastBase(l), t)
    BY <1>2, <1>3, <1>7, <1>10, <1>13, PastBaseLocals
  <2> DEFINE n == PastBase(l)
  <2> HIDE DEF n
  <2>2. /\ n = Idle \/ RequestOK(tokens, n)
        /\ \A t : (Names(n, t) => StoredToken(t)) /\ ~Owns(n, t)
        /\ req' = [req EXCEPT ![q] = n]
    BY <2>1, <1>8, <1>13 DEF n
  <2>3. LocalsStep(q, n, {})
    BY <1>6, <1>9, <2>2, QuietStep
  <2> QED
    BY <2>1, <2>3, <1>3 DEF n
<1> QED
  BY <1>5, <1>11, <1>12, <1>13

LEMMA BaseRefusedStep ==
  ASSUME AuthInv, NEW q \in Requests, BaseRefused(q)
  PROVE  \E r : LocalsStep(q, r, {}) /\ NoncesFrom(r, req[q].session, req[q].opens)
<1> DEFINE s == [req[q].session EXCEPT !.char = NoChar]
           n == [req[q] EXCEPT !.phase = "respond", !.base = NoToken, !.corp = NoToken,
                               !.session = s]
<1>1. req[q].phase = "base" /\ req[q] # Idle
  BY DEF BaseRefused, Idle
<1>2. req[q] \in Busy /\ Len(tokens) \in Nat
  BY <1>1, Known DEF RequestOK
<1>3. s \in Sessions /\ s.login = req[q].session.login /\ s.corp = req[q].session.corp
  BY <1>2 DEF Busy, Sessions
<1>4. req' = [req EXCEPT ![q] = n] /\ UNCHANGED <<db, tokens>>
  BY DEF BaseRefused
<1> HIDE DEF s
<1>5. NoToken \in Tokens
  BY BoundsAreNat DEF Tokens, NoToken
<1>6. /\ n \in Busy /\ n.phase = "respond" /\ n.base = NoToken /\ n.corp = NoToken
      /\ n.session = s /\ n.opens = req[q].opens
  BY <1>2, <1>3, <1>5 DEF Busy, Phases
<1> HIDE DEF n
<1>7. RequestOK(tokens, n)
  BY <1>2, <1>6 DEF RequestOK, NoToken
<1>8. \A t : ~Names(n, t) /\ ~Owns(n, t) /\ ~CarriesIn(req[q], t)
  BY <1>1, <1>6 DEF Names, Owns, CarriesIn
<1>9. LocalsStep(q, n, {})
  BY <1>4, <1>7, <1>8, QuietStep
<1> QED
  BY <1>3, <1>6, <1>9 DEF NoncesFrom

LEMMA CorpRefusedStep ==
  ASSUME AuthInv, NEW q \in Requests, CorpRefused(q)
  PROVE  \E r : LocalsStep(q, r, {}) /\ NoncesFrom(r, req[q].session, req[q].opens)
<1> DEFINE T == req[q].touched \cup {"corp"}
           n == [req[q] EXCEPT !.phase = "save", !.corp = NoToken, !.touched = T]
<1>1. req[q].phase = "corp" /\ req[q] # Idle
  BY DEF CorpRefused, Idle
<1>2. req[q] \in Busy /\ Len(tokens) \in Nat /\ RequestOK(tokens, req[q])
  BY <1>1, Known DEF RequestOK
<1>3. T \in SUBSET Flows /\ NoToken \in Tokens /\ "corp" \notin req[q].touched
  BY <1>1, <1>2, BoundsAreNat DEF Busy, Flows, Tokens, NoToken, RequestOK
<1>4. req' = [req EXCEPT ![q] = n] /\ UNCHANGED <<db, tokens>>
  BY DEF CorpRefused
<1>5. T # {} /\ ("base" \in T <=> "base" \in req[q].touched) /\ "corp" \in T
  OBVIOUS
<1> HIDE DEF T
<1>6. /\ n \in Busy /\ n.phase = "save" /\ n.base = req[q].base /\ n.corp = NoToken
      /\ n.touched = T /\ n.session = req[q].session /\ n.opens = req[q].opens
  BY <1>2, <1>3 DEF Busy, Phases
<1> HIDE DEF n
<1>7. RequestOK(tokens, n)
  BY <1>1, <1>2, <1>5, <1>6 DEF RequestOK, NoToken
<1>8. \A t \in 1..Len(tokens) : t # NoToken
  BY DEF NoToken
<1>9. \A t \in 1..Len(tokens) : CarriesIn(n, t) <=> CarriesIn(req[q], t)
  BY <1>1, <1>3, <1>5, <1>6, <1>8 DEF CarriesIn
<1>10. \A t \in 1..Len(tokens) :
         (Names(n, t) => Names(req[q], t)) /\ (Owns(n, t) => Owns(req[q], t))
  BY <1>1, <1>6, <1>8, <1>9 DEF Names, Owns
<1>11. LocalsStep(q, n, {})
  BY <1>4, <1>7, <1>9, <1>10, QuietStep
<1> QED
  BY <1>6, <1>11 DEF NoncesFrom

LEMMA ConnectCorpStep ==
  ASSUME AuthInv, NEW q \in Requests, ConnectCorp(q)
  PROVE  \E r : /\ LocalsStep(q, r, {})
                /\ r.session = [req[q].session EXCEPT !.corp = nonces + 1]
                /\ r.opens = {[nonce |-> nonces + 1, flow |-> "corp"]}
<1> DEFINE s == [req[q].session EXCEPT !.corp = nonces + 1]
           P == {[nonce |-> nonces + 1, flow |-> "corp"]}
           n == [req[q] EXCEPT !.phase = "respond", !.session = s, !.opens = P]
<1>1. req[q].phase = "body" /\ req[q] # Idle
  BY DEF ConnectCorp, Idle
<1>2. req[q] \in Busy /\ Len(tokens) \in Nat /\ RequestOK(tokens, req[q])
  BY <1>1, Known DEF RequestOK
<1>3. nonces + 1 \in Nonces /\ nonces + 1 # NoNonce
  BY BoundsAreNat DEF AuthInv, TypeOK, ConnectCorp, Nonces, NoNonce
<1>4. s \in Sessions /\ P \in SUBSET Pages
  BY <1>2, <1>3 DEF Busy, Sessions, Pages, Flows
<1>5. req' = [req EXCEPT ![q] = n] /\ UNCHANGED <<db, tokens>>
  <2>1. req \in [Requests -> Busy \cup {Idle}]
    BY Known
  <2> QED
    BY <2>1, <1>2 DEF ConnectCorp, Busy
<1> HIDE DEF s, P
<1>6. /\ n \in Busy /\ n.phase = "respond" /\ n.base = req[q].base /\ n.corp = req[q].corp
      /\ n.session = s /\ n.opens = P
  BY <1>2, <1>4 DEF Busy, Phases
<1> HIDE DEF n
<1>7. RequestOK(tokens, n)
  BY <1>2, <1>6 DEF RequestOK
<1>8. \A t : ~Names(n, t) /\ ~Owns(n, t) /\ ~CarriesIn(req[q], t)
  BY <1>1, <1>6 DEF Names, Owns, CarriesIn
<1>9. LocalsStep(q, n, {})
  BY <1>5, <1>7, <1>8, QuietStep
<1> QED
  BY <1>6, <1>9 DEF s, P

LEMMA RespondStep ==
  ASSUME AuthInv, NEW q \in Requests, Respond(q)
  PROVE  LocalsStep(q, Idle, {})
<1>1. req[q].phase = "respond"
  BY DEF Respond
<1>2. \A t : ~CarriesIn(req[q], t)
  BY <1>1 DEF CarriesIn
<1>3. req' = [req EXCEPT ![q] = Idle] /\ UNCHANGED <<db, tokens>>
  BY DEF Respond
<1> QED
  BY <1>2, <1>3, IdleApart, QuietStep

\* A step that changes no document.
LEMMA TokensStep ==
  ASSUME AuthInv, NEW q \in Requests, NEW r, NEW S, req' = [req EXCEPT ![q] = r],
         Extends(tokens, tokens', S), r = Idle \/ RequestOK(tokens', r), db' = db,
         \A t \in S : Names(req[q], t),
         \A t \in 1..Len(tokens) :
            /\ Names(r, t) => Names(req[q], t)
            /\ Owns(r, t) => Owns(req[q], t) /\ t \notin S
            /\ CarriesIn(req[q], t) => CarriesIn(r, t) \/ tokens'[t].lost,
         \A t \in S : tokens'[t].next = Len(tokens) + 1 =>
            CarriesIn(r, Len(tokens) + 1) \/ tokens'[Len(tokens) + 1].lost
  PROVE  LocalsStep(q, r, S)
<1>1. Len(tokens) \in Nat
  BY Known
<1>2. \A t : StoredToken(t)' <=> StoredToken(t)
  BY DEF StoredToken
<1>3. \A t : StoredToken(t) => t \in 0..Len(tokens)
  BY StoredTokens
<1>4. \A t \in 1..Len(tokens) : Owns(req[q], t) => ~StoredToken(t)
  BY DEF AuthInv, OwnInv
<1>5. \A c \in Chars : DocumentOK(tokens', c, db'[c])
  BY <1>1, DocumentStaysOK DEF AuthInv, LocalsInv
<1> QED
  BY <1>2, <1>3, <1>4, <1>5, Known DEF LocalsStep

LEMMA RefreshBaseStep ==
  ASSUME AuthInv, NEW q \in Requests, RefreshBase(q)
  PROVE  \E r, S : LocalsStep(q, r, S) /\ NoncesFrom(r, req[q].session, req[q].opens)
<1> DEFINE t == req[q].base
           l == [req[q] EXCEPT !.base = NewToken, !.touched = {"base"}]
           n == PastBase(l)
<1>1. req[q].phase = "base" /\ req[q] # Idle /\ Room /\ tokens' = Refreshed(t) /\ db' = db
  BY DEF RefreshBase, Idle
<1>2. /\ req[q] \in Busy /\ Len(tokens) \in Nat /\ Len(tokens) < MaxTokens
      /\ RequestOK(tokens, req[q])
  BY <1>1, Known DEF RequestOK, Room
<1>3. t \in 1..Len(tokens) /\ Issued(tokens, t, req[q].session.char, "base")
  BY <1>1, <1>2 DEF RequestOK, Issued
<1>4. /\ Extends(tokens, tokens', {t}) /\ Len(tokens') = Len(tokens) + 1
      /\ Issued(tokens', Len(tokens) + 1, req[q].session.char, "base")
  BY <1>1, <1>3, RefreshedTokens DEF AuthInv, Issued
<1>5. NewToken = Len(tokens) + 1 /\ NewToken \in Tokens
  BY <1>2, BoundsAreNat DEF NewToken, Tokens
<1>6. /\ l \in Busy /\ l.base = Len(tokens) + 1 /\ l.corp = req[q].corp
      /\ l.touched = {"base"} /\ l.session = req[q].session /\ l.opens = req[q].opens
  BY <1>2, <1>5 DEF Busy, Flows
<1>7. req' = [req EXCEPT ![q] = n]
  BY DEF RefreshBase
<1> HIDE DEF l
<1>8. /\ l.base \in 0..Len(tokens') /\ l.corp \in 0..Len(tokens') /\ 0 \in 0..Len(tokens')
      /\ l.session.char \in Chars
      /\ Issued(tokens', l.base, l.session.char, "base")
      /\ l.corp # NoToken => Issued(tokens', l.corp, l.session.char, "corp")
  <2>1. RequestOK(tokens', req[q])
    BY <1>2, <1>4, RequestStaysOK
  <2> QED
    BY <2>1, <1>1, <1>2, <1>4, <1>6 DEF RequestOK
<1>9. /\ n = Idle \/ RequestOK(tokens', n)
      /\ NoncesFrom(n, l.session, l.opens)
      /\ \A u : Names(n, u) => u \in {l.base, l.corp}
      /\ \A u : Owns(n, u) <=> u = l.base
      /\ \A u : CarriesIn(n, u) <=> u = l.base
  <2>1. l.touched \in {{}, {"base"}} /\ "base" \in l.touched
    BY <1>6
  <2> QED
    BY <2>1, <1>6, <1>8, PastBaseLocals
<1> HIDE DEF n
<1>10. \A u \in 1..Len(tokens) :
         /\ Names(n, u) => Names(req[q], u)
         /\ ~Owns(n, u)
         /\ ~CarriesIn(req[q], u)
  <2>1. \A u \in 1..Len(tokens) : u # l.base
    BY <1>2, <1>6
  <2>2. \A u : ~CarriesIn(req[q], u)
    BY <1>1 DEF CarriesIn
  <2>3. Names(req[q], req[q].corp)
    BY <1>1 DEF Names
  <2> QED
    BY <2>1, <2>2, <2>3, <1>6, <1>9
<1>11. CarriesIn(n, Len(tokens) + 1)
  BY <1>6, <1>9
<1>12. Names(req[q], t)
  BY <1>1 DEF Names
<1>13. LocalsStep(q, n, {t})
  BY <1>1, <1>4, <1>7, <1>9, <1>10, <1>11, <1>12, TokensStep
<1> QED
  BY <1>6, <1>9, <1>13

LEMMA RefreshCorpStep ==
  ASSUME AuthInv, NEW q \in Requests, RefreshCorp(q)
  PROVE  \E r, S : LocalsStep(q, r, S) /\ NoncesFrom(r, req[q].session, req[q].opens)
<1> DEFINE t == req[q].corp
           T == req[q].touched \cup {"corp"}
           n == [req[q] EXCEPT !.phase = "save", !.corp = NewToken, !.touched = T]
<1>1. req[q].phase = "corp" /\ req[q] # Idle /\ Room /\ tokens' = Refreshed(t) /\ db' = db
  BY DEF RefreshCorp, Idle
<1>2. /\ req[q] \in Busy /\ Len(tokens) \in Nat /\ Len(tokens) < MaxTokens
      /\ RequestOK(tokens, req[q])
  BY <1>1, Known DEF RequestOK, Room
<1>3. /\ t \in 1..Len(tokens) /\ Issued(tokens, t, req[q].session.char, "corp")
      /\ Issued(tokens, req[q].base, req[q].session.char, "base")
      /\ "corp" \notin req[q].touched
  BY <1>1, <1>2 DEF RequestOK, Issued
<1>4. /\ Extends(tokens, tokens', {t}) /\ Len(tokens') = Len(tokens) + 1
      /\ Issued(tokens', Len(tokens) + 1, req[q].session.char, "corp")
  BY <1>1, <1>3, RefreshedTokens DEF AuthInv, Issued
<1>5. NewToken = Len(tokens) + 1 /\ NewToken \in Tokens
  BY <1>2, BoundsAreNat DEF NewToken, Tokens
<1>6. T \in SUBSET Flows /\ T # {} /\ ("base" \in T <=> "base" \in req[q].touched) /\ "corp" \in T
  BY <1>2 DEF Busy, Flows
<1>7. req' = [req EXCEPT ![q] = n]
  BY DEF RefreshCorp
<1> HIDE DEF T
<1>8. /\ n \in Busy /\ n.phase = "save" /\ n.base = req[q].base /\ n.corp = Len(tokens) + 1
      /\ n.touched = T /\ n.session = req[q].session /\ n.opens = req[q].opens
  BY <1>2, <1>5, <1>6 DEF Busy, Phases
<1> HIDE DEF n
<1>9. RequestOK(tokens', req[q])
  BY <1>2, <1>4, RequestStaysOK
<1>10. RequestOK(tokens', n)
  BY <1>1, <1>2, <1>4, <1>6, <1>8, <1>9 DEF RequestOK
<1>11. req[q].base # t
  BY <1>3 DEF Issued
<1>12. \A u \in 1..Len(tokens) : u # Len(tokens) + 1
  BY <1>2
<1>13. \A u \in 1..Len(tokens) : CarriesIn(req[q], u) <=> CarriesIn(n, u)
  BY <1>1, <1>3, <1>6, <1>8, <1>12 DEF CarriesIn
<1>14. \A u \in 1..Len(tokens) :
         /\ Names(n, u) => Names(req[q], u)
         /\ Owns(n, u) => Owns(req[q], u) /\ u \notin {t}
  BY <1>1, <1>8, <1>11, <1>12, <1>13 DEF Names, Owns, CarriesIn
<1>15. CarriesIn(n, Len(tokens) + 1)
  BY <1>6, <1>8 DEF CarriesIn
<1>16. Names(req[q], t)
  BY <1>1 DEF Names
<1>17. LocalsStep(q, n, {t})
  BY <1>1, <1>4, <1>7, <1>10, <1>13, <1>14, <1>15, <1>16, TokensStep
<1> QED
  BY <1>8, <1>17 DEF NoncesFrom

LEMMA RefreshFailsStep ==
  ASSUME AuthInv, NEW q \in Requests, RefreshFails(q)
  PROVE  \E S : LocalsStep(q, Idle, S)
<1> DEFINE t == IF req[q].phase = "base" THEN req[q].base ELSE req[q].corp
           had == IF "base" \in req[q].touched THEN {req[q].base} ELSE {}
<1>1. /\ req[q].phase \in {"base", "corp"} /\ req[q] # Idle /\ db' = db
      /\ req' = [req EXCEPT ![q] = Idle]
      /\ \/ tokens' = Lose(tokens, had)
         \/ Room /\ tokens' = Lose(Refreshed(t), had \cup {Len(tokens) + 1})
  BY DEF RefreshFails, Idle, NewToken
<1>2. /\ tokens \in Seq(TokenRecords) /\ Len(tokens) \in Nat /\ Len(tokens) <= MaxTokens
      /\ RequestOK(tokens, req[q])
  BY <1>1, Known
<1>3. t \in 1..Len(tokens) /\ Names(req[q], t)
  BY <1>1, <1>2 DEF RequestOK, Issued, Names
<1>4. \A u \in 1..Len(tokens) : CarriesIn(req[q], u) => u \in had
  BY <1>1, <1>2 DEF CarriesIn, RequestOK
<1> HIDE DEF had, t
<1>5. \A u : ~Names(Idle, u) /\ ~Owns(Idle, u)
  BY IdleApart
<1>6. CASE tokens' = Lose(tokens, had)
  <2>1. /\ Extends(tokens, tokens', {})
        /\ \A u \in 1..Len(tokens) : u \in had => tokens'[u].lost
    BY <1>2, <1>6, Lost
  <2>2. LocalsStep(q, Idle, {})
    BY <1>1, <1>4, <1>5, <2>1, TokensStep
  <2> QED
    BY <2>2
<1>7. CASE Room /\ tokens' = Lose(Refreshed(t), had \cup {Len(tokens) + 1})
  <2>1. Extends(tokens, Refreshed(t), {t}) /\ Len(Refreshed(t)) = Len(tokens) + 1
    BY <1>3, <1>7, RefreshedTokens DEF AuthInv
  <2>2. Refreshed(t) \in Seq(TokenRecords) /\ Len(Refreshed(t)) <= MaxTokens
    BY <2>1 DEF Extends
  <2>3. /\ Extends(Refreshed(t), tokens', {})
        /\ \A u \in 1..Len(Refreshed(t)) : u \in had \cup {Len(tokens) + 1} => tokens'[u].lost
    BY <1>7, <2>2, Lost
  <2>4. Extends(tokens, tokens', {t})
    BY <1>2, <2>1, <2>3, ExtendsTwice
  <2>5. \A u \in 1..Len(tokens) : u \in had => tokens'[u].lost
    BY <1>2, <2>1, <2>3
  <2>6. tokens'[Len(tokens) + 1].lost
    BY <1>2, <2>1, <2>3
  <2>7. LocalsStep(q, Idle, {t})
    BY <1>1, <1>3, <1>4, <1>5, <2>4, <2>5, <2>6, TokensStep
  <2> QED
    BY <2>7
<1> QED
  BY <1>1, <1>6, <1>7

-----------------------------------------------------------------------------
(* The callback, and the steps that change a document *)

LEMMA ExchangeStep ==
  ASSUME AuthInv, NEW q \in Requests, Exchange(q)
  PROVE  \E r : LocalsStep(q, r, {}) /\ NoncesFrom(r, req[q].session, req[q].opens)
<1> DEFINE p == CHOOSE p \in req[q].opens : TRUE
           mine == req[q].flow = "base" \/ req[q].as = req[q].session.char
           f == [Fresh(req[q].as, p.flow) EXCEPT !.lost = ~mine]
           n == [req[q] EXCEPT !.phase = "store", !.base = NewToken, !.opens = {}]
<1>1. /\ req[q].phase = "exchange" /\ req[q] # Idle /\ db' = db /\ Room
      /\ tokens' = Append(tokens, f)
      /\ \/ mine /\ req' = [req EXCEPT ![q] = n]
         \/ req' = [req EXCEPT ![q] = Idle]
  <2>1. req[q].phase = "exchange" /\ db' = db /\ Room
    BY DEF Exchange
  <2>2. req[q] # Idle
    BY <2>1 DEF Idle
  <2>3. tokens' = Append(tokens, f)
    BY DEF Exchange
  <2>4. req' = [req EXCEPT ![q] = IF mine THEN n ELSE Idle]
    BY DEF Exchange
  <2> QED
    BY <2>1, <2>2, <2>3, <2>4
<1>2. /\ tokens \in Seq(TokenRecords) /\ Len(tokens) \in Nat /\ Len(tokens) < MaxTokens
      /\ req[q] \in Busy /\ RequestOK(tokens, req[q])
  BY <1>1, Known DEF RequestOK, Room
<1>3. PICK x \in Pages : req[q].opens = {x} /\ x.flow = req[q].flow
  BY <1>1, <1>2 DEF RequestOK
<1>4. p = x /\ p.flow = req[q].flow /\ p.flow \in Flows /\ req[q].as \in Chars
  BY <1>1, <1>2, <1>3 DEF Pages, RequestOK
<1>5. f \in TokenRecords /\ f.next = NoToken /\ f.char = req[q].as /\ f.flow = req[q].flow
  <2>1. Fresh(req[q].as, p.flow) \in TokenRecords
    BY <1>4, FreshIsToken
  <2>2. mine \in BOOLEAN
    OBVIOUS
  <2> DEFINE g == Fresh(req[q].as, p.flow)
  <2>3. g.next = NoToken /\ g.char = req[q].as /\ g.flow = req[q].flow
    BY <1>4 DEF Fresh
  <2> HIDE DEF g, mine
  <2>4. /\ [g EXCEPT !.lost = ~mine] \in TokenRecords
        /\ [g EXCEPT !.lost = ~mine].next = g.next
        /\ [g EXCEPT !.lost = ~mine].char = g.char
        /\ [g EXCEPT !.lost = ~mine].flow = g.flow
    BY <2>1, <2>2 DEF TokenRecords, g
  <2> QED
    BY <2>3, <2>4 DEF g
<1> HIDE DEF p, mine, f
<1>6. /\ Extends(tokens, tokens', {}) /\ Len(tokens') = Len(tokens) + 1
      /\ Issued(tokens', Len(tokens) + 1, req[q].as, req[q].flow)
  <2>1. /\ Extends(tokens, tokens', {}) /\ Len(tokens') = Len(tokens) + 1
        /\ tokens'[Len(tokens) + 1] = f
    BY <1>1, <1>2, <1>5, Appended
  <2> QED
    BY <2>1, <1>2, <1>5 DEF Issued
<1>7. NewToken = Len(tokens) + 1 /\ NewToken \in Tokens
  BY <1>2, BoundsAreNat DEF NewToken, Tokens
<1>8. /\ n \in Busy /\ n.phase = "store" /\ n.base = Len(tokens) + 1 /\ n.corp = req[q].corp
      /\ n.as = req[q].as /\ n.flow = req[q].flow
      /\ n.session = req[q].session /\ n.opens = {}
  BY <1>2, <1>7 DEF Busy, Phases
<1> HIDE DEF n
<1>9. RequestOK(tokens', n)
  BY <1>1, <1>2, <1>4, <1>6, <1>8 DEF RequestOK, NoToken
<1>10. \A u \in 1..Len(tokens) : u # NoToken /\ u # Len(tokens) + 1
  BY <1>2 DEF NoToken
<1>11. \A u : ~CarriesIn(req[q], u) /\ ~CarriesIn(n, u)
  BY <1>1, <1>8 DEF CarriesIn
<1>12. \A u \in 1..Len(tokens) : ~Names(n, u) /\ ~Owns(n, u)
  BY <1>1, <1>2, <1>8, <1>10, <1>11 DEF Names, Owns, RequestOK
<1>13. CASE req' = [req EXCEPT ![q] = n]
  <2>1. LocalsStep(q, n, {})
    BY <1>1, <1>6, <1>9, <1>11, <1>12, <1>13, TokensStep
  <2> QED
    BY <2>1, <1>8 DEF NoncesFrom
<1>14. CASE req' = [req EXCEPT ![q] = Idle]
  <2>1. LocalsStep(q, Idle, {})
    BY <1>1, <1>6, <1>11, <1>14, IdleApart, TokensStep
  <2> QED
    BY <2>1 DEF NoncesFrom
<1> QED
  BY <1>1, <1>13, <1>14

LEMMA CallbackFailsStep ==
  ASSUME AuthInv, NEW q \in Requests, CallbackFails(q)
  PROVE  LocalsStep(q, Idle, {})
<1>1. /\ req[q].phase \in {"exchange", "store"} /\ db' = db
      /\ tokens' = Lose(tokens, {req[q].base}) /\ req' = [req EXCEPT ![q] = Idle]
  BY DEF CallbackFails
<1>2. \A u : ~CarriesIn(req[q], u)
  BY <1>1 DEF CarriesIn
<1>3. Extends(tokens, tokens', {})
  BY <1>1, Known, Lost
<1> QED
  BY <1>1, <1>2, <1>3, IdleApart, TokensStep

\* A step that issues no token, after which its request names none.
LEMMA DocumentStep ==
  ASSUME AuthInv, NEW q \in Requests, NEW r, req' = [req EXCEPT ![q] = r],
         r = Idle \/ RequestOK(tokens, r), \A t : ~Names(r, t) /\ ~Owns(r, t),
         tokens' = tokens, db' \in [Chars -> Docs],
         \A c \in Chars : DocumentOK(tokens, c, db'[c]),
         \A c \in Chars : \A t \in {db'[c].base, db'[c].corp} :
            t \in {NoToken, db[c].base, db[c].corp} \/ Owns(req[q], t),
         \A t, u \in 1..Len(tokens) :
            CarriesIn(req[q], t) /\ tokens[u].next = t => ~StoredToken(u)'
  PROVE  LocalsStep(q, r, {})
<1>1. Extends(tokens, tokens, {})
  BY Known, NoExtension
<1>2. \A t : StoredToken(t)' => t \in 0..Len(tokens)
  BY Known DEF StoredToken, DocumentOK, Issued, NoToken
<1>3. \A t \in 1..Len(tokens) : StoredToken(t)' => StoredToken(t) \/ Owns(req[q], t)
  <2>1. \A t \in 1..Len(tokens) : t # NoToken
    BY DEF NoToken
  <2> QED
    BY <2>1 DEF StoredToken
<1> QED
  BY <1>1, <1>2, <1>3 DEF LocalsStep

LEMMA DisconnectCorpStep ==
  ASSUME AuthInv, NEW q \in Requests, DisconnectCorp(q)
  PROVE  LocalsStep(q, Idle, {})
<1> DEFINE c == req[q].session.char
           d == [db[c] EXCEPT !.corp = NoToken, !.corpScopes = FALSE, !.corpId = FALSE]
<1>1. /\ req[q].phase = "body" /\ req[q] # Idle /\ tokens' = tokens
      /\ req' = [req EXCEPT ![q] = Idle]
  BY DEF DisconnectCorp, Idle
<1>2. c \in Chars /\ db \in [Chars -> Docs] /\ db[c] \in Docs
  BY <1>1, Known DEF RequestOK
<1>3. db' = [db EXCEPT ![c] = d]
  BY <1>2 DEF DisconnectCorp, Docs
<1>4. d \in Docs /\ d.base = db[c].base /\ d.corp = NoToken
  <2>1. NoToken \in Tokens
    BY BoundsAreNat DEF Tokens, NoToken
  <2> QED
    BY <2>1, <1>2 DEF Docs
<1> HIDE DEF d, c
<1>5. /\ db' \in [Chars -> Docs]
      /\ db'[c].base = db[c].base /\ db'[c].corp = NoToken
      /\ \A x \in Chars : x # c => db'[x] = db[x]
  BY <1>2, <1>3, <1>4
<1>6. \A x \in Chars : DocumentOK(tokens, x, db'[x])
  BY <1>5 DEF DocumentOK, AuthInv, LocalsInv
<1>7. \A x \in Chars : \A t \in {db'[x].base, db'[x].corp} :
        t \in {NoToken, db[x].base, db[x].corp}
  BY <1>5
<1>8. \A t : ~CarriesIn(req[q], t)
  BY <1>1 DEF CarriesIn
<1> QED
  BY <1>1, <1>5, <1>6, <1>7, <1>8, IdleApart, DocumentStep

LEMMA ClearDataStep ==
  ASSUME AuthInv, NEW q \in Requests, ClearData(q)
  PROVE  \E r : LocalsStep(q, r, {}) /\ NoncesFrom(r, req[q].session, req[q].opens)
<1> DEFINE c == req[q].session.char
           n == [req[q] EXCEPT !.phase = "respond", !.session = EmptySession]
<1>1. req[q].phase = "body" /\ req[q] # Idle /\ tokens' = tokens
  BY DEF ClearData, Idle
<1>2. /\ c \in Chars /\ db \in [Chars -> Docs] /\ req[q] \in Busy
      /\ req \in [Requests -> Busy \cup {Idle}] /\ RequestOK(tokens, req[q])
  BY <1>1, Known DEF RequestOK
<1>3. req' = [req EXCEPT ![q] = n] /\ db' = [db EXCEPT ![c] = NoDoc]
  BY <1>2 DEF ClearData, Busy
<1>4. NoDoc \in Docs /\ NoDoc.base = NoToken /\ NoDoc.corp = NoToken
  BY BoundsAreNat DEF NoDoc, Docs, Tokens, NoToken
<1>5. EmptySession \in Sessions /\ EmptySession.login = NoNonce /\ EmptySession.corp = NoNonce
  BY BoundsAreNat DEF EmptySession, Sessions, Nonces, NoNonce
<1>6. /\ n \in Busy /\ n.phase = "respond" /\ n.base = req[q].base /\ n.corp = req[q].corp
      /\ n.session = EmptySession /\ n.opens = req[q].opens
  BY <1>2, <1>5 DEF Busy, Phases
<1> HIDE DEF n, c
<1>7. /\ db' \in [Chars -> Docs]
      /\ db'[c].base = NoToken /\ db'[c].corp = NoToken
      /\ \A x \in Chars : x # c => db'[x] = db[x]
  BY <1>2, <1>3, <1>4
<1>8. \A x \in Chars : DocumentOK(tokens, x, db'[x])
  BY <1>7 DEF DocumentOK, AuthInv, LocalsInv
<1>9. \A x \in Chars : \A t \in {db'[x].base, db'[x].corp} :
        t \in {NoToken, db[x].base, db[x].corp}
  BY <1>7
<1>10. \A t : ~CarriesIn(req[q], t) /\ ~Names(n, t) /\ ~Owns(n, t)
  BY <1>1, <1>6 DEF CarriesIn, Names, Owns
<1>11. RequestOK(tokens, n)
  BY <1>2, <1>6 DEF RequestOK
<1>12. LocalsStep(q, n, {})
  BY <1>1, <1>3, <1>7, <1>8, <1>9, <1>10, <1>11, DocumentStep
<1> QED
  BY <1>5, <1>6, <1>12 DEF NoncesFrom

LEMMA StoreLoginStep ==
  ASSUME AuthInv, NEW q \in Requests, StoreLogin(q)
  PROVE  \E r : LocalsStep(q, r, {}) /\ NoncesFrom(r, req[q].session, req[q].opens)
<1> DEFINE c == req[q].as
           d == [NoDoc EXCEPT !.base = req[q].base]
           s == [req[q].session EXCEPT !.login = NoNonce, !.char = c]
           n == [req[q] EXCEPT !.phase = "respond", !.base = NoToken, !.session = s]
<1>1. req[q].phase = "store" /\ req[q].flow = "base" /\ req[q] # Idle /\ tokens' = tokens
  BY DEF StoreLogin, Idle
<1>2. /\ c \in Chars /\ db \in [Chars -> Docs] /\ req[q] \in Busy /\ RequestOK(tokens, req[q])
      /\ Issued(tokens, req[q].base, c, "base") /\ req[q].corp = NoToken
  BY <1>1, Known DEF RequestOK
<1>3. NoToken \in Tokens /\ NoNonce \in Nonces
  BY BoundsAreNat DEF Tokens, NoToken, Nonces, NoNonce
<1>4. /\ s \in Sessions /\ s.login = NoNonce /\ s.corp = req[q].session.corp
  BY <1>2, <1>3 DEF Busy, Sessions
<1>5. d \in Docs /\ d.base = req[q].base /\ d.corp = NoToken
  BY <1>2, <1>3 DEF NoDoc, Docs, Busy
<1>6. req' = [req EXCEPT ![q] = n] /\ db' = [db EXCEPT ![c] = d]
  <2>1. db' = [db EXCEPT ![c] = d]
    BY DEF StoreLogin
  <2>2. req' = [req EXCEPT ![q] = [req[q] EXCEPT !.phase = "respond", !.base = NoToken,
                      !.session.login = NoNonce, !.session.char = c]]
    BY DEF StoreLogin
  <2>3. [req[q] EXCEPT !.phase = "respond", !.base = NoToken,
                      !.session.login = NoNonce, !.session.char = c] = n
    BY <1>2 DEF Busy, Sessions
  <2> QED
    BY <2>1, <2>2, <2>3
<1> HIDE DEF s, d
<1>7. /\ n \in Busy /\ n.phase = "respond" /\ n.base = NoToken /\ n.corp = NoToken
      /\ n.session = s /\ n.opens = req[q].opens
  BY <1>2, <1>3, <1>4 DEF Busy, Phases
<1> HIDE DEF n, c
<1>8. /\ db' \in [Chars -> Docs]
      /\ db'[c].base = req[q].base /\ db'[c].corp = NoToken
      /\ \A x \in Chars : x # c => db'[x] = db[x]
  BY <1>2, <1>5, <1>6
<1>9. \A x \in Chars : DocumentOK(tokens, x, db'[x])
  BY <1>2, <1>8 DEF DocumentOK, AuthInv, LocalsInv
<1>10. Owns(req[q], req[q].base)
  BY <1>1 DEF Owns
<1>11. \A x \in Chars : \A t \in {db'[x].base, db'[x].corp} :
        t \in {NoToken, db[x].base, db[x].corp} \/ Owns(req[q], t)
  BY <1>8, <1>10
<1>12. \A t : ~CarriesIn(req[q], t) /\ ~Names(n, t) /\ ~Owns(n, t)
  BY <1>1, <1>7 DEF CarriesIn, Names, Owns
<1>13. RequestOK(tokens, n)
  BY <1>2, <1>7 DEF RequestOK
<1>14. LocalsStep(q, n, {})
  BY <1>1, <1>6, <1>8, <1>9, <1>11, <1>12, <1>13, DocumentStep
<1> QED
  BY <1>4, <1>7, <1>14 DEF NoncesFrom

LEMMA StoreCorpStep ==
  ASSUME AuthInv, NEW q \in Requests, StoreCorp(q)
  PROVE  \E r : LocalsStep(q, r, {}) /\ NoncesFrom(r, req[q].session, req[q].opens)
<1> DEFINE c == req[q].as
           d == [db[c] EXCEPT !.corp = req[q].base, !.corpScopes = TRUE, !.corpId = TRUE]
           e == IF Stored(c) THEN d ELSE db[c]
           s == [req[q].session EXCEPT !.corp = NoNonce]
           n == [req[q] EXCEPT !.phase = "respond", !.base = NoToken, !.session = s]
<1>1. req[q].phase = "store" /\ req[q].flow = "corp" /\ req[q] # Idle /\ tokens' = tokens
  BY DEF StoreCorp, Idle
<1>2. /\ c \in Chars /\ db \in [Chars -> Docs] /\ req[q] \in Busy /\ RequestOK(tokens, req[q])
      /\ Issued(tokens, req[q].base, c, "corp") /\ req[q].corp = NoToken
  BY <1>1, Known DEF RequestOK
<1>3. NoToken \in Tokens /\ NoNonce \in Nonces
  BY BoundsAreNat DEF Tokens, NoToken, Nonces, NoNonce
<1>4. /\ s \in Sessions /\ s.login = req[q].session.login /\ s.corp = NoNonce
  BY <1>2, <1>3 DEF Busy, Sessions
<1>5. d \in Docs /\ d.base = db[c].base /\ d.corp = req[q].base
  BY <1>2, <1>3 DEF Docs, Busy
<1>6. req' = [req EXCEPT ![q] = n] /\ db' = [db EXCEPT ![c] = e]
  <2>1. db' = [db EXCEPT ![c] = e]
    BY DEF StoreCorp
  <2>2. req' = [req EXCEPT ![q] = [req[q] EXCEPT !.phase = "respond", !.base = NoToken,
                      !.session.corp = NoNonce]]
    BY DEF StoreCorp
  <2>3. [req[q] EXCEPT !.phase = "respond", !.base = NoToken, !.session.corp = NoNonce] = n
    BY <1>2 DEF Busy, Sessions
  <2> QED
    BY <2>1, <2>2, <2>3
<1>7. /\ e \in Docs /\ e.base = db[c].base /\ e.corp \in {db[c].corp, req[q].base}
      /\ e.corp # db[c].corp => db[c].base # NoToken /\ e.corp = req[q].base
  BY <1>2, <1>5 DEF Stored
<1> HIDE DEF s, d, e
<1>8. /\ n \in Busy /\ n.phase = "respond" /\ n.base = NoToken /\ n.corp = NoToken
      /\ n.session = s /\ n.opens = req[q].opens
  BY <1>2, <1>3, <1>4 DEF Busy, Phases
<1> HIDE DEF n, c
<1>9. db' \in [Chars -> Docs] /\ db'[c] = e /\ \A x \in Chars : x # c => db'[x] = db[x]
  BY <1>2, <1>6, <1>7
<1>10. \A x \in Chars : DocumentOK(tokens, x, db[x])
  BY DEF AuthInv, LocalsInv
<1>11. DocumentOK(tokens, c, e)
  <2>1. CASE e.corp = db[c].corp
    BY <2>1, <1>2, <1>7, <1>10 DEF DocumentOK
  <2>2. CASE e.corp # db[c].corp
    BY <2>2, <1>2, <1>7, <1>10 DEF DocumentOK
  <2> QED
    BY <2>1, <2>2
<1>12. \A x \in Chars : DocumentOK(tokens, x, db'[x])
  BY <1>9, <1>10, <1>11
<1>13. Owns(req[q], req[q].base)
  BY <1>1 DEF Owns
<1>14. \A x \in Chars : \A t \in {db'[x].base, db'[x].corp} :
        t \in {NoToken, db[x].base, db[x].corp} \/ Owns(req[q], t)
  BY <1>7, <1>9, <1>13
<1>15. \A t : ~CarriesIn(req[q], t) /\ ~Names(n, t) /\ ~Owns(n, t)
  BY <1>1, <1>8 DEF CarriesIn, Names, Owns
<1>16. RequestOK(tokens, n)
  BY <1>2, <1>8 DEF RequestOK
<1>17. LocalsStep(q, n, {})
  BY <1>1, <1>6, <1>9, <1>12, <1>14, <1>15, <1>16, DocumentStep
<1> QED
  BY <1>4, <1>8, <1>17 DEF NoncesFrom

\* What an update_one makes of the documents: the fields it touches, when the
\* document is there.
LEMMA SavedDocuments ==
  ASSUME AuthInv, NEW q \in Requests, Save(q)
  PROVE  LET c == req[q].session.char
         IN  /\ db' \in [Chars -> Docs] /\ c \in Chars
             /\ \A x \in Chars : x # c => db'[x] = db[x]
             /\ db'[c].base = IF Stored(c) /\ "base" \in req[q].touched
                              THEN req[q].base ELSE db[c].base
             /\ db'[c].corp = IF Stored(c) /\ "corp" \in req[q].touched
                              THEN req[q].corp ELSE db[c].corp
<1> DEFINE c == req[q].session.char
           d == db[c]
           b == IF "base" \in req[q].touched THEN [d EXCEPT !.base = req[q].base] ELSE d
           e == IF "corp" \notin req[q].touched THEN b
                ELSE IF req[q].corp = NoToken
                     THEN [b EXCEPT !.corp = NoToken, !.corpScopes = FALSE]
                     ELSE [b EXCEPT !.corp = req[q].corp]
           f == IF Stored(c) THEN e ELSE d
<1>1. req[q].phase = "save" /\ req[q] # Idle
  BY DEF Save, Idle
<1>2. c \in Chars /\ db \in [Chars -> Docs] /\ d \in Docs /\ req[q] \in Busy
  BY <1>1, Known DEF RequestOK
<1>3. /\ b \in Docs /\ b.corp = d.corp
      /\ b.base = IF "base" \in req[q].touched THEN req[q].base ELSE d.base
  BY <1>2 DEF Docs, Busy
<1>4. db' = [db EXCEPT ![c] = f]
  BY DEF Save
<1>5. NoToken \in Tokens /\ req[q].corp \in Tokens
  BY <1>2, BoundsAreNat DEF Tokens, NoToken, Busy
<1> HIDE DEF b
<1>6. /\ [b EXCEPT !.corp = NoToken, !.corpScopes = FALSE] \in Docs
      /\ [b EXCEPT !.corp = NoToken, !.corpScopes = FALSE].base = b.base
      /\ [b EXCEPT !.corp = NoToken, !.corpScopes = FALSE].corp = NoToken
  BY <1>3, <1>5 DEF Docs
<1>7. /\ [b EXCEPT !.corp = req[q].corp] \in Docs
      /\ [b EXCEPT !.corp = req[q].corp].base = b.base
      /\ [b EXCEPT !.corp = req[q].corp].corp = req[q].corp
  BY <1>3, <1>5 DEF Docs
<1>8. /\ e \in Docs /\ e.base = b.base
      /\ e.corp = IF "corp" \in req[q].touched THEN req[q].corp ELSE d.corp
  BY <1>3, <1>6, <1>7
<1> HIDE DEF e
<1>9. f \in Docs /\ f = IF Stored(c) THEN e ELSE d
  BY <1>2, <1>8
<1> HIDE DEF f, d, c
<1>10. /\ db' \in [Chars -> Docs] /\ db'[c] = f /\ c \in Chars
       /\ \A x \in Chars : x # c => db'[x] = db[x]
  BY <1>2, <1>4, <1>9
<1>11. /\ db'[c].base = IF Stored(c) /\ "base" \in req[q].touched THEN req[q].base ELSE db[c].base
       /\ db'[c].corp = IF Stored(c) /\ "corp" \in req[q].touched THEN req[q].corp ELSE db[c].corp
  <2>1. d = db[c]
    BY DEF d
  <2> QED
    BY <2>1, <1>3, <1>8, <1>9, <1>10
<1> QED
  BY <1>10, <1>11 DEF c

LEMMA SaveStep ==
  ASSUME AuthInv, NEW q \in Requests, Save(q)
  PROVE  \E r : LocalsStep(q, r, {}) /\ NoncesFrom(r, req[q].session, req[q].opens)
<1> DEFINE c == req[q].session.char
           n == Resolved(req[q])
<1>1. /\ req[q].phase = "save" /\ req[q] # Idle /\ tokens' = tokens
      /\ req' = [req EXCEPT ![q] = n]
  BY DEF Save, Idle
<1>2. /\ req[q] \in Busy /\ RequestOK(tokens, req[q]) /\ Len(tokens) \in Nat
      /\ Issued(tokens, req[q].base, c, "base")
      /\ req[q].corp # NoToken => Issued(tokens, req[q].corp, c, "corp")
  BY <1>1, Known DEF RequestOK
<1>3. /\ db' \in [Chars -> Docs] /\ c \in Chars
      /\ \A x \in Chars : x # c => db'[x] = db[x]
      /\ db'[c].base = IF Stored(c) /\ "base" \in req[q].touched THEN req[q].base ELSE db[c].base
      /\ db'[c].corp = IF Stored(c) /\ "corp" \in req[q].touched THEN req[q].corp ELSE db[c].corp
  BY SavedDocuments
<1>4. \A x \in Chars : DocumentOK(tokens, x, db[x])
  BY DEF AuthInv, LocalsInv
<1>5. /\ n = Idle \/ RequestOK(tokens, n)
      /\ NoncesFrom(n, req[q].session, req[q].opens)
      /\ \A t : ~Names(n, t) /\ ~Owns(n, t)
  <2>1. 0 \in 0..Len(tokens)
    BY <1>2
  <2> QED
    BY <2>1, <1>2, <1>3, ResolvedLocals
<1> HIDE DEF n, c
<1>6. \A x \in Chars : DocumentOK(tokens, x, db'[x])
  <2>1. DocumentOK(tokens, c, db'[c])
    <3>1. DocumentOK(tokens, c, db[c])
      BY <1>3, <1>4
    <3>2. CASE Stored(c)
      <4>1. db[c].base # NoToken
        BY <3>2 DEF Stored
      <4>2. db'[c].base # NoToken /\ Issued(tokens, db'[c].base, c, "base")
        <5>1. req[q].base # NoToken
          BY <1>2 DEF Issued, NoToken
        <5> QED
          BY <5>1, <4>1, <3>1, <1>2, <1>3 DEF DocumentOK
      <4>3. db'[c].corp # NoToken => Issued(tokens, db'[c].corp, c, "corp")
        BY <3>1, <1>2, <1>3 DEF DocumentOK
      <4> QED
        BY <4>2, <4>3 DEF DocumentOK
    <3>3. CASE ~Stored(c)
      BY <3>1, <3>3, <1>3 DEF DocumentOK
    <3> QED
      BY <3>2, <3>3
  <2> QED
    BY <2>1, <1>3, <1>4
<1>7. /\ "base" \in req[q].touched => Owns(req[q], req[q].base)
      /\ "corp" \in req[q].touched => Owns(req[q], req[q].corp)
  BY <1>1 DEF Owns, CarriesIn
<1>8. \A x \in Chars : \A t \in {db'[x].base, db'[x].corp} :
        t \in {NoToken, db[x].base, db[x].corp} \/ Owns(req[q], t)
  BY <1>3, <1>7
<1>9. ASSUME NEW t \in 1..Len(tokens), NEW u \in 1..Len(tokens), CarriesIn(req[q], t),
             tokens[u].next = t, StoredToken(u)'
      PROVE  FALSE
  <2>1. PICK x \in Chars : db'[x].base = u \/ db'[x].corp = u
    BY <1>9 DEF StoredToken
  <2>2. /\ db'[x].base = u => tokens[u].char = x /\ tokens[u].flow = "base"
        /\ db'[x].corp = u => tokens[u].char = x /\ tokens[u].flow = "corp" /\ db'[x].base # NoToken
    BY <1>6 DEF DocumentOK, Issued, NoToken
  <2>3. t # NoToken /\ tokens[t].next = NoToken
    <3>1. Owns(req[q], t)
      BY <1>9 DEF Owns
    <3> QED
      BY <3>1 DEF AuthInv, OwnInv, NoToken
  <2>4. tokens[t].char = tokens[u].char /\ tokens[t].flow = tokens[u].flow
    BY <1>9, <2>3 DEF AuthInv, NextInv, Issued
  <2>5. u # NoToken
    BY DEF NoToken
  <2>6. tokens[t].char = c /\ x = c
    BY <1>2, <1>9, <2>1, <2>2, <2>3, <2>4 DEF CarriesIn, Issued
  <2>7. CASE "base" \in req[q].touched /\ req[q].base = t
    <3>1. tokens[u].flow = "base" /\ db'[c].base = u
      BY <2>7, <2>1, <2>2, <2>4, <2>6, <1>2 DEF Issued
    <3>2. Stored(c)
      BY <3>1, <2>5, <1>3 DEF Stored
    <3>3. u = t
      BY <3>1, <3>2, <2>7, <1>3
    <3> QED
      BY <3>3, <2>3, <1>9
  <2>8. CASE "corp" \in req[q].touched /\ req[q].corp = t
    <3>1. tokens[u].flow = "corp" /\ db'[c].corp = u
      BY <2>8, <2>1, <2>2, <2>3, <2>4, <2>6, <1>2 DEF Issued
    <3>2. Stored(c)
      <4>1. db'[c].base # NoToken
        BY <3>1, <2>2, <2>6
      <4> QED
        BY <4>1, <1>3 DEF Stored
    <3>3. u = t
      BY <3>1, <3>2, <2>8, <1>3
    <3> QED
      BY <3>3, <2>3, <1>9
  <2> QED
    BY <2>7, <2>8, <1>9 DEF CarriesIn
<1>10. LocalsStep(q, n, {})
  BY <1>1, <1>3, <1>5, <1>6, <1>8, <1>9, DocumentStep
<1> QED
  BY <1>5, <1>10

-----------------------------------------------------------------------------
(* The inductive invariant is preserved *)

LEMMA LocalsStepType ==
  ASSUME AuthInv, NEW q \in Requests, NEW r, NEW S, LocalsStep(q, r, S),
         cookie' \in [Browsers -> Sessions], pages' \in [Browsers -> SUBSET Pages],
         nonces' \in Nonces, errors' \in 0..MaxErrors
  PROVE  TypeOK'
<1>1. req \in [Requests -> Busy \cup {Idle}]
  BY Known
<1>2. req' = [req EXCEPT ![q] = r] /\ r \in Busy \cup {Idle}
  BY DEF LocalsStep, RequestOK
<1>3. req' \in [Requests -> Busy \cup {Idle}]
  BY <1>1, <1>2
<1>4. LocalsInv'
  BY LocalsStepOwn
<1>5. \A p \in Requests :
        /\ req'[p].phase = "save" => req'[p].touched # {}
        /\ req'[p].phase \in {"base", "corp", "save", "store"} => req'[p].base \in 1..Len(tokens')
  <2> SUFFICES ASSUME NEW p \in Requests
      PROVE /\ req'[p].phase = "save" => req'[p].touched # {}
            /\ req'[p].phase \in {"base", "corp", "save", "store"} => req'[p].base \in 1..Len(tokens')
    OBVIOUS
  <2>1. CASE req'[p] = Idle
    BY <2>1 DEF Idle
  <2>2. CASE RequestOK(tokens', req'[p])
    BY <2>2 DEF RequestOK, Issued
  <2> QED
    BY <2>1, <2>2, <1>4 DEF LocalsInv
<1>6. tokens' \in Seq(TokenRecords) /\ Len(tokens') <= MaxTokens /\ DOMAIN tokens' = 1..Len(tokens')
  BY LenProperties DEF LocalsStep, Extends
<1>7. db' \in [Chars -> Docs]
  BY DEF LocalsStep
<1> QED
  BY <1>3, <1>5, <1>6, <1>7 DEF TypeOK

\* A step that generates no nonce: those of the request, the cookies and the
\* pages were there before.
LEMMA NoncesStay ==
  ASSUME AuthInv, NEW q \in Requests, NEW r, req' = [req EXCEPT ![q] = r], nonces' = nonces,
         \A b \in Browsers :
            /\ cookie'[b] = cookie[b] \/ (req[q] # Idle /\ cookie'[b] = req[q].session)
            /\ \A p \in pages'[b] : p \in pages[b] \/ (req[q] # Idle /\ p \in req[q].opens),
         \/ \E b \in Browsers : NoncesFrom(r, cookie[b], pages[b])
         \/ req[q] # Idle /\ NoncesFrom(r, req[q].session, req[q].opens)
  PROVE  NonceInv'
<1>1. \A p \in Requests : req'[p] = IF p = q THEN r ELSE req[p]
  BY Known
<1>2. ASSUME NEW n \in Nonces \ {NoNonce}, NEW flow \in Flows, ForFlow(n, flow)'
      PROVE  ForFlow(n, flow)
  <2>1. ASSUME NEW b \in Browsers, SessionHas(cookie'[b], n, flow) PROVE ForFlow(n, flow)
    BY <2>1 DEF ForFlow
  <2>2. ASSUME NEW b \in Browsers, PagesHave(pages'[b], n, flow) PROVE ForFlow(n, flow)
    BY <2>2 DEF ForFlow, PagesHave
  <2>3. ASSUME r # Idle, SessionHas(r.session, n, flow) PROVE ForFlow(n, flow)
    <3>1. ASSUME NEW s, NEW P, NoncesFrom(r, s, P) PROVE SessionHas(s, n, flow)
      BY <2>3, <3>1 DEF NoncesFrom, SessionHas
    <3> QED
      BY <3>1 DEF ForFlow
  <2>4. ASSUME r # Idle, PagesHave(r.opens, n, flow) PROVE ForFlow(n, flow)
    <3>1. ASSUME NEW s, NEW P, NoncesFrom(r, s, P) PROVE PagesHave(P, n, flow)
      BY <2>4, <3>1 DEF NoncesFrom, PagesHave
    <3> QED
      BY <3>1 DEF ForFlow
  <2>5. ASSUME NEW p \in Requests, p # q, req'[p] # Idle,
               SessionHas(req'[p].session, n, flow) \/ PagesHave(req'[p].opens, n, flow)
        PROVE  ForFlow(n, flow)
    BY <2>5, <1>1 DEF ForFlow
  <2>6. \/ \E b \in Browsers : SessionHas(cookie'[b], n, flow) \/ PagesHave(pages'[b], n, flow)
        \/ \E p \in Requests :
             /\ req'[p] # Idle
             /\ SessionHas(req'[p].session, n, flow) \/ PagesHave(req'[p].opens, n, flow)
    BY <1>2 DEF ForFlow, SessionHas, PagesHave
  <2> QED
    BY <2>1, <2>2, <2>3, <2>4, <2>5, <2>6, <1>1
<1>3. \A n \in Nonces \ {NoNonce} :
        /\ \A flow \in Flows : ForFlow(n, flow) => n <= nonces
        /\ ~(ForFlow(n, "base") /\ ForFlow(n, "corp"))
  BY DEF AuthInv, NonceInv
<1>4. "base" \in Flows /\ "corp" \in Flows
  BY DEF Flows
<1>5. \A n \in Nonces \ {NoNonce} :
        /\ \A flow \in Flows : ForFlow(n, flow)' => n <= nonces'
        /\ ~(ForFlow(n, "base")' /\ ForFlow(n, "corp")')
  BY <1>2, <1>3, <1>4
<1> QED
  BY <1>5 DEF NonceInv

\* A step that generates a nonce, for one flow.
LEMMA NonceGenerated ==
  ASSUME AuthInv, NEW q \in Requests, NEW r, req' = [req EXCEPT ![q] = r], nonces' = nonces + 1,
         NEW for \in Flows, UNCHANGED <<cookie, pages>>,
         \A n \in Nonces \ {NoNonce} : \A flow \in Flows :
            /\ SessionHas(r.session, n, flow) => ForFlow(n, flow) \/ (n = nonces + 1 /\ flow = for)
            /\ PagesHave(r.opens, n, flow) => n = nonces + 1 /\ flow = for
  PROVE  NonceInv'
<1>1. \A p \in Requests : req'[p] = IF p = q THEN r ELSE req[p]
  BY Known
<1>2. ASSUME NEW n \in Nonces \ {NoNonce}, NEW flow \in Flows, ForFlow(n, flow)'
      PROVE  ForFlow(n, flow) \/ (n = nonces + 1 /\ flow = for)
  <2>1. ASSUME NEW b \in Browsers, SessionHas(cookie[b], n, flow) \/ PagesHave(pages[b], n, flow)
        PROVE  ForFlow(n, flow)
    BY <2>1 DEF ForFlow
  <2>2. ASSUME NEW p \in Requests, p # q, req'[p] # Idle,
               SessionHas(req'[p].session, n, flow) \/ PagesHave(req'[p].opens, n, flow)
        PROVE  ForFlow(n, flow)
    BY <2>2, <1>1 DEF ForFlow
  <2>3. \/ \E b \in Browsers : SessionHas(cookie[b], n, flow) \/ PagesHave(pages[b], n, flow)
        \/ \E p \in Requests :
             /\ req'[p] # Idle
             /\ SessionHas(req'[p].session, n, flow) \/ PagesHave(req'[p].opens, n, flow)
    BY <1>2 DEF ForFlow, SessionHas, PagesHave
  <2> QED
    BY <2>1, <2>2, <2>3, <1>1
<1>3. nonces \in Nat /\ \A n \in Nonces : n \in Nat
  BY BoundsAreNat DEF AuthInv, TypeOK, Nonces
<1>4. \A n \in Nonces \ {NoNonce} :
        /\ \A flow \in Flows : ForFlow(n, flow) => n <= nonces
        /\ ~(ForFlow(n, "base") /\ ForFlow(n, "corp"))
  BY DEF AuthInv, NonceInv
<1>5. \A n \in Nonces \ {NoNonce} : \A flow \in Flows :
        ForFlow(n, flow) => n # nonces + 1
  BY <1>3, <1>4
<1>6. \A n \in Nonces \ {NoNonce} : \A flow \in Flows : ForFlow(n, flow)' => n <= nonces + 1
  BY <1>2, <1>3, <1>4
<1>7. "base" \in Flows /\ "corp" \in Flows /\ "base" # "corp"
  BY DEF Flows
<1>8. \A n \in Nonces \ {NoNonce} : ~(ForFlow(n, "base")' /\ ForFlow(n, "corp")')
  BY <1>2, <1>4, <1>5, <1>7
<1>9. \A n \in Nonces \ {NoNonce} :
        /\ \A flow \in Flows : ForFlow(n, flow)' => n <= nonces'
        /\ ~(ForFlow(n, "base")' /\ ForFlow(n, "corp")')
  BY <1>6, <1>8
<1> QED
  BY <1>9 DEF NonceInv

\* A step of EVE SSO.
LEMMA SsoKeepsInv ==
  ASSUME AuthInv, Extends(tokens, tokens', {}), Len(tokens') = Len(tokens),
         UNCHANGED <<cookie, pages, req, db, nonces>>, errors' \in 0..MaxErrors
  PROVE  AuthInv'
<1>1. /\ tokens \in Seq(TokenRecords) /\ Len(tokens) \in Nat
      /\ \A q \in Requests : req[q] # Idle => RequestOK(tokens, req[q])
  BY Known
<1>2. TypeOK'
  <2>1. tokens' \in Seq(TokenRecords) /\ Len(tokens') <= MaxTokens
        /\ DOMAIN tokens' = DOMAIN tokens
    BY <1>1, LenProperties DEF Extends
  <2> QED
    BY <2>1 DEF AuthInv, TypeOK
<1>3. LocalsInv'
  <2>1. \A q \in Requests : req[q] # Idle => RequestOK(tokens', req[q])
    BY <1>1, RequestStaysOK
  <2>2. \A c \in Chars : DocumentOK(tokens', c, db[c])
    BY <1>1, DocumentStaysOK DEF AuthInv, LocalsInv
  <2> QED
    BY <2>1, <2>2 DEF LocalsInv
<1>4. NonceInv'
  BY DEF AuthInv, NonceInv, ForFlow
<1>5. \A t \in 1..Len(tokens) :
        /\ tokens'[t].next = tokens[t].next
        /\ tokens'[t].char = tokens[t].char /\ tokens'[t].flow = tokens[t].flow
        /\ tokens[t].revoked => tokens'[t].revoked
        /\ tokens[t].lost => tokens'[t].lost
  BY DEF Extends
<1>6. \A t : StoredToken(t)' <=> StoredToken(t)
  BY DEF StoredToken
<1>7. OwnInv'
  BY <1>5, <1>6 DEF AuthInv, OwnInv
<1>8. NextInv'
  BY <1>5 DEF AuthInv, NextInv, Issued
<1>9. StoredTokenAccounted'
  <2>1. \A t \in 1..Len(tokens) : tokens[t] \in TokenRecords
    BY <1>1, ElementOfSeq
  <2>2. \A t \in 1..Len(tokens') : tokens'[t] \in TokenRecords
    BY ElementOfSeq DEF Extends
  <2>3. StoredKnown /\ StoredKnown'
    BY <2>1, <2>2, <1>3 DEF StoredKnown, AuthInv, LocalsInv
  <2>4. AllAccounted
    BY <2>3, AccountedByToken DEF AuthInv
  <2>5. ASSUME NEW t, StoredToken(t)', t # NoToken PROVE Accounted(t)'
    <3>1. Accounted(t) /\ t \in 0..Len(tokens)
      BY <2>4, <2>5, <1>6, StoredTokens DEF AllAccounted
    <3>2. t \in 1..Len(tokens)
      BY <3>1, <2>5, <1>1 DEF NoToken
    <3>3. tokens[t].next = NoToken \/ tokens[t].next \in 1..Len(tokens)
      BY <3>2 DEF AuthInv, NextInv, Issued
    <3> QED
      BY <3>1, <3>2, <3>3, <1>5 DEF Accounted
  <2>6. AllAccounted'
    BY <2>5 DEF AllAccounted
  <2> QED
    BY <2>3, <2>6, AccountedByToken, PTL
<1> QED
  BY <1>2, <1>3, <1>4, <1>7, <1>8, <1>9 DEF AuthInv

LEMMA InitInv == Init => AuthInv
<1> SUFFICES ASSUME Init PROVE AuthInv
  OBVIOUS
<1>1. NoToken \in Tokens /\ NoNonce \in Nonces /\ 0 \in 0..MaxErrors /\ nonces \in Nonces
  BY BoundsAreNat DEF Init, Tokens, NoToken, Nonces, NoNonce
<1>2. tokens \in Seq(TokenRecords) /\ Len(tokens) = 0 /\ Len(tokens) <= MaxTokens
  BY EmptySeq, BoundsAreNat DEF Init
<1>3. cookie \in [Browsers -> Sessions] /\ pages \in [Browsers -> SUBSET Pages]
  BY <1>1 DEF Init, EmptySession, Sessions
<1>4. db \in [Chars -> Docs] /\ \A c \in Chars : db[c].base = NoToken /\ db[c].corp = NoToken
  BY <1>1 DEF Init, NoDoc, Docs
<1>5. req \in [Requests -> Busy \cup {Idle}] /\ \A q \in Requests : req[q] = Idle
  BY DEF Init
<1>6. TypeOK
  BY <1>1, <1>2, <1>3, <1>4, <1>5 DEF Init, TypeOK, Idle
<1>7. LocalsInv
  BY <1>4, <1>5 DEF LocalsInv, DocumentOK
<1>8. \A n \in Nonces \ {NoNonce} : \A flow \in Flows : ~ForFlow(n, flow)
  BY <1>5 DEF Init, EmptySession, ForFlow, SessionHas, PagesHave
<1>9. NonceInv
  BY <1>8 DEF NonceInv, Flows
<1>10. OwnInv /\ NextInv
  BY <1>2 DEF OwnInv, NextInv
<1>11. StoredTokenAccounted
  BY <1>4 DEF StoredTokenAccounted
<1> QED
  BY <1>6, <1>7, <1>9, <1>10, <1>11 DEF AuthInv

\* A request's step keeps the invariant, if it keeps what is not about locals.
LEMMA RequestKeepsInv ==
  ASSUME AuthInv, NEW q \in Requests, NEW r, NEW S, LocalsStep(q, r, S), NonceInv',
         cookie' \in [Browsers -> Sessions], pages' \in [Browsers -> SUBSET Pages],
         nonces' \in Nonces, errors' \in 0..MaxErrors
  PROVE  AuthInv'
<1>1. TypeOK'
  BY LocalsStepType
<1>2. LocalsInv' /\ OwnInv' /\ NextInv' /\ StoredTokenAccounted'
  BY LocalsStepOwn, LocalsStepAccounted
<1> QED
  BY <1>1, <1>2 DEF AuthInv

\* The same for a step that leaves the cookies and the pages alone.
LEMMA InwardStepKeepsInv ==
  ASSUME AuthInv, NEW q \in Requests, NEW r, NEW S, LocalsStep(q, r, S),
         UNCHANGED <<cookie, pages, nonces>>, errors' \in 0..MaxErrors,
         \/ \E b \in Browsers : NoncesFrom(r, cookie[b], pages[b])
         \/ req[q] # Idle /\ NoncesFrom(r, req[q].session, req[q].opens)
  PROVE  AuthInv'
<1>1. req' = [req EXCEPT ![q] = r]
  BY DEF LocalsStep
<1>2. NonceInv'
  BY <1>1, NoncesStay
<1>3. /\ cookie' \in [Browsers -> Sessions] /\ pages' \in [Browsers -> SUBSET Pages]
      /\ nonces' \in Nonces
  BY DEF AuthInv, TypeOK
<1> QED
  BY <1>2, <1>3, RequestKeepsInv

LEMMA NonceInRange == ASSUME AuthInv, nonces < MaxNonces PROVE nonces + 1 \in Nonces
BY BoundsAreNat DEF AuthInv, TypeOK, Nonces

LEMMA ErrorInRange == ASSUME AuthInv PROVE errors \in 0..MaxErrors /\ (Error => errors' \in 0..MaxErrors)
BY BoundsAreNat DEF AuthInv, TypeOK, Error

LEMMA ArriveKeepsInv ==
  ASSUME AuthInv, NEW q \in Requests, Arrive(q)
  PROVE  AuthInv'
<1>1. PICK b \in Browsers :
        \/ Login(q, b)
        \/ Logout(q, b)
        \/ \E route \in {"page", "connect", "disconnect", "clear"} : Guarded(q, b, route)
        \/ \E p \in pages[b], c \in Chars : Callback(q, b, p, c)
  BY DEF Arrive
<1>2. /\ cookie \in [Browsers -> Sessions] /\ pages \in [Browsers -> SUBSET Pages]
      /\ nonces \in Nonces /\ errors \in 0..MaxErrors
  BY DEF AuthInv, TypeOK
<1>3. \A r : NoncesFrom(r, cookie[b], {}) => NoncesFrom(r, cookie[b], pages[b])
  BY DEF NoncesFrom
<1>4. CASE Login(q, b)
  <2>1. PICK r : /\ LocalsStep(q, r, {})
                 /\ r.session = [cookie[b] EXCEPT !.login = nonces + 1]
                 /\ r.opens = {[nonce |-> nonces + 1, flow |-> "base"]}
    BY <1>4, LoginStep
  <2>2. /\ nonces' = nonces + 1 /\ nonces + 1 \in Nonces
        /\ UNCHANGED <<cookie, pages, errors>> /\ req' = [req EXCEPT ![q] = r]
    BY <1>4, <2>1, NonceInRange DEF Login, LocalsStep
  <2>3. cookie[b] \in Sessions
    BY <1>2
  <2>4. r.session.login = nonces + 1 /\ r.session.corp = cookie[b].corp
    BY <2>1, <2>3 DEF Sessions
  <2>5. \A n \in Nonces \ {NoNonce} : \A flow \in Flows :
          /\ SessionHas(r.session, n, flow) => ForFlow(n, flow) \/ (n = nonces + 1 /\ flow = "base")
          /\ PagesHave(r.opens, n, flow) => n = nonces + 1 /\ flow = "base"
    BY <2>1, <2>4 DEF SessionHas, PagesHave, ForFlow, Flows
  <2>6. "base" \in Flows
    BY DEF Flows
  <2>7. NonceInv'
    BY <2>2, <2>5, <2>6, NonceGenerated
  <2> QED
    BY <2>1, <2>2, <2>7, <1>2, RequestKeepsInv
<1>5. CASE Logout(q, b)
  <2>1. UNCHANGED <<cookie, pages, nonces, errors>>
    BY <1>5 DEF Logout
  <2> QED
    BY <2>1, <1>2, <1>3, <1>5, LogoutStep, InwardStepKeepsInv
<1>6. ASSUME NEW route \in {"page", "connect", "disconnect", "clear"}, Guarded(q, b, route)
      PROVE  AuthInv'
  <2>1. UNCHANGED <<cookie, pages, nonces, errors>>
    BY <1>6 DEF Guarded
  <2> QED
    BY <2>1, <1>2, <1>3, <1>6, GuardedStep, InwardStepKeepsInv
<1>7. ASSUME NEW p \in pages[b], NEW c \in Chars, Callback(q, b, p, c)
      PROVE  AuthInv'
  <2>1. PICK r : LocalsStep(q, r, {}) /\ NoncesFrom(r, cookie[b], pages[b])
    BY <1>7, CallbackStep
  <2>2. /\ UNCHANGED <<cookie, nonces, errors>>
        /\ pages' = [pages EXCEPT ![b] = pages[b] \ {p}]
        /\ req' = [req EXCEPT ![q] = r]
    BY <1>7, <2>1 DEF Callback, LocalsStep
  <2>3. /\ pages' \in [Browsers -> SUBSET Pages]
        /\ \A x \in Browsers : \A o \in pages'[x] : o \in pages[x]
    BY <1>2, <2>2
  <2>4. NonceInv'
    BY <2>1, <2>2, <2>3, NoncesStay
  <2> QED
    BY <2>1, <2>2, <2>3, <2>4, <1>2, RequestKeepsInv
<1> QED
  BY <1>1, <1>4, <1>5, <1>6, <1>7

LEMMA GetCurrentCharacterKeepsInv ==
  ASSUME AuthInv, NEW q \in Requests, GetCurrentCharacter(q)
  PROVE  AuthInv'
<1>1. errors \in 0..MaxErrors
  BY ErrorInRange
<1>2. req[q] # Idle
  <2>1. req[q].phase \in {"find", "base", "corp", "save"}
    BY DEF GetCurrentCharacter, Find, RefreshBase, BaseRefused, RefreshCorp, CorpRefused,
           RefreshFails, Save
  <2> QED
    BY <2>1 DEF Idle
<1>3. CASE Find(q)
  BY <1>1, <1>2, <1>3, FindStep, InwardStepKeepsInv DEF Find
<1>4. CASE RefreshBase(q)
  BY <1>1, <1>2, <1>4, RefreshBaseStep, InwardStepKeepsInv DEF RefreshBase
<1>5. CASE BaseRefused(q)
  BY <1>1, <1>2, <1>5, BaseRefusedStep, InwardStepKeepsInv DEF BaseRefused
<1>6. CASE RefreshCorp(q)
  BY <1>1, <1>2, <1>6, RefreshCorpStep, InwardStepKeepsInv DEF RefreshCorp
<1>7. CASE CorpRefused(q)
  BY <1>1, <1>2, <1>7, CorpRefusedStep, InwardStepKeepsInv DEF CorpRefused
<1>8. CASE RefreshFails(q)
  <2>1. UNCHANGED <<cookie, pages, nonces>> /\ errors' \in 0..MaxErrors
    BY <1>8, ErrorInRange DEF RefreshFails
  <2>2. NoncesFrom(Idle, req[q].session, req[q].opens)
    BY DEF NoncesFrom
  <2> QED
    BY <2>1, <2>2, <1>2, <1>8, RefreshFailsStep, InwardStepKeepsInv
<1>9. CASE Save(q)
  BY <1>1, <1>2, <1>9, SaveStep, InwardStepKeepsInv DEF Save
<1> QED
  BY <1>3, <1>4, <1>5, <1>6, <1>7, <1>8, <1>9 DEF GetCurrentCharacter

LEMMA RouteKeepsInv ==
  ASSUME AuthInv, NEW q \in Requests, Route(q)
  PROVE  AuthInv'
<1>1. /\ cookie \in [Browsers -> Sessions] /\ pages \in [Browsers -> SUBSET Pages]
      /\ nonces \in Nonces /\ errors \in 0..MaxErrors
  BY DEF AuthInv, TypeOK
<1>2. req[q] # Idle
  <2>1. req[q].phase \in {"body", "exchange", "store", "respond"}
    BY DEF Route, ConnectCorp, DisconnectCorp, ClearData, Exchange, StoreLogin, StoreCorp,
           CallbackFails, Respond
  <2> QED
    BY <2>1 DEF Idle
<1>3. NoncesFrom(Idle, req[q].session, req[q].opens)
  BY DEF NoncesFrom
<1>4. req[q] \in Busy
  BY <1>2, Known DEF RequestOK
<1>5. CASE ConnectCorp(q)
  <2>1. PICK r : /\ LocalsStep(q, r, {})
                 /\ r.session = [req[q].session EXCEPT !.corp = nonces + 1]
                 /\ r.opens = {[nonce |-> nonces + 1, flow |-> "corp"]}
    BY <1>5, ConnectCorpStep
  <2>2. /\ nonces' = nonces + 1 /\ nonces + 1 \in Nonces
        /\ UNCHANGED <<cookie, pages, errors>> /\ req' = [req EXCEPT ![q] = r]
    BY <1>5, <2>1, NonceInRange DEF ConnectCorp, LocalsStep
  <2>3. r.session.login = req[q].session.login /\ r.session.corp = nonces + 1
    BY <2>1, <1>4 DEF Busy, Sessions
  <2>4. \A n \in Nonces \ {NoNonce} : \A flow \in Flows :
          /\ SessionHas(r.session, n, flow) => ForFlow(n, flow) \/ (n = nonces + 1 /\ flow = "corp")
          /\ PagesHave(r.opens, n, flow) => n = nonces + 1 /\ flow = "corp"
    BY <2>1, <2>3, <1>2 DEF SessionHas, PagesHave, ForFlow, Flows
  <2>5. "corp" \in Flows
    BY DEF Flows
  <2>6. NonceInv'
    BY <2>2, <2>4, <2>5, NonceGenerated
  <2> QED
    BY <2>1, <2>2, <2>6, <1>1, RequestKeepsInv
<1>6. CASE DisconnectCorp(q)
  BY <1>1, <1>2, <1>3, <1>6, DisconnectCorpStep, InwardStepKeepsInv DEF DisconnectCorp
<1>7. CASE ClearData(q)
  BY <1>1, <1>2, <1>7, ClearDataStep, InwardStepKeepsInv DEF ClearData
<1>8. CASE Exchange(q)
  BY <1>1, <1>2, <1>8, ExchangeStep, InwardStepKeepsInv DEF Exchange
<1>9. CASE StoreLogin(q)
  BY <1>1, <1>2, <1>9, StoreLoginStep, InwardStepKeepsInv DEF StoreLogin
<1>10. CASE StoreCorp(q)
  BY <1>1, <1>2, <1>10, StoreCorpStep, InwardStepKeepsInv DEF StoreCorp
<1>11. CASE CallbackFails(q)
  <2>1. UNCHANGED <<cookie, pages, nonces>> /\ errors' \in 0..MaxErrors
    BY <1>11, ErrorInRange DEF CallbackFails
  <2> QED
    BY <2>1, <1>2, <1>3, <1>11, CallbackFailsStep, InwardStepKeepsInv
<1>12. CASE Respond(q)
  <2> DEFINE b == req[q].browser
  <2>1. /\ UNCHANGED <<nonces, errors>> /\ req' = [req EXCEPT ![q] = Idle]
        /\ cookie' = [cookie EXCEPT ![b] = req[q].session]
        /\ pages' = [pages EXCEPT ![b] = pages[b] \cup req[q].opens]
    BY <1>12 DEF Respond
  <2>2. b \in Browsers /\ req[q].session \in Sessions /\ req[q].opens \in SUBSET Pages
    BY <1>4 DEF Busy
  <2>3. cookie' \in [Browsers -> Sessions] /\ pages' \in [Browsers -> SUBSET Pages]
    BY <1>1, <2>1, <2>2
  <2>4. \A x \in Browsers :
          /\ cookie'[x] = cookie[x] \/ cookie'[x] = req[q].session
          /\ \A p \in pages'[x] : p \in pages[x] \/ p \in req[q].opens
    BY <1>1, <2>1, <2>2
  <2>5. NonceInv'
    BY <2>1, <2>4, <1>2, <1>3, NoncesStay
  <2> QED
    BY <2>1, <2>3, <2>5, <1>1, <1>12, RespondStep, RequestKeepsInv
<1> QED
  BY <1>5, <1>6, <1>7, <1>8, <1>9, <1>10, <1>11, <1>12 DEF Route

LEMMA SsoStepKeepsInv == ASSUME AuthInv, Sso PROVE AuthInv'
<1>1. tokens \in Seq(TokenRecords) /\ Len(tokens) \in Nat /\ Len(tokens) <= MaxTokens
  BY Known
<1>2. DOMAIN tokens = 1..Len(tokens) /\ \A t \in 1..Len(tokens) : tokens[t] \in TokenRecords
  BY <1>1, LenProperties, ElementOfSeq
<1>3. ASSUME NEW t \in DOMAIN tokens, Expire(t) PROVE AuthInv'
  <2>1. /\ tokens' = [tokens EXCEPT ![t] = [tokens[t] EXCEPT !.expired = TRUE]]
        /\ UNCHANGED <<cookie, pages, req, db, nonces, errors>>
    BY <1>3 DEF Expire
  <2>2. \A u \in 1..Len(tokens) : tokens'[u] \in {tokens[u], [tokens[u] EXCEPT !.expired = TRUE]}
    BY <1>2, <2>1
  <2>3. tokens' = [u \in 1..Len(tokens) |-> tokens'[u]]
    BY <1>2, <2>1
  <2>4. Extends(tokens, tokens', {}) /\ Len(tokens') = Len(tokens)
    BY <1>1, <2>2, <2>3, Rewritten
  <2> QED
    BY <2>1, <2>4, SsoKeepsInv, ErrorInRange
<1>4. ASSUME NEW c \in Chars, NEW flow \in Flows, Revoke(c, flow) PROVE AuthInv'
  <2>1. /\ tokens' = [t \in DOMAIN tokens |->
                        IF tokens[t].char = c /\ tokens[t].flow = flow
                        THEN [tokens[t] EXCEPT !.revoked = TRUE] ELSE tokens[t]]
        /\ UNCHANGED <<cookie, pages, req, db, nonces>> /\ Error
    BY <1>4 DEF Revoke
  <2>2. \A u \in 1..Len(tokens) : tokens'[u] \in {tokens[u], [tokens[u] EXCEPT !.revoked = TRUE]}
    BY <1>2, <2>1
  <2>3. tokens' = [u \in 1..Len(tokens) |-> tokens'[u]]
    BY <1>2, <2>1
  <2>4. Extends(tokens, tokens', {}) /\ Len(tokens') = Len(tokens)
    BY <1>1, <2>2, <2>3, Rewritten
  <2> QED
    BY <2>1, <2>4, SsoKeepsInv, ErrorInRange
<1> QED
  BY <1>3, <1>4 DEF Sso

LEMMA StutterKeepsInv == ASSUME AuthInv, UNCHANGED vars PROVE AuthInv'
<1>1. Extends(tokens, tokens', {}) /\ Len(tokens') = Len(tokens)
  BY Known, NoExtension DEF vars
<1> QED
  BY <1>1, SsoKeepsInv, ErrorInRange DEF vars

LEMMA NextKeepsInv == AuthInv /\ [Next]_vars => AuthInv'
<1> SUFFICES ASSUME AuthInv, [Next]_vars PROVE AuthInv'
  OBVIOUS
<1>1. CASE Sso
  BY <1>1, SsoStepKeepsInv
<1>2. ASSUME NEW q \in Requests, Arrive(q) \/ GetCurrentCharacter(q) \/ Route(q) PROVE AuthInv'
  BY <1>2, ArriveKeepsInv, GetCurrentCharacterKeepsInv, RouteKeepsInv
<1>3. CASE UNCHANGED vars
  BY <1>3, StutterKeepsInv
<1> QED
  BY <1>1, <1>2, <1>3 DEF Next

-----------------------------------------------------------------------------
(* The theorems *)

LEMMA AuthInvHolds == Spec => []AuthInv
BY InitInv, NextKeepsInv, PTL DEF Spec

\* Type correctness, with what a request's phase says of its locals.
THEOREM TypeCorrect == Spec => []TypeOK
<1>1. AuthInv => TypeOK
  BY DEF AuthInv
<1> QED
  BY <1>1, AuthInvHolds, PTL

\* A token stored in a character's document was issued to that character, in
\* the flow its place stands for.
THEOREM TokensAreInPlace == Spec => []TokensInPlace
<1>1. AuthInv => TokensInPlace
  <2> SUFFICES ASSUME AuthInv PROVE TokensInPlace
    OBVIOUS
  <2>1. DOMAIN tokens = 1..Len(tokens) /\ \A t \in 1..Len(tokens) : t # NoToken
    BY Known, LenProperties DEF NoToken
  <2>2. \A c \in Chars : DocumentOK(tokens, c, db[c])
    BY DEF AuthInv, LocalsInv
  <2> QED
    BY <2>1, <2>2 DEF TokensInPlace, DocumentOK, Issued
<1> QED
  BY <1>1, AuthInvHolds, PTL

\* However requests overlap, a stored refresh token is good unless the player
\* revoked the grant, a request is about to save the one that replaced it, or a
\* failed call dropped that one.
THEOREM StoredTokensAreAccounted == Spec => []StoredTokenAccounted
<1>1. AuthInv => StoredTokenAccounted
  BY DEF AuthInv
<1> QED
  BY <1>1, AuthInvHolds, PTL

\* Only a login brings a document into being: no refresh or connection in
\* flight revives one that clear-data has deleted.
THEOREM OnlyLoginsCreate == Spec => OnlyLoginCreates
<1> DEFINE Made(c) == ~Stored(c) /\ Stored(c)'
           ByLogin(c) == \E q \in Requests : /\ req[q].phase = "store" /\ req'[q].phase = "respond"
                                             /\ req[q].flow = "base" /\ req[q].as = c
           Created == \A c \in Chars : Made(c) => ByLogin(c)
<1>1. ASSUME AuthInv, [Next]_vars PROVE [Created]_vars
  <2>1. db \in [Chars -> Docs] /\ \A c \in Chars : db'[c].base = db[c].base => ~Made(c)
    BY <1>1, Known DEF Stored
  <2>2. CASE db' = db
    BY <2>1, <2>2
  <2>3. ASSUME NEW q \in Requests, Save(q) PROVE Created
    BY <1>1, <2>1, <2>3, SavedDocuments DEF Stored
  <2>4. ASSUME NEW q \in Requests, DisconnectCorp(q) \/ ClearData(q) \/ StoreCorp(q) PROVE Created
    <3>1. \A c \in Chars : db'[c].base \in {db[c].base, NoToken}
      <4>1. db[req[q].session.char] \in Docs \/ req[q].session.char \notin Chars
        BY <2>1
      <4>2. db[req[q].as] \in Docs \/ req[q].as \notin Chars
        BY <2>1
      <4>3. CASE DisconnectCorp(q)
        BY <4>3, <4>1, <2>1 DEF DisconnectCorp, Docs
      <4>4. CASE ClearData(q)
        BY <4>4, <2>1 DEF ClearData, NoDoc
      <4>5. CASE StoreCorp(q)
        BY <4>5, <4>2, <2>1 DEF StoreCorp, Docs
      <4> QED
        BY <2>4, <4>3, <4>4, <4>5
    <3> QED
      BY <3>1 DEF Stored
  <2>5. ASSUME NEW q \in Requests, StoreLogin(q) PROVE Created
    <3>1. /\ req[q].phase = "store" /\ req[q].flow = "base"
          /\ \A c \in Chars : c # req[q].as => db'[c] = db[c]
      BY <2>5, <2>1 DEF StoreLogin
    <3>2. req[q] \in Busy
      BY <1>1, <3>1, Known DEF RequestOK, Idle
    <3>3. req'[q].phase = "respond"
      BY <1>1, <2>5, <3>2, Known DEF StoreLogin, Busy, Sessions
    <3> QED
      BY <2>1, <3>1, <3>3
  <2>6. ASSUME NEW q \in Requests, Arrive(q) \/ GetCurrentCharacter(q) \/ Route(q)
        PROVE  \/ db' = db \/ Save(q) \/ StoreLogin(q)
               \/ DisconnectCorp(q) \/ ClearData(q) \/ StoreCorp(q)
    BY <2>6 DEF Arrive, Login, Logout, Guarded, Callback,
                GetCurrentCharacter, Find, RefreshBase, BaseRefused, RefreshCorp, CorpRefused,
                RefreshFails, Route, ConnectCorp, Exchange, CallbackFails, Respond
  <2>7. ASSUME Sso PROVE db' = db
    BY <2>7 DEF Sso, Expire, Revoke
  <2> QED
    BY <1>1, <2>2, <2>3, <2>4, <2>5, <2>6, <2>7 DEF Next, vars
<1>2. Spec => [][Created]_vars
  BY <1>1, AuthInvHolds, PTL DEF Spec
<1> QED
  BY <1>2 DEF OnlyLoginCreates

-----------------------------------------------------------------------------
(* What is connected has its corporation, unless a disconnect crosses a refresh *)

\* Locals that hold the corp pair of c, as it was read or refreshed, and may save it.
Holds(r, c) ==
  r.phase \in {"base", "corp", "save"} /\ r.session.char = c /\ r.corp # NoToken

Complete(c) == db[c].corpId /\ db[c].corpScopes

\* The corporation or the scopes of c are cleared under a request that goes on
\* holding the pair.
Crossing ==
  \E q \in Requests, c \in Chars :
    Holds(req[q], c) /\ Holds(req[q], c)' /\ Complete(c) /\ ~Complete(c)'

HeldInv == \A q \in Requests, c \in Chars : Holds(req[q], c) => Complete(c)

LEMMA ResolvedHolds ==
  ASSUME NEW r \in Busy, NEW c
  PROVE  ~Holds(Resolved(r), c)
<1>1. CASE r.route = "page"
  BY <1>1 DEF Resolved, Holds, Idle
<1>2. CASE r.route # "page"
  <2>1. Resolved(r).phase = "body"
    BY <1>2 DEF Resolved, Busy
  <2> QED
    BY <2>1 DEF Holds
<1> QED
  BY <1>1, <1>2

LEMMA PastBaseHolds ==
  ASSUME NEW r \in Busy, NEW c, Holds(PastBase(r), c)
  PROVE  r.session.char = c /\ r.corp # NoToken
<1>1. PastBase(r) \in {Resolved(r), [r EXCEPT !.phase = "corp"], [r EXCEPT !.phase = "save"]}
  BY DEF PastBase
<1>2. \A p : /\ [r EXCEPT !.phase = p].session = r.session
             /\ [r EXCEPT !.phase = p].corp = r.corp
  BY DEF Busy
<1> QED
  BY <1>1, <1>2, ResolvedHolds DEF Holds

\* A request comes to hold a pair by reading it.
LEMMA HeldWasRead ==
  ASSUME AuthInv, NEW q \in Requests, NEW c \in Chars,
         Arrive(q) \/ GetCurrentCharacter(q) \/ Route(q), Holds(req'[q], c)
  PROVE  Holds(req[q], c) \/ (db' = db /\ db[c].corp # NoToken)
<1>1. req \in [Requests -> Busy \cup {Idle}]
  BY Known
<1>2. ASSUME req'[q] = Idle PROVE FALSE
  BY <1>2 DEF Holds, Idle
<1>3. CASE Arrive(q)
  <2>1. PICK b \in Browsers :
          \/ Login(q, b)
          \/ Logout(q, b)
          \/ \E route \in {"page", "connect", "disconnect", "clear"} : Guarded(q, b, route)
          \/ \E p \in pages[b], d \in Chars : Callback(q, b, p, d)
    BY <1>3 DEF Arrive
  <2>2. CASE Login(q, b)
    <3>1. req'[q].phase = "respond"
      BY <1>1, <2>2 DEF Login, Arriving
    <3> QED
      BY <3>1 DEF Holds
  <2>3. CASE Logout(q, b)
    <3>1. req'[q].phase = "respond"
      BY <1>1, <2>3 DEF Logout, Arriving
    <3> QED
      BY <3>1 DEF Holds
  <2>4. ASSUME NEW route, Guarded(q, b, route) PROVE FALSE
    <3>1. req'[q].phase = "find"
      BY <1>1, <2>4 DEF Guarded, Arriving
    <3> QED
      BY <3>1 DEF Holds
  <2>5. ASSUME NEW p, NEW d, Callback(q, b, p, d) PROVE FALSE
    <3>1. req'[q].phase = "exchange"
      BY <1>1, <2>5 DEF Callback, Arriving
    <3> QED
      BY <3>1 DEF Holds
  <2> QED
    BY <2>1, <2>2, <2>3, <2>4, <2>5
<1>4. CASE Find(q)
  <2> DEFINE x == req[q].session.char
             l == [req[q] EXCEPT !.base = db[x].base, !.corp = db[x].corp]
  <2>1. req[q].phase = "find" /\ req[q] # Idle /\ db' = db
    <3>1. req[q].phase = "find" /\ db' = db
      BY <1>4 DEF Find
    <3> QED
      BY <3>1 DEF Idle
  <2>2. req[q] \in Busy /\ x \in Chars /\ db[x] \in Docs
    BY <2>1, Known DEF RequestOK
  <2>3. l \in Busy /\ l.session = req[q].session /\ l.corp = db[x].corp
    BY <2>2 DEF Busy, Docs
  <2>4. [l EXCEPT !.phase = "base"].session = l.session /\ [l EXCEPT !.phase = "base"].corp = l.corp
    BY <2>3 DEF Busy
  <2>5. req'[q] \in {Idle, [l EXCEPT !.phase = "base"], PastBase(l)}
    BY <1>1, <1>4 DEF Find
  <2> HIDE DEF l
  <2>6. l.session.char = c /\ l.corp # NoToken
    BY <1>2, <2>3, <2>4, <2>5, PastBaseHolds DEF Holds
  <2> QED
    BY <2>1, <2>3, <2>6
<1>5. CASE RefreshBase(q)
  <2> DEFINE l == [req[q] EXCEPT !.base = NewToken, !.touched = {"base"}]
  <2>1. req[q].phase = "base" /\ req[q] # Idle /\ req'[q] = PastBase(l) /\ Room
    BY <1>1, <1>5 DEF RefreshBase, Idle
  <2>2. req[q] \in Busy /\ NewToken \in Tokens
    BY <2>1, Known, BoundsAreNat DEF RequestOK, Room, NewToken, Tokens
  <2>3. l \in Busy /\ l.session = req[q].session /\ l.corp = req[q].corp
    BY <2>2 DEF Busy, Flows
  <2> HIDE DEF l
  <2>4. l.session.char = c /\ l.corp # NoToken
    BY <2>1, <2>3, PastBaseHolds
  <2> QED
    BY <2>1, <2>3, <2>4 DEF Holds
<1>6. CASE RefreshCorp(q)
  <2>1. req[q].phase = "corp" /\ req[q] # Idle
    BY <1>6 DEF RefreshCorp, Idle
  <2>2. req[q] \in Busy /\ req[q].corp # NoToken
    BY <2>1, Known DEF RequestOK
  <2>3. req'[q].session = req[q].session
    BY <1>1, <1>6, <2>2 DEF RefreshCorp, Busy
  <2> QED
    BY <2>1, <2>2, <2>3 DEF Holds
<1>7. CASE CorpRefused(q)
  <2>1. req[q] \in Busy
    BY <1>1, <1>7 DEF CorpRefused, Idle
  <2>2. req'[q].corp = NoToken
    BY <1>1, <1>7, <2>1 DEF CorpRefused, Busy
  <2> QED
    BY <2>2 DEF Holds
<1>8. CASE Save(q)
  <2>1. req[q] \in Busy
    BY <1>1, <1>8 DEF Save, Idle
  <2>2. req'[q] = Resolved(req[q])
    BY <1>1, <1>8 DEF Save
  <2> QED
    BY <2>1, <2>2, ResolvedHolds
<1>9. CASE BaseRefused(q) \/ RefreshFails(q) \/ Route(q)
  <2>1. req[q] # Idle /\ req[q] \in Busy
    <3>1. BaseRefused(q) \/ RefreshFails(q) => req[q].phase \in {"base", "corp"}
      BY DEF BaseRefused, RefreshFails
    <3>2. Route(q) => req[q].phase \in {"body", "exchange", "store", "respond"}
      BY DEF Route, ConnectCorp, DisconnectCorp, ClearData, Exchange, StoreLogin, StoreCorp,
             CallbackFails, Respond
    <3>3. req[q].phase # "idle"
      BY <1>9, <3>1, <3>2
    <3> QED
      BY <1>1, <3>3 DEF Idle
  <2>2. req'[q] = Idle \/ req'[q].phase \in {"respond", "store"}
    <3>1. CASE BaseRefused(q)
      BY <1>1, <2>1, <3>1 DEF BaseRefused, Busy
    <3>2. CASE RefreshFails(q) \/ DisconnectCorp(q) \/ CallbackFails(q) \/ Respond(q)
      BY <1>1, <3>2 DEF RefreshFails, DisconnectCorp, CallbackFails, Respond
    <3>3. CASE ConnectCorp(q)
      BY <1>1, <2>1, <3>3 DEF ConnectCorp, Busy
    <3>4. CASE ClearData(q)
      BY <1>1, <2>1, <3>4 DEF ClearData, Busy
    <3>5. CASE Exchange(q)
      BY <1>1, <2>1, <3>5 DEF Exchange, Busy
    <3>6. CASE StoreLogin(q)
      BY <1>1, <2>1, <3>6 DEF StoreLogin, Busy
    <3>7. CASE StoreCorp(q)
      BY <1>1, <2>1, <3>7 DEF StoreCorp, Busy
    <3> QED
      BY <1>9, <3>1, <3>2, <3>3, <3>4, <3>5, <3>6, <3>7 DEF Route
  <2> QED
    BY <1>2, <2>2 DEF Holds
<1> QED
  BY <1>3, <1>4, <1>5, <1>6, <1>7, <1>8, <1>9 DEF GetCurrentCharacter

\* What is connected was so, was connected completely, or was saved by a request that
\* held the pair.
LEMMA ConnectedWhence ==
  ASSUME AuthInv, NEW q \in Requests, NEW c \in Chars,
         Arrive(q) \/ GetCurrentCharacter(q) \/ Route(q), db'[c].corp # NoToken
  PROVE  \/ Complete(c)'
         \/ (db[c].corp # NoToken \/ Holds(req[q], c)) /\ (Complete(c) => Complete(c)')
<1>1. db \in [Chars -> Docs]
  BY Known
<1>2. CASE db' = db
  BY <1>2 DEF Complete
<1>3. CASE StoreLogin(q)
  <2>1. db'[c] = db[c] \/ db'[c].corp = NoToken
    BY <1>1, <1>3 DEF StoreLogin, NoDoc
  <2> QED
    BY <2>1 DEF Complete
<1>4. CASE ClearData(q) \/ DisconnectCorp(q)
  <2>1. db[req[q].session.char] \in Docs \/ req[q].session.char \notin Chars
    BY <1>1
  <2>2. db'[c] = db[c] \/ db'[c].corp = NoToken
    <3>1. CASE ClearData(q)
      BY <1>1, <3>1 DEF ClearData, NoDoc
    <3>2. CASE DisconnectCorp(q)
      <4> DEFINE x == req[q].session.char
                 d == [db[x] EXCEPT !.corp = NoToken, !.corpScopes = FALSE, !.corpId = FALSE]
      <4>1. db' = [db EXCEPT ![x] = d]
        BY <1>1, <2>1, <3>2 DEF DisconnectCorp, Docs
      <4>2. x \in Chars => d.corp = NoToken
        BY <2>1 DEF Docs
      <4> HIDE DEF d, x
      <4> QED
        BY <1>1, <4>1, <4>2
    <3> QED
      BY <1>4, <3>1, <3>2
  <2> QED
    BY <2>2 DEF Complete
<1>5. CASE StoreCorp(q)
  <2>1. db'[c] = db[c] \/ (db'[c].corpScopes /\ db'[c].corpId)
    BY <1>1, <1>5 DEF StoreCorp, Docs
  <2> QED
    BY <2>1 DEF Complete
<1>6. CASE Save(q)
  <2> DEFINE x == req[q].session.char
             d == db[x]
             e == IF "base" \in req[q].touched THEN [d EXCEPT !.base = req[q].base] ELSE d
             f == IF "corp" \notin req[q].touched THEN e
                  ELSE IF req[q].corp = NoToken
                       THEN [e EXCEPT !.corp = NoToken, !.corpScopes = FALSE]
                       ELSE [e EXCEPT !.corp = req[q].corp]
  <2>1. req[q].phase = "save" /\ req[q] # Idle
    BY <1>6 DEF Save, Idle
  <2>2. x \in Chars /\ d \in Docs /\ req[q] \in Busy
    BY <1>1, <2>1, Known DEF RequestOK
  <2>3. db' = [db EXCEPT ![x] = IF Stored(x) THEN f ELSE d]
    BY <1>6 DEF Save
  <2>4. /\ e \in Docs /\ e.corp = d.corp /\ e.corpId = d.corpId /\ e.corpScopes = d.corpScopes
    BY <2>2 DEF Docs, Busy
  <2> HIDE DEF e
  <2>5. \/ f.corp = NoToken
        \/ /\ f.corp = d.corp \/ req[q].corp # NoToken
           /\ f.corpId = d.corpId /\ f.corpScopes = d.corpScopes
    BY <2>2, <2>4 DEF Docs
  <2> HIDE DEF d, f
  <2>6. CASE c = x /\ Stored(x)
    <3>1. db'[c] = f /\ d = db[c]
      BY <1>1, <2>3, <2>6 DEF d
    <3>2. f.corp # NoToken
      BY <3>1
    <3> QED
      BY <2>1, <2>5, <2>6, <3>1, <3>2 DEF Holds, Complete
  <2>7. CASE c # x \/ ~Stored(x)
    <3>1. db'[c] = db[c]
      BY <1>1, <2>3, <2>7 DEF d
    <3> QED
      BY <3>1 DEF Complete
  <2> QED
    BY <2>6, <2>7
<1>7. \/ db' = db \/ Save(q) \/ StoreLogin(q)
      \/ DisconnectCorp(q) \/ ClearData(q) \/ StoreCorp(q)
  <2>1. Arrive(q) => db' = db
    BY DEF Arrive, Login, Logout, Guarded, Callback
  <2>2. GetCurrentCharacter(q) => db' = db \/ Save(q)
    BY DEF GetCurrentCharacter, Find, RefreshBase, BaseRefused, RefreshCorp, CorpRefused,
           RefreshFails
  <2>3. Route(q) => \/ db' = db \/ StoreLogin(q)
                    \/ DisconnectCorp(q) \/ ClearData(q) \/ StoreCorp(q)
    BY DEF Route, ConnectCorp, Exchange, CallbackFails, Respond
  <2> QED
    BY <2>1, <2>2, <2>3
<1> QED
  BY <1>2, <1>3, <1>4, <1>5, <1>6, <1>7

\* The other requests wait.
LEMMA OthersWait ==
  ASSUME AuthInv, NEW q \in Requests, NEW p \in Requests, p # q,
         Arrive(q) \/ GetCurrentCharacter(q) \/ Route(q)
  PROVE  req'[p] = req[p]
<1>1. req \in [Requests -> Busy \cup {Idle}]
  BY Known
<1>2. CASE Arrive(q)
  <2>1. \E r : req' = [req EXCEPT ![q] = r]
    BY <1>2 DEF Arrive, Login, Logout, Guarded, Callback
  <2> QED
    BY <1>1, <2>1
<1>3. CASE GetCurrentCharacter(q)
  BY <1>1, <1>3 DEF GetCurrentCharacter, Find, RefreshBase, BaseRefused, RefreshCorp,
                    CorpRefused, RefreshFails, Save
<1>4. CASE Route(q)
  BY <1>1, <1>4 DEF Route, ConnectCorp, DisconnectCorp, ClearData, Exchange, StoreLogin,
                    StoreCorp, CallbackFails, Respond
<1> QED
  BY <1>2, <1>3, <1>4

LEMMA ConnectedStep ==
  ASSUME AuthInv, ConnectedHasCorporation, HeldInv, [Next]_vars, ~Crossing
  PROVE  ConnectedHasCorporation' /\ HeldInv'
<1>1. ASSUME UNCHANGED <<db, req>> PROVE ConnectedHasCorporation' /\ HeldInv'
  BY <1>1 DEF ConnectedHasCorporation, HeldInv, Holds, Complete
<1>2. ASSUME NEW q \in Requests, Arrive(q) \/ GetCurrentCharacter(q) \/ Route(q)
      PROVE  ConnectedHasCorporation' /\ HeldInv'
  <2>1. ASSUME NEW c \in Chars, db'[c].corp # NoToken PROVE Complete(c)'
    <3>1. db[c].corp # NoToken => Complete(c)
      BY DEF ConnectedHasCorporation, Complete
    <3>2. Holds(req[q], c) => Complete(c)
      BY DEF HeldInv
    <3> QED
      BY <1>2, <2>1, <3>1, <3>2, ConnectedWhence
  <2>2. ASSUME NEW p \in Requests, NEW c \in Chars, Holds(req'[p], c) PROVE Complete(c)'
    <3>1. CASE Holds(req[p], c)
      <4>1. Complete(c)
        BY <3>1 DEF HeldInv
      <4>2. Holds(req[p], c)'
        BY <2>2 DEF Holds
      <4> QED
        BY <3>1, <4>1, <4>2 DEF Crossing
    <3>2. CASE ~Holds(req[p], c)
      <4>1. p = q
        BY <1>2, <2>2, <3>2, OthersWait
      <4>2. db' = db /\ db[c].corp # NoToken
        BY <1>2, <2>2, <3>2, <4>1, HeldWasRead
      <4> QED
        BY <4>2 DEF ConnectedHasCorporation, Complete
    <3> QED
      BY <3>1, <3>2
  <2>3. ConnectedHasCorporation'
    BY <2>1 DEF ConnectedHasCorporation, Complete
  <2>4. HeldInv'
    BY <2>2 DEF HeldInv, Holds
  <2> QED
    BY <2>3, <2>4
<1>3. ASSUME Sso PROVE UNCHANGED <<db, req>>
  BY <1>3 DEF Sso, Expire, Revoke
<1> QED
  BY <1>1, <1>2, <1>3 DEF Next, vars

\* A connected character has its corporation and its scopes (models/character.py) as
\* long as nothing clears them under a request that holds the pair: the disconnect that
\* crosses a refresh, which the run auth_disconnect finds, is the only way to lose them.
THEOREM ConnectedUnlessCrossed ==
  Spec /\ [][~Crossing]_vars => []ConnectedHasCorporation
<1>1. Init => ConnectedHasCorporation /\ HeldInv
  BY DEF Init, ConnectedHasCorporation, HeldInv, Holds, NoDoc, Idle
<1>2. AuthInv /\ ConnectedHasCorporation /\ HeldInv /\ [Next]_vars /\ [~Crossing]_vars
        => ConnectedHasCorporation' /\ HeldInv'
  <2>1. ASSUME UNCHANGED vars PROVE ~Crossing
    BY <2>1 DEF Crossing, Complete, vars
  <2> QED
    BY <2>1, ConnectedStep
<1> QED
  BY <1>1, <1>2, AuthInvHolds, PTL DEF Spec

=============================================================================
