-------------------------- MODULE MCCharacterAuth --------------------------
\* Instances of CharacterAuth for TLC.
EXTENDS CharacterAuth, TLC

CONSTANT Known  \* the character that has logged in and connected already

\* The requests are interchangeable.
Interchangeable == Permutations(Requests)

(***************************************************************************)
(* The state after a login and a corp connection of Known with no other    *)
(* request in between: two tokens and three PKCE pairs are used, and one   *)
(* pair is still to come.  Either the player has begun another login since *)
(* and its page is open (a further login, or a connection, may be pending  *)
(* beside it, and both complete), and no failure is to come; or the first  *)
(* login was begun twice and one page closed, and one failure is to come.  *)
(***************************************************************************)
ConnectedInit ==
  /\ req = [q \in Requests |-> Idle]
  /\ db = [c \in Chars |->
             IF c = Known THEN [base |-> 1, corp |-> 2, corpScopes |-> TRUE, corpId |-> TRUE]
             ELSE NoDoc]
  /\ tokens = <<Fresh(Known, "base"), Fresh(Known, "corp")>>
  /\ nonces = MaxNonces - 1
  /\ \/ /\ errors = MaxErrors
        /\ cookie = [b \in Browsers |-> [EmptySession EXCEPT !.char = Known, !.login = nonces]]
        /\ pages = [b \in Browsers |-> {[nonce |-> nonces, flow |-> "base"]}]
     \/ /\ errors = 0
        /\ cookie = [b \in Browsers |-> [EmptySession EXCEPT !.char = Known]]
        /\ pages = [b \in Browsers |-> {}]

ConnectedSpec == ConnectedInit /\ [][Next]_vars

=============================================================================
