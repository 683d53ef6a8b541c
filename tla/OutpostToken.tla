----------------------------- MODULE OutpostToken -----------------------------
(***************************************************************************)
(* The outpost's API token: minted by Authentik with the outpost, kept by  *)
(* the leader in a secret of the application, and put by every unit into   *)
(* its workload's environment.  Provisioning has the other resources.      *)
(***************************************************************************)
EXTENDS ServerInfo

VARIABLES
  outposts,   \* per server: the token of this application's outpost, 0 if there is none
  minted,     \* the number of tokens so far
  peers,      \* peer data and secret: the outpost recorded, by its token, and the newest token
  planned     \* per unit: the server, token and traces endpoint in Pebble's plan

NotPlanned == [host |-> 0, token |-> 0, traces |-> 0]

\* A token more is minted only for a change that costs an outpost or a server.
Tokens == 0..MaxNumber + 1

TokenTypes ==
  /\ outposts \in [Servers -> Tokens] /\ minted \in Tokens
  /\ peers \in [outpost : Tokens, token : Tokens]
  /\ planned \in [Units -> [host : Servers, token : Tokens, traces : Servers]]

\* Mutant of Verified: what is recorded is believed.
Believed == peers.outpost # 0

\* check_outpost_exists finds the outpost that is recorded.
Verified == peers.outpost # 0 /\ peers.token # 0 /\ outposts[server.host] = peers.outpost

\* Only the leader looks after the resources.
Provisions(u) == leader = u /\ Ready /\ ~Verified

\* get_or_create_outpost adopts one by its name.
TokenOfOutpost == IF outposts[server.host] # 0 THEN outposts[server.host] ELSE minted + 1

\* Mutant of TokenInHook: the secret is read back in the hook that writes it.
ReadsBack(u) == peers.token

\* Mutant of TokenInHook: a unit keeps to the revision of the secret that it has read first.
ReadsTracked(u) ==
  IF Provisions(u) THEN TokenOfOutpost
  ELSE IF planned[u].token # 0 THEN planned[u].token ELSE peers.token

\* _get_outpost_token: the one minted in this hook, or the newest revision of the secret.
TokenInHook(u) == IF Provisions(u) THEN TokenOfOutpost ELSE peers.token

\* _ensure_authentik_resources as far as Authentik's database is concerned.
MintToken(u) ==
  IF Provisions(u)
    THEN /\ outposts' = [outposts EXCEPT ![server.host] = TokenOfOutpost]
         /\ minted' = IF TokenOfOutpost > minted THEN TokenOfOutpost ELSE minted
    ELSE UNCHANGED <<outposts, minted>>

\* Mutant of StoreToken: the outpost is not recorded with its token.
StoresTokenOnly(u) ==
  peers' = IF Provisions(u) THEN [peers EXCEPT !.token = TokenOfOutpost] ELSE peers

\* _store_outpost_token and the record of the outpost.
StoreToken(u) ==
  peers' = IF Provisions(u) THEN [outpost |-> TokenOfOutpost, token |-> TokenOfOutpost] ELSE peers

\* The server's database loses the outpost.
OutpostLost ==
  /\ Ready /\ outposts[server.host] # 0
  /\ outposts' = [outposts EXCEPT ![server.host] = 0]
  /\ ChangesUnnoticed("token")
  /\ UNCHANGED <<server, tracked, minted, peers, planned>>

=============================================================================
