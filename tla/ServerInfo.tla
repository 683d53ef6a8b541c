----------------------------- MODULE ServerInfo -----------------------------
(***************************************************************************)
(* authentik-server-info: the server publishes its host and the id of a    *)
(* secret with an API token.  Every relation is taken to be with another   *)
(* server, numbered in order.                                              *)
(***************************************************************************)
EXTENDS JujuUnits

VARIABLES
  server,     \* the relation: its state, which server it is, the newest revision of its secret
  tracked     \* per unit: the server whose secret it has read last, and the revision

Servers == 0..MaxNumber + 1

ServerTypes ==
  /\ server \in [state : {"absent", "related", "ready"}, host : Servers, revision : Servers]
  /\ tracked \in [Units -> [host : Servers, revision : Servers]]

Ready == server.state = "ready"

\* Mutant of TokenRead: the token is read once.
ReadsOnce(u) ==
  IF tracked[u].host # 0 THEN tracked[u] ELSE [host |-> server.host, revision |-> server.revision]

\* get_content: a unit keeps to the revision of a secret that it has read first.
TokenRead(u) ==
  IF tracked[u].host = server.host THEN tracked[u]
  ELSE [host |-> server.host, revision |-> server.revision]

\* Authentik accepts the token only while it is the current one of that server.
CallsAccepted(u) == TokenRead(u) = [host |-> server.host, revision |-> server.revision]

\* A hook that asks for the server's info.
ReadInfo(u) == tracked' = IF Ready THEN [tracked EXCEPT ![u] = TokenRead(u)] ELSE tracked

\* The server's side: it is related, publishes, writes another revision, goes.  The first is of
\* no consequence to the requirer; the third leaves the databag as it is, and no handler
\* observes the secret.
ServerRelates ==
  /\ server.state = "absent"
  /\ server' = [server EXCEPT !.state = "related"]
  /\ ChangesUnnoticed("server")

ServerPublishes ==
  /\ server.state = "related"
  /\ server' = [state |-> "ready", host |-> server.host + 1, revision |-> 1]
  /\ ChangesNoticed("server", "server")

ServerRotates ==
  /\ Ready
  /\ server' = [server EXCEPT !.revision = @ + 1]
  /\ ChangesUnnoticed("server")

ServerLeaves ==
  /\ server.state # "absent"
  /\ server' = [server EXCEPT !.state = "absent"]
  /\ ChangesNoticed("server", "server")

ServerChanges ==
  /\ ServerRelates \/ ServerPublishes \/ ServerRotates \/ ServerLeaves
  /\ UNCHANGED tracked

=============================================================================
