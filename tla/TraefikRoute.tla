---------------------------- MODULE TraefikRoute ----------------------------
(***************************************************************************)
(* traefik-route and what is advertised of it: the leader submits a route, *)
(* Traefik applies it and publishes its host and scheme, and the leader    *)
(* publishes to consumers the URLs at which they reach the outpost.        *)
(***************************************************************************)
EXTENDS JujuUnits

CONSTANTS
  Options,     \* values of expose_ldap_ingress and ingress_domain, the latter None when it is empty
  Addresses    \* what Traefik may publish: an external host and a scheme

VARIABLES
  options,     \* expose_ldap_ingress and ingress_domain
  traefik,     \* the relation, what Traefik has published on it, and the route it serves
  route,       \* what the leader has submitted on it
  applying,    \* Traefik has still to see a change of it
  stored,      \* per unit: host and scheme as the library remembers them
  urls         \* what consumers are told

routeVars == <<options, traefik, route, applying, stored, urls>>

NoAddress == [host |-> None, scheme |-> "none"]
Hosts == {a.host : a \in Addresses}
Domains == {o.domain : o \in Options}
NoRoute == [expose |-> FALSE, domain |-> "none", submitted |-> FALSE]
RouteOf(o) == [expose |-> o.expose, domain |-> o.domain, submitted |-> TRUE]
Routes == {NoRoute} \union {RouteOf(o) : o \in Options}
Remembering == [host : Hosts \union {None}, scheme : {"none", "http", "https"}]

NoUrls == [ldap |-> "none", ldaps |-> "none"]

\* By default there is no ingress; Traefik's scheme is of HTTP, and its host is a name, never one
\* of the two words that stand for its absence.
ASSUME RouteAssumption ==
  /\ [expose |-> FALSE, domain |-> None] \in Options
  /\ \A a \in Addresses : a.scheme \in {"http", "https"} /\ a.host \notin {None, "cluster"}

RouteTypes ==
  /\ options \in Options
  /\ traefik \in [related : BOOLEAN, address : Addresses \union {NoAddress}, serves : Routes]
  /\ route \in Routes /\ applying \in BOOLEAN
  /\ stored \in [Units -> Remembering]
  /\ urls \in [ldap : Hosts \union {"none", "cluster"}, ldaps : Hosts \union Domains \union {None}]

Or(new, old) == IF new = None THEN old ELSE new

\* Mutant of Kept: the handler of broken clears nothing.
KeepsHost(u, event) == stored[u]

\* The library's handler of broken clears the host only.
Kept(u, event) == IF event = "traefik-broken" THEN [stored[u] EXCEPT !.host = None] ELSE stored[u]

\* _update_stored: what Traefik does not say, or says no longer, is remembered.
Remembered(u, event) ==
  LET kept == Kept(u, event) IN
    IF traefik.related
      THEN [host |-> Or(traefik.address.host, kept.host),
            scheme |-> Or(traefik.address.scheme, kept.scheme)]
      ELSE kept

\* The library's own handlers; then the properties, which every unit reads for its consumers.
Remember(u, event, reads) ==
  stored' = [stored EXCEPT ![u] =
    IF event = "traefik" \/ reads THEN Remembered(u, event) ELSE Kept(u, event)]

\* submit_to_traefik and the guards before it.
Submits(u) == leader = u /\ traefik.related

\* _ensure_traefik_route; route-changed is for Traefik only if the data have changed.
Submit(u) ==
  IF Submits(u)
    THEN /\ route' = RouteOf(options)
         /\ applying' = (applying \/ route' # route)
    ELSE UNCHANGED <<route, applying>>

\* ldaps_enabled and is_ready.
LdapsEnabled(address) == address.host # None /\ address.scheme = "https"

\* update_relation_data.
UrlsFor(address) ==
  [ldap |-> IF options.expose /\ address.host # None THEN address.host ELSE "cluster",
   ldaps |-> IF LdapsEnabled(address) THEN Or(options.domain, address.host) ELSE None]

Publish(u, event) ==
  urls' = IF leader = u
            THEN UrlsFor(IF traefik.related THEN Remembered(u, event) ELSE NoAddress) ELSE urls

-----------------------------------------------------------------------------
(* Traefik and the operator *)

TraefikRelates ==
  /\ ~traefik.related
  /\ traefik' = [traefik EXCEPT !.related = TRUE]
  /\ ChangesNoticed("traefik", "traefik")
  /\ UNCHANGED <<options, route, applying, stored, urls>>

\* update_traefik_address: host and scheme are written together.
TraefikPublishes ==
  /\ traefik.related
  /\ \E a \in Addresses \ {traefik.address} : traefik' = [traefik EXCEPT !.address = a]
  /\ ChangesNoticed("traefik", "traefik")
  /\ UNCHANGED <<options, route, applying, stored, urls>>

\* The relation ends, and what either side had written on it is gone.
TraefikLeaves ==
  /\ traefik.related
  /\ traefik' = [related |-> FALSE, address |-> NoAddress, serves |-> NoRoute]
  /\ route' = NoRoute /\ applying' = FALSE
  /\ ChangesNoticed("traefik", "traefik-broken")
  /\ UNCHANGED <<options, stored, urls>>

OptionsChange ==
  /\ \E o \in Options \ {options} : options' = o
  /\ ChangesNoticed("traefik", "config-changed")
  /\ UNCHANGED <<traefik, route, applying, stored, urls>>

RouteChanges == TraefikRelates \/ TraefikPublishes \/ TraefikLeaves \/ OptionsChange

\* TraefikRouteProvider: the ready event, on which Traefik reads the configuration.
TraefikApplies ==
  /\ applying
  /\ applying' = FALSE
  /\ traefik' = [traefik EXCEPT !.serves = route]
  /\ UNCHANGED <<jujuVars, options, route, stored, urls>>

=============================================================================
