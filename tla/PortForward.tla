------------------------------ MODULE PortForward ------------------------------
(***************************************************************************)
(* Port forwarding (apps/core0/helper/socat): the rules of the `pre' chain *)
(* of nft's `nat' table, the namespaces that own them, the reservation of  *)
(* free ports, and the set of host addresses the rules apply to, which a   *)
(* hook on `ip monitor' keeps (apps/core0/bootstrap/socat.go).             *)
(*                                                                         *)
(* nft is external: it applies a file as a whole, deletes one rule, or     *)
(* fails. Every operation holds socatManager.rm from its first look at the *)
(* ruleset to its last change, so it is one action.                        *)
(***************************************************************************)
EXTENDS Naturals, FiniteSets, FiniteSetsExt

CONSTANTS
  NS,         \* namespaces [sys, id], one per container or machine
  Source,     \* the sources clients write: [from, port, protocols]
  Dest,       \* addresses inside of containers and machines
  Address,    \* addresses the host may have
  FirstPort,  \* where Reserve begins (1024)
  LastPort,   \* the largest 16 bit port (65535)
  MaxReserve  \* bound: the most ports one call asks for

Protocol == {"tcp", "udp"}
Port     == 0..LastPort

ASSUME PortAssumption ==
  /\ LastPort \in Nat /\ FirstPort \in 1..LastPort /\ MaxReserve \in Nat
  /\ \A s \in Source : /\ s = [from |-> s.from, port |-> s.port, protocols |-> s.protocols]
                       /\ s.port \in Nat /\ s.protocols # {}

VARIABLES
  rules,      \* the rules of the chain: [ns, from, port, protocol, dest]
  reserved,   \* the ports in socatManager.reserved
  listening,  \* TCP ports on which local services listen, as info.port tells
  hostSet,    \* the elements of the set `host' of the table
  current,    \* the addresses the hook saw last
  addrs,      \* the addresses of the host's links
  forwards,   \* history: what was set and not removed: [ns, source, dest]
  broken,     \* history: ports of which a removal failed half way
  claims,     \* history: how many callers hold a reservation of a port
  stuck       \* history: addresses nft failed to delete from the set

forwardVars ==
  <<rules, reserved, listening, hostSet, current, addrs, forwards, broken, claims, stuck>>

ForwardInit ==
  /\ rules = {} /\ reserved = {} /\ listening = {} /\ hostSet = {} /\ current = {}
  /\ addrs = {} /\ forwards = {} /\ broken = {} /\ stuck = {}
  /\ claims = [p \in Port |-> 0]

-----------------------------------------------------------------------------
(* Mutants: bugs this code could have, each caught by a property below.    *)

\* RemoveAll and List forget the filter on the mark.
OfNamespaceAll(ns) == rules

\* Reserve starts over from 0 with every port it looks for.
NextFreeFromZero(taken) == Min(Port \ taken)

-----------------------------------------------------------------------------
(* Sources and rules.                                                      *)

\* getSource: valid protocols and a port from 1 to 65535.
ValidHost(s) == s.protocols \subseteq Protocol /\ s.port \in 1..LastPort

\* How nft writes a network back: with the bits of the host cleared.
Canonical(from) == IF from = "10.1.2.3/16" THEN "10.1.0.0/16" ELSE from

\* rule.Rules: one rule for each protocol.
Rules(ns, s, dest) ==
  {[ns |-> ns, from |-> Canonical(s.from), port |-> s.port, protocol |-> p, dest |-> dest] :
     p \in s.protocols}

\* nft.Find, with the filters on the port and on the mark.
Taken(s) == \E r \in rules : r.port = s.port
OfNamespace(ns) == {r \in rules : r.ns = ns}

\* rulesFromMatches: rules are grouped by their port, whatever their namespace.
RulesFromMatches(rs) ==
  {LET of == {r \in rs : r.port = p}
       one == CHOOSE r \in of : TRUE
   IN  [ns |-> one.ns, dest |-> one.dest,
        source |-> [from |-> one.from, port |-> p, protocols |-> {r.protocol : r \in of}]] :
     p \in {r.port : r \in rs}}

List(ns) == {[source |-> f.source, dest |-> f.dest] : f \in RulesFromMatches(OfNamespace(ns))}
ListAll(sys) == {f \in RulesFromMatches(rules) : f.ns.sys = sys}

\* Resolve and ResolveURL: where a connection to a local address ends. The code
\* takes the first of the rules it finds.
Resolve(port) == {r.dest : r \in {q \in rules : q.port = port}}

-----------------------------------------------------------------------------
(* The operations of socat.API.                                            *)

\* SetPortForward: refused if the source is invalid or the port is taken by
\* any namespace, and then nothing changes.
CanSet(s) == ValidHost(s) /\ ~Taken(s)

SetPortForward(ns, s, dest) ==
  /\ CanSet(s)
  /\ rules' = rules \cup Rules(ns, s, dest)
  /\ reserved' = reserved \ {s.port}
  /\ forwards' = forwards \cup {[ns |-> ns, source |-> s, dest |-> dest]}
  /\ claims' = [claims EXCEPT ![s.port] = 0]
  /\ UNCHANGED <<listening, hostSet, current, addrs, broken, stuck>>

\* The loop over nft.Drop: it ends at the first failure, with some rules dropped.
DropRules(rs) ==
  \E dropped \in SUBSET rs :
     /\ rules' = rules \ dropped
     /\ broken' = broken \cup {r.port : r \in rs \ dropped}
     /\ forwards' = {f \in forwards :
                       \A r \in rs : ~(r.ns = f.ns /\ r.port = f.source.port)}
     /\ UNCHANGED <<reserved, listening, hostSet, current, addrs, claims, stuck>>

\* RemovePortForward drops every rule of the namespace with that port, whatever
\* its protocol and destination.
RemovePortForward(ns, s) ==
  ValidHost(s) /\ DropRules({r \in OfNamespace(ns) : r.port = s.port})

\* RemoveAll, at the end of a container or a machine.
RemoveAll(ns) == DropRules(OfNamespace(ns))

-----------------------------------------------------------------------------
(* Reserve: the loop over a 16 bit port that wraps around.                 *)

Unavailable == listening \cup {r.port : r \in rules} \cup reserved

\* The port at which the inner loop stops. It begins at FirstPort and, because
\* the counter has 16 bits, goes on from 0 after LastPort.
NextFree(taken) ==
  LET free == Port \ taken
      up   == {q \in free : q >= FirstPort}
  IN  IF up # {} THEN Min(up) ELSE Min(free)

\* The ports reserved by a call for n; LastPort, free or not, ends the call with
\* an error, and what it reserved before stays reserved.
Picked(n) ==
  LET got[i \in 0..n] ==
        IF i = 0 THEN {}
        ELSE LET p == NextFree(Unavailable \cup got[i - 1])
             IN  IF p = LastPort THEN got[i - 1] ELSE got[i - 1] \cup {p}
  IN  got[n]

\* With too few ports left the loop of the code would not end.
Reserve(n) ==
  /\ Cardinality(Port \ Unavailable) >= n
  /\ reserved' = reserved \cup Picked(n)
  /\ claims' = [p \in Port |-> IF p \in Picked(n) THEN claims[p] + 1 ELSE claims[p]]
  /\ UNCHANGED <<rules, listening, hostSet, current, addrs, forwards, broken, stuck>>

\* The cache drops a reservation after two minutes.
ExpireReservation(p) ==
  /\ p \in reserved
  /\ reserved' = reserved \ {p}
  /\ claims' = [claims EXCEPT ![p] = 0]
  /\ UNCHANGED <<rules, listening, hostSet, current, addrs, forwards, broken, stuck>>

\* A service of the node starts to listen.
Listen(p) ==
  /\ listening' = listening \cup {p}
  /\ UNCHANGED <<rules, reserved, hostSet, current, addrs, forwards, broken, claims, stuck>>

-----------------------------------------------------------------------------
(* MonitorIPChangesUpdateSocat.                                            *)

\* The kernel adds or removes an address of a link.
AddressChanges(a) ==
  /\ addrs' = IF a \in addrs THEN addrs \ {a} ELSE addrs \cup {a}
  /\ UNCHANGED <<rules, reserved, listening, hostSet, current, forwards, broken, claims, stuck>>

\* What the hook saw the last time and getCurrentIPs does not return any more.
Gone == current \ addrs

\* A message of `ip monitor': the deletions fail one by one, the addition of all
\* addresses as a whole.
Notify ==
  \E undeleted \in SUBSET Gone, added \in BOOLEAN :
     /\ hostSet' = (hostSet \ (Gone \ undeleted)) \cup (IF added THEN addrs ELSE {})
     /\ current' = addrs
     /\ stuck' = (stuck \cup undeleted) \ (IF added THEN addrs ELSE {})
     /\ UNCHANGED <<rules, reserved, listening, addrs, forwards, broken, claims>>

MonitorNext == Notify \/ \E a \in Address : AddressChanges(a)

ForwardNext ==
  \/ \E ns \in NS, s \in Source, d \in Dest : SetPortForward(ns, s, d)
  \/ \E ns \in NS, s \in Source : RemovePortForward(ns, s)
  \/ \E ns \in NS : RemoveAll(ns)
  \/ \E n \in 1..MaxReserve : Reserve(n)
  \/ \E p \in Port : ExpireReservation(p) \/ Listen(p)

\* Forwards, reservations and the monitor of addresses together.
ForwardStep == ForwardNext \/ MonitorNext
ForwardSpec == ForwardInit /\ [][ForwardStep]_forwardVars

-----------------------------------------------------------------------------
(* Properties.                                                             *)

\* A port is forwarded to one place: all its rules belong to one namespace, and
\* Resolve, which takes the first rule it finds whatever its protocol, cannot
\* send a connection elsewhere.
PortHasOneOwner ==
  \A r \in rules : /\ Resolve(r.port) = {r.dest}
                   /\ \A q \in rules : q.port = r.port => q.ns = r.ns

\* What List tells of a namespace, read back from the text of the rules, is what
\* was set in it and not removed: no forward of another namespace, none lost by
\* the removals of others; only where nft failed in a removal is a part left.
\* ListAll, which groups the rules of all namespaces by port, agrees with List.
ListIsWhatWasSet ==
  \A ns \in NS :
    /\ {f \in List(ns) : f.source.port \notin broken} =
         {[source |-> [f.source EXCEPT !.from = Canonical(f.source.from)], dest |-> f.dest] :
            f \in {g \in forwards : g.ns = ns /\ g.source.port \notin broken}}
    /\ List(ns) = {[source |-> f.source, dest |-> f.dest] :
                     f \in {g \in ListAll(ns.sys) : g.ns = ns}}

\* A port is reserved for one caller at a time, until it is forwarded or the
\* reservation expires.
ReservedOnce == \A p \in Port : claims[p] <= 1

\* Ports below FirstPort, port 0 among them, are handed out only when the counter
\* of Reserve wrapped around, which takes that every port above is in use.
LowPortOnlyWhenFull ==
  \A p \in reserved' \ reserved :
    p < FirstPort => (FirstPort..LastPort) \subseteq Unavailable'

\* The set `host' holds no address the host has lost, as far as the hook was told,
\* but those nft refused to delete: the hook forgets about them.
HostSetIsCurrent == hostSet \subseteq current \cup stuck

\* The tables of forwards, the reservations and nft agree.
ForwardsAreConsistent == PortHasOneOwner /\ ListIsWhatWasSet /\ ReservedOnce /\ HostSetIsCurrent
=============================================================================
