------------------------------ MODULE Host_proofs ------------------------------
(***************************************************************************)
(* Proofs about what core0 keeps on the host: the firewall rules of ports  *)
(* and bridges (Nft.tla, Bridge.tla), port forwards (PortForward.tla),     *)
(* virtual machines (Kvm.tla) and cgroups (Cgroups.tla).  Each part states *)
(* its inductive invariant, shows action by action that it is kept, and    *)
(* ends with its theorem.                                                  *)
(***************************************************************************)
EXTENDS Kvm, Bridge, Cgroups, FiniteSetTheorems, WellFoundedInduction, TLAPS

\* Min of FiniteSetsExt, by the well-foundedness of <.
LEMMA MinIsMember ==
  ASSUME NEW S \in SUBSET Nat, S # {} PROVE Min(S) \in S /\ \A k \in S : Min(S) <= k
<1> DEFINE R == {ss \in Nat \X Nat : ss[1] < ss[2]}
<1>1. IsWellFoundedOn(R, Nat)
  BY NatLessThanWellFounded, Zenon DEF OpToRel
<1>2. \A x, y \in Nat : <<y, x>> \in R <=> y < x
  OBVIOUS
<1> HIDE DEF R
<1>3. \E x \in S : \A y \in S : ~ (<<y, x>> \in R)
  BY <1>1, WFMin
<1>4. PICK x \in S : \A y \in S : ~ (<<y, x>> \in R)
  BY <1>3
<1>5. \A y \in S : x =< y
  <2> TAKE y \in S
  <2>1. x \in Nat /\ y \in Nat /\ ~ (y < x)
    BY <1>2, <1>4
  <2> QED
    BY <2>1
<1> QED
  BY <1>5 DEF Min

-----------------------------------------------------------------------------
(* Masks of addresses.                                                     *)

\* Division with remainder.
LEMMA Division == ASSUME NEW p \in Nat \ {0}, NEW a \in Int
  PROVE a = p * (a \div p) + (a % p) /\ a \div p \in Int /\ a % p \in 0..(p-1)
BY SMT

\* A multiple of p is what remains of a number without its remainder.
LEMMA FloorUnique == ASSUME NEW p \in Nat \ {0}, NEW a \in Int, NEW j \in Int, NEW r \in 0..(p-1), a = p * j + r
  PROVE a - (a % p) = p * j
<1>1. /\ a = p * (a \div p) + (a % p)
      /\ a \div p \in Int
      /\ a % p \in 0..(p-1)
  BY Division
<1> DEFINE d == (a \div p) - j
<1>2. d \in Int /\ p * d = r - (a % p)
  BY <1>1
<1>3. d < 1
  <2>1. SUFFICES ASSUME d >= 1 PROVE FALSE
    BY <1>2
  <2>2. p * d >= p
    BY <2>1, <1>2
  <2> QED
    BY <2>2, <1>1, <1>2
<1>4. d > -1
  <2>1. SUFFICES ASSUME d =< -1 PROVE FALSE
    BY <1>2
  <2>2. p * d =< -p
    BY <2>1, <1>2
  <2> QED
    BY <2>2, <1>1, <1>2
<1>5. d = 0
  BY <1>2, <1>3, <1>4
<1>6. a \div p = j
  BY <1>1, <1>5
<1> QED
  BY <1>1, <1>6

\* Numbers that agree down to a multiple of p agree down to a multiple of p * k.
LEMMA Coarser ==
  ASSUME NEW p \in Nat \ {0}, NEW k \in Nat \ {0}, NEW a \in Nat, NEW x \in Nat,
         a - (a % p) = x - (x % p)
  PROVE  a - (a % (p * k)) = x - (x % (p * k))
<1> DEFINE q == p * k
           i == a \div p
           j == i \div k
           t == i % k
           ra == p * t + (a % p)
           rx == p * t + (x % p)
<1>1. q \in Nat \ {0}
  BY SMT
<1>2. i \in Int /\ a = p * i + (a % p) /\ a % p \in 0..(p-1)
  BY Division
<1>3. x % p \in 0..(p-1)
  BY Division
<1>4. x = p * i + (x % p)
  BY <1>2, <1>3
<1>5. j \in Int /\ i = k * j + t /\ t \in 0..(k-1)
  BY <1>2, Division
<1>6. p * i = q * j + p * t
  <2> HIDE DEF i, j, t
  <2>1. p * i = p * (k * j + t)
    BY <1>5
  <2>2. p * (k * j + t) = p * (k * j) + p * t
    BY <1>5
  <2>3. p * (k * j) = (p * k) * j
    BY <1>5
  <2> QED
    BY <2>1, <2>2, <2>3
<1>7. p * t \in 0..(q - p)
  <2> HIDE DEF i, j, t
  <2>1. t >= 0 /\ k - 1 - t >= 0 /\ t \in Int
    BY <1>5
  <2>2. p * (k - 1 - t) >= 0
    BY <2>1
  <2>3. p * (k - 1 - t) = p * k - p - p * t
    BY <2>1
  <2>4. p * t >= 0 /\ p * t \in Int
    BY <2>1
  <2> QED
    BY <2>2, <2>3, <2>4
<1> HIDE DEF i, j, t, q
<1>8. ra \in 0..(q - 1) /\ rx \in 0..(q - 1)
  BY <1>7, <1>2, <1>3, <1>1
<1>9. a \in Int /\ x \in Int /\ a = q * j + ra /\ x = q * j + rx
  BY <1>2, <1>3, <1>4, <1>5, <1>6, <1>7, <1>1
<1> HIDE DEF ra, rx
<1>10. a - (a % q) = q * j
  BY <1>1, <1>5, <1>8, <1>9, FloorUnique, Zenon
<1>11. x - (x % q) = q * j
  BY <1>1, <1>5, <1>8, <1>9, FloorUnique, Zenon
<1> QED
  BY <1>10, <1>11 DEF q

\* Cutting the remainder off twice changes nothing.
LEMMA FloorFloor == ASSUME NEW p \in Nat \ {0}, NEW a \in Nat
  PROVE (a - (a % p)) - ((a - (a % p)) % p) = a - (a % p)
<1>1. a - (a % p) = p * (a \div p) + 0 /\ a \div p \in Int /\ a - (a % p) \in Int
  BY Division
<1>2. 0 \in 0..(p-1)
  BY SMT
<1> QED
  BY <1>1, <1>2, FloorUnique

\* Addresses in one network are in one network of every shorter prefix.
LEMMA MaskCoarser ==
  ASSUME NEW a \in Nat, NEW x \in Nat, NEW fine \in 0..AddrBits, NEW coarse \in 0..AddrBits,
         coarse =< fine, Mask(a, fine) = Mask(x, fine)
  PROVE  Mask(a, coarse) = Mask(x, coarse)
<1> DEFINE b == AddrBits - fine
           c == fine - coarse
<1>1. b \in 0..AddrBits /\ c \in 0..AddrBits /\ AddrBits - coarse = b + c
  BY BridgeAssumption
<1>2. 2^b \in Nat \ {0} /\ 2^c \in Nat \ {0} /\ 2^(b + c) = 2^b * 2^c
  BY <1>1, PowerAssumption
<1>3. a - (a % 2^b) = x - (x % 2^b)
  BY DEF Mask
<1>4. a - (a % (2^b * 2^c)) = x - (x % (2^b * 2^c))
  BY <1>2, <1>3, Coarser
<1> QED
  BY <1>1, <1>2, <1>4 DEF Mask

\* An address that is masked already stays as it is.
LEMMA MaskMask ==
  ASSUME NEW a \in Nat, NEW len \in 0..AddrBits
  PROVE  Mask(Mask(a, len), len) = Mask(a, len)
<1>1. 2^(AddrBits - len) \in Nat \ {0}
  BY BridgeAssumption, PowerAssumption
<1> QED
  BY <1>1, FloorFloor DEF Mask

\* The parts of a network.
LEMMA NetType == ASSUME NEW n \in Net
  PROVE n.ip \in Nat /\ n.len \in 0..AddrBits
<1>1. 2^AddrBits \in Nat
  BY BridgeAssumption, PowerAssumption
<1>2. n \in [ip : 0..(2^AddrBits - 1), len : 0..AddrBits]
  BY BridgeAssumption
<1> QED
  BY <1>1, <1>2

\* What conflict relies on, for every width of addresses: networks that share an address
\* intersect, because the shorter prefix of the two contains the other network.
THEOREM IntersectComplete == IntersectIsComplete(Net)
<1>1. SUFFICES ASSUME NEW n \in Net, NEW m \in Net, NEW a \in HostsOf(n) \cap HostsOf(m)
               PROVE Intersect(n, m)
  BY DEF IntersectIsComplete
<1>2. /\ n.ip \in Nat /\ n.len \in 0..AddrBits
      /\ m.ip \in Nat /\ m.len \in 0..AddrBits
  BY NetType
<1>3. 2^AddrBits \in Nat
  BY BridgeAssumption, PowerAssumption
<1>4. a \in Nat /\ Mask(a, n.len) = Mask(n.ip, n.len) /\ Mask(a, m.len) = Mask(m.ip, m.len)
  BY <1>3 DEF HostsOf, NetContains
<1>5. CASE m.len =< n.len
  <2>1. Mask(a, m.len) = Mask(n.ip, m.len)
    BY <1>2, <1>4, <1>5, MaskCoarser
  <2>2. Mask(Mask(n.ip, m.len), m.len) = Mask(n.ip, m.len)
    BY <1>2, MaskMask
  <2> QED
    BY <1>4, <2>1, <2>2 DEF Intersect, NetContains
<1>6. CASE n.len =< m.len
  <2>1. Mask(a, n.len) = Mask(m.ip, n.len)
    BY <1>2, <1>4, <1>6, MaskCoarser
  <2>2. Mask(Mask(m.ip, n.len), n.len) = Mask(m.ip, n.len)
    BY <1>2, MaskMask
  <2> QED
    BY <1>4, <2>1, <2>2 DEF Intersect, NetContains
<1> QED
  BY <1>2, <1>5, <1>6

-----------------------------------------------------------------------------
(* Firewall: ports and bridges.                                            *)

\* The commands on ports and the commands on bridges share the ruleset.
FirewallVars == <<nftVars, bridgeVars>>
FirewallNext ==
  \/ PortNext /\ UNCHANGED bridgeVars
  \/ BridgeNext /\ UNCHANGED <<portCmd, closed>>
FirewallSpec == NftInit /\ BridgeInit /\ [][FirewallNext]_FirewallVars

\* The commands on ports.
PortCommand ==
  {Idle} \cup [op : {"open"}, port : OpenPort]
    \cup [op : {"drop"}, port : OpenPort, todo : SUBSET Nat, alone : BOOLEAN]

\* The commands on bridges.
BridgeCommand ==
  {Idle}
    \cup [op : {"create"}, at : {"nft", "conflict", "addr", "dnsmasq", "nat"}, name : BridgeName,
          index : 1 .. MaxIndex, net : Net \cup {None}]
    \cup [op : {"delete"}, at : {"nat", "link", "rules"}, index : 1 .. MaxIndex]

\* The rules there are: those of boot, of ports, of bridges and of NAT.
Dport(p) == <<"match", "tcp dport", p>>
Iif(i)   == <<"meta", "iif", i>>
Saddr(p) == <<"match", "ip saddr", p>>

BootRule(r) == r.handle = 0 /\ r.by = <<"boot", 0>> /\ \E e \in BaseExpr : r.expr = {e}
PortRule(r) ==
  /\ r.handle # 0 /\ r.chain = "filter/input"
  /\ \E p \in OpenPort : r.by = <<"port", p>> /\ r.expr = PortExpr(p)
LinkRule(r) ==
  /\ r.handle # 0 /\ r.chain = "filter/input"
  /\ \E i \in 1 .. MaxIndex : r.by = <<"bridge", i>> /\ r.expr = {Iif(i), <<"verdict", "accept">>}
NatRule(r) ==
  /\ r.handle # 0 /\ r.chain = "nat/post"
  /\ \E i \in 1 .. MaxIndex, n \in Net :
       r.by = <<"nat", i>> /\ r.expr = {Saddr(Prefix(n)), <<"verdict", "masquerade">>}

\* Every rule is one of the four kinds and has a handle the kernel assigned ...
RulesAreKnown ==
  \A r \in ruleset :
    /\ r.handle \in 0 .. lastHandle
    /\ BootRule(r) \/ PortRule(r) \/ LinkRule(r) \/ NatRule(r)

\* ... which is its own.
HandlesAreOwn == \A r, q \in ruleset : r.handle = q.handle /\ r.handle # 0 => r = q

\* The invariant of the ruleset.
RulesIInv == lastHandle \in Nat /\ RulesAreKnown /\ HandlesAreOwn /\ BootRulesStay

\* A drop deletes rules of its port only, by handles that it saw ...
DropsOwn ==
  \A c \in Client : portCmd[c].op = "drop" =>
    \A h \in portCmd[c].todo :
      /\ h \in 1 .. lastHandle
      /\ \A r \in ruleset : r.handle = h => r.by = <<"port", portCmd[c].port>>

\* ... and, undisturbed, all of them.
DropsAll ==
  \A c \in Client : portCmd[c].op = "drop" /\ portCmd[c].alone =>
    \A r \in ruleset : r.by = <<"port", portCmd[c].port>> => r.handle \in portCmd[c].todo

\* The invariant of the commands on ports.
PortIInv ==
  /\ portCmd \in [Client -> PortCommand] /\ closed \subseteq OpenPort
  /\ RulesIInv /\ DropsOwn /\ DropsAll /\ DropCloses

\* The bridges that have a NAT rule.
Nats == {i \in 1 .. MaxIndex : \E r \in ruleset : r.by = <<"nat", i>>}

\* It is for the network the bridge has.
NatNetwork ==
  \A i \in 1 .. MaxIndex : \A r \in ruleset : r.by = <<"nat", i>> =>
    addr[i] \in Net /\ r.chain = "nat/post" /\ Saddr(Prefix(addr[i])) \in r.expr

\* The types of the variables of the bridges.
BridgeTypeOK ==
  /\ link \in [BridgeName -> 0 .. MaxIndex] /\ addr \in [1 .. MaxIndex -> Net \cup {None}]
  /\ dnsmasq \in [BridgeName -> {Off} \cup [state : {"running", "dying"}, index : 1 .. MaxIndex]]
  /\ bridgeLock \in Client \cup {None} /\ bridgeCmd \in [Client -> BridgeCommand]
  /\ lastIndex \in 0 .. MaxIndex /\ ready \subseteq 1 .. MaxIndex /\ abandoned \subseteq 1 .. MaxIndex

\* create holds the lock to its end.
LockIsHeld == \A c \in Client : bridgeCmd[c].op = "create" <=> bridgeLock = c

\* A link has an index of its own, one that was assigned.
LinksAreOwn ==
  /\ \A b \in BridgeName : link[b] <= lastIndex
  /\ \A a, b \in BridgeName : link[a] = link[b] /\ link[a] # 0 => a = b
  /\ \A i \in 1 .. MaxIndex : addr[i] # None => i \in Live
  /\ \A b \in BridgeName : dnsmasq[b].index <= lastIndex
  /\ \A i \in abandoned : i <= lastIndex /\ i \notin Live

\* What is known of a bridge that is being created.
CreateKnows ==
  \A c \in Client : bridgeCmd[c].op = "create" =>
    LET i == bridgeCmd[c].index IN
    /\ link[bridgeCmd[c].name] = i /\ i = lastIndex
    /\ bridgeCmd[c].at # "nft" => bridgeCmd[c].net # None
    /\ bridgeCmd[c].at = "addr" => ~Conflict(bridgeCmd[c].net)
    /\ bridgeCmd[c].at \in {"dnsmasq", "nat"} => addr[i] = bridgeCmd[c].net
    /\ bridgeCmd[c].at # "nat" => \A b \in BridgeName : dnsmasq[b].index # i
    /\ \A b \in BridgeName : dnsmasq[b].index = i => b = bridgeCmd[c].name
    /\ i \notin Nats /\ i \notin ready

\* A delete is about another bridge than the one being created, which is not
\* ready, has no dnsmasq that runs, and no NAT once that was deleted.
DeleteKnows ==
  \A c \in Client : bridgeCmd[c].op = "delete" =>
    LET i == bridgeCmd[c].index IN
    /\ i <= lastIndex /\ i \notin ready
    /\ \A d \in Client : bridgeCmd[d].op = "create" => bridgeCmd[d].index # i
    /\ \A b \in BridgeName : dnsmasq[b].index = i => dnsmasq[b].state # "running" \/ i \in abandoned
    /\ bridgeCmd[c].at # "nat" => i \notin Nats

\* NAT belongs to bridges that exist, and bridges that are ready have it.
NatIsLive == ready \subseteq Nats /\ Nats \subseteq Live

\* The invariant of the commands on bridges.
BridgeIInv ==
  /\ BridgeTypeOK /\ NatNetwork /\ LockIsHeld /\ LinksAreOwn /\ CreateKnows /\ DeleteKnows
  /\ NatIsLive /\ BridgesDisjoint /\ DnsmasqHasBridge

\* The inductive invariant of the firewall.
FirewallIInv == PortIInv /\ BridgeIInv

\* Tuples are equal when their components are.
LEMMA Pair == \A a, b, c, d : <<a, b>> = <<c, d>> <=> a = c /\ b = d
OBVIOUS

\* The same for triples.
LEMMA Triple == \A a, b, c, d, e, f : <<a, b, c>> = <<d, e, f>> <=> a = d /\ b = e /\ c = f
OBVIOUS

\* A pair is no triple.
LEMMA PairNotTriple == \A a, b, c, d, e : <<a, b>> # <<c, d, e>>
OBVIOUS

\* What the filters of the commands find.
LEMMA Found ==
  /\ \A p : MatchesOf(p) = {r \in ruleset : r.chain = "filter/input" /\ Dport(p) \in r.expr}
  /\ \A n : NatMatches(n) = {r \in ruleset : r.chain = "nat/post" /\ Saddr(Prefix(n)) \in r.expr}
  /\ \A i : InputMatches(i) = {r \in ruleset : r.chain = "filter/input" /\ Iif(i) \in r.expr}
<1>1. ASSUME NEW r, NEW c, NEW k, NEW v, NEW t \in {"match", "meta"}
      PROVE  AndMatch({<<"chain", c>>, <<t, k, v>>}, r) <=> r.chain = c /\ <<t, k, v>> \in r.expr
  <2>1. FilterMatch(<<"chain", c>>, r) <=> r.chain = c
    BY DEF FilterMatch, TableMatch, PayloadMatch, MetaMatch
  <2>2. FilterMatch(<<t, k, v>>, r) <=> <<t, k, v>> \in r.expr
    BY DEF FilterMatch, TableMatch, PayloadMatch, MetaMatch
  <2> QED
    BY <2>1, <2>2 DEF AndMatch
<1>2. \A filters : Find({filters}) = {r \in ruleset : AndMatch(filters, r)}
  BY DEF Find
<1>3. ASSUME NEW p
      PROVE  MatchesOf(p) = {r \in ruleset : r.chain = "filter/input" /\ <<"match", "tcp dport", p>> \in r.expr}
  <2> DEFINE F == {<<"chain", "filter/input">>, <<"match", "tcp dport", p>>}
  <2>1. MatchesOf(p) = {r \in ruleset : AndMatch(F, r)}
    BY <1>2, Zenon DEF MatchesOf
  <2>2. \A r : AndMatch(F, r) <=> r.chain = "filter/input" /\ <<"match", "tcp dport", p>> \in r.expr
    BY <1>1
  <2> QED
    BY <2>1, <2>2, Zenon
<1>4. ASSUME NEW n
      PROVE  NatMatches(n) = {r \in ruleset : r.chain = "nat/post" /\ <<"match", "ip saddr", Prefix(n)>> \in r.expr}
  <2> DEFINE F == {<<"chain", "nat/post">>, <<"match", "ip saddr", Prefix(n)>>}
  <2>1. NatMatches(n) = {r \in ruleset : AndMatch(F, r)}
    BY <1>2, Zenon DEF NatMatches
  <2>2. \A r : AndMatch(F, r) <=> r.chain = "nat/post" /\ <<"match", "ip saddr", Prefix(n)>> \in r.expr
    BY <1>1
  <2> QED
    BY <2>1, <2>2, Zenon
<1>5. ASSUME NEW i
      PROVE  InputMatches(i) = {r \in ruleset : r.chain = "filter/input" /\ <<"meta", "iif", i>> \in r.expr}
  <2> DEFINE F == {<<"chain", "filter/input">>, <<"meta", "iif", i>>}
  <2>1. InputMatches(i) = {r \in ruleset : AndMatch(F, r)}
    BY <1>2, Zenon DEF InputMatches
  <2>2. \A r : AndMatch(F, r) <=> r.chain = "filter/input" /\ <<"meta", "iif", i>> \in r.expr
    BY <1>1
  <2> QED
    BY <2>1, <2>2, Zenon
<1> QED
  BY <1>3, <1>4, <1>5 DEF Dport, Saddr, Iif

\* Networks with one prefix have an address in common.
LEMMA SamePrefix ==
  ASSUME NEW n \in Net, NEW m \in Net, Prefix(n) = Prefix(m)
  PROVE  HostsOf(n) \cap HostsOf(m) # {}
BY BridgeAssumption DEF Prefix, HostsOf, NetContains

\* What the commands find are the rules they are about.
LEMMA Kinds ==
  ASSUME NEW r, BootRule(r) \/ PortRule(r) \/ LinkRule(r) \/ NatRule(r)
  PROVE  /\ \A p : (r.chain = "filter/input" /\ Dport(p) \in r.expr) <=> r.by = <<"port", p>>
         /\ \A i : Iif(i) \in r.expr => r.by = <<"bridge", i>>
         /\ \A p : Saddr(p) \in r.expr => \E i \in 1 .. MaxIndex : r.by = <<"nat", i>>
         /\ \A p, q : Saddr(p) \in r.expr /\ Saddr(q) \in r.expr => p = q
         /\ r.by[1] = "nat" <=> \E i \in 1 .. MaxIndex : r.by = <<"nat", i>>
         /\ r.handle = 0 <=> r.by = <<"boot", 0>>
<1> USE DEF Dport, Iif, Saddr
<1>0. \A i : r.by = <<"nat", i>> => r.by[1] = "nat"
  OBVIOUS
<1>1. CASE BootRule(r)
  <2>1. PICK e \in BaseExpr : r.expr = {e}
    BY <1>1 DEF BootRule
  <2>2. \A p : Dport(p) # e /\ Saddr(p) # e /\ Iif(p) # e
    <3>1. \/ e = <<"match", "ct state", "established">> \/ e = <<"match", "iifname", "lo">>
          \/ e = <<"match", "iifname", "vxbackend">> \/ e = <<"match", "ip protocol", "icmp">>
      BY DEF BaseExpr
    <3>2. ASSUME NEW k, NEW v, e = <<"match", k, v>>, k \notin {"tcp dport", "ip saddr"}
          PROVE  \A p : Dport(p) # e /\ Saddr(p) # e /\ Iif(p) # e
      BY <3>2, Triple, Zenon
    <3>3. CASE e = <<"match", "ct state", "established">>
      BY <3>2, <3>3
    <3>4. CASE e = <<"match", "iifname", "lo">>
      BY <3>2, <3>4
    <3>5. CASE e = <<"match", "iifname", "vxbackend">>
      BY <3>2, <3>5
    <3>6. CASE e = <<"match", "ip protocol", "icmp">>
      BY <3>2, <3>6
    <3> QED
      BY <3>1, <3>3, <3>4, <3>5, <3>6
  <2>3. r.handle = 0 /\ r.by = <<"boot", 0>>
    BY <1>1 DEF BootRule
  <2>4. r.by[1] = "boot" /\ \A p : r.by # <<"port", p>>
    BY <2>3, <1>0
  <2> QED
    BY <1>0, <2>1, <2>2, <2>3, <2>4
<1>2. CASE PortRule(r)
  <2>1. PICK q \in OpenPort : r.by = <<"port", q>> /\ r.expr = {Dport(q), <<"verdict", "accept">>}
    BY <1>2 DEF PortRule, PortExpr
  <2>2. r.by = <<"port", q>>
    BY <2>1
  <2>3. \A p : Dport(p) \in r.expr <=> p = q
    BY <2>1, Triple, PairNotTriple, Zenon
  <2>4. \A p : Saddr(p) \notin r.expr /\ Iif(p) \notin r.expr
    BY <2>1, Triple, PairNotTriple, Zenon
  <2>5. r.handle # 0
    BY <1>2 DEF PortRule
  <2>9. r.chain = "filter/input"
    BY <1>2 DEF PortRule
  <2>6. r.by[1] = "port" /\ r.by[2] = q
    BY <2>2
  <2>7. \A p : r.by = <<"port", p>> <=> p = q
    BY <2>2
  <2>8. r.by # <<"boot", 0>> 
    BY <2>6
  <2> QED
    BY <1>0, <2>3, <2>4, <2>5, <2>6, <2>7, <2>8, <2>9
<1>3. CASE LinkRule(r)
  <2>1. PICK j \in 1 .. MaxIndex : r.by = <<"bridge", j>> /\ r.expr = {Iif(j), <<"verdict", "accept">>}
    BY <1>3 DEF LinkRule
  <2>2. r.by = <<"bridge", j>>
    BY <2>1
  <2>3. \A p : Dport(p) \notin r.expr /\ Saddr(p) \notin r.expr
    BY <2>1, Triple, PairNotTriple, Zenon
  <2>4. \A i : Iif(i) \in r.expr => i = j
    BY <2>1, Triple, PairNotTriple, Zenon
  <2>5. r.handle # 0
    BY <1>3 DEF LinkRule
  <2>6. r.by[1] = "bridge"
    BY <2>2
  <2>7. r.by # <<"boot", 0>>  /\ \A p : r.by # <<"port", p>>
    BY <2>6
  <2> QED
    BY <1>0, <2>2, <2>3, <2>4, <2>5, <2>6, <2>7
<1>4. CASE NatRule(r)
  <2>1. PICK j \in 1 .. MaxIndex, n \in Net :
          r.by = <<"nat", j>> /\ r.expr = {Saddr(Prefix(n)), <<"verdict", "masquerade">>}
    BY <1>4 DEF NatRule
  <2>2. r.by = <<"nat", j>>
    BY <2>1
  <2>3. \A p : Dport(p) \notin r.expr /\ Iif(p) \notin r.expr
    BY <2>1, Triple, PairNotTriple, Zenon
  <2>4. \A p : Saddr(p) \in r.expr => p = Prefix(n)
    BY <2>1, Triple, PairNotTriple, Zenon
  <2>5. r.handle # 0
    BY <1>4 DEF NatRule
  <2>6. r.by[1] = "nat"
    BY <2>2
  <2>7. r.by # <<"boot", 0>> /\ \A p : r.by # <<"port", p>>
    BY <2>6
  <2> QED
    BY <1>4, <2>2, <2>3, <2>4, <2>5, <2>6, <2>7
<1> QED
  BY <1>1, <1>2, <1>3, <1>4

\* The boot rules are the ones with handle 0, and stay as long as no rule with
\* handle 0 is added or removed.
LEMMA BootStays ==
  ASSUME BootRulesStay, \A r : (r \in ruleset' /\ r.by = <<"boot", 0>>) <=> (r \in ruleset /\ r.by = <<"boot", 0>>)
  PROVE  BootRulesStay'
<1>1. {q \in ruleset : q.by = <<"boot", 0>>}' = {q \in ruleset : q.by = <<"boot", 0>>}
  BY Zenon
<1> QED
  BY <1>1, Zenon DEF BootRulesStay

\* Apply keeps what is known of the rules: the handle is new.
LEMMA RulesAdd ==
  ASSUME RulesIInv, NEW r, PortRule(r) \/ LinkRule(r) \/ NatRule(r),
         r.handle = lastHandle + 1, lastHandle' = lastHandle + 1, ruleset' = ruleset \cup {r}
  PROVE  RulesIInv'
<1>1. RulesAreKnown'
  BY DEF RulesIInv, RulesAreKnown, BootRule, PortRule, LinkRule, NatRule
<1>2. HandlesAreOwn'
  BY DEF RulesIInv, RulesAreKnown, HandlesAreOwn
<1>3. r.handle # 0 /\ lastHandle' \in Nat
  BY DEF RulesIInv
<1>4. r.by # <<"boot", 0>>
  BY <1>3, Kinds
<1>5. BootRulesStay'
  BY <1>4, BootStays DEF RulesIInv
<1> QED
  BY <1>1, <1>2, <1>3, <1>5 DEF RulesIInv

\* So does the removal of rules that are not those of boot.
LEMMA RulesRemove ==
  ASSUME RulesIInv, lastHandle' = lastHandle, ruleset' \subseteq ruleset,
         \A r \in ruleset : r.by = <<"boot", 0>> => r \in ruleset'
  PROVE  RulesIInv'
<1>1. RulesAreKnown' /\ HandlesAreOwn' /\ lastHandle' \in Nat
  BY DEF RulesIInv, RulesAreKnown, HandlesAreOwn, BootRule, PortRule, LinkRule, NatRule
<1>2. BootRulesStay'
  BY BootStays DEF RulesIInv
<1> QED
  BY <1>1, <1>2 DEF RulesIInv

\* Every step of a command on ports keeps its invariant.
LEMMA PortNextIInv == ASSUME PortIInv, PortNext PROVE PortIInv'
<1> PICK c \in Client :
      \/ \E p \in OpenPort : OpenFind(c, p) \/ DropFind(c, p)
      \/ OpenApply(c) \/ OpenFails(c) \/ DropOne(c) \/ DropFails(c) \/ DropDone(c)
  BY DEF PortNext
<1>1. RulesIInv /\ portCmd \in [Client -> PortCommand] /\ closed \subseteq OpenPort
  BY DEF PortIInv
<1>2. \A r \in ruleset : \A p : (r.chain = "filter/input" /\ Dport(p) \in r.expr) <=> r.by = <<"port", p>>
  BY <1>1, Kinds DEF RulesIInv, RulesAreKnown
<1>3. ASSUME NEW p \in OpenPort, OpenFind(c, p) PROVE PortIInv'
  <2>1. UNCHANGED <<ruleset, lastHandle, closed>>
        /\ portCmd' = [portCmd EXCEPT ![c] = [op |-> "open", port |-> p]]
    BY <1>3 DEF OpenFind, kernelRules
  <2>2. RulesIInv'
    BY <1>1, <2>1, RulesRemove
  <2> QED
    BY <1>1, <2>1, <2>2 DEF PortIInv, PortCommand, DropsOwn, DropsAll, DropCloses
<1>4. ASSUME NEW p \in OpenPort, DropFind(c, p) PROVE PortIInv'
  <2>1. UNCHANGED <<ruleset, lastHandle, closed>>
        /\ portCmd' = [portCmd EXCEPT ![c] =
              [op |-> "drop", port |-> p, todo |-> {r.handle : r \in MatchesOf(p)}, alone |-> TRUE]]
    BY <1>4 DEF DropFind, kernelRules
  <2>2. RulesIInv'
    BY <1>1, <2>1, RulesRemove
  <2>3. MatchesOf(p) = {r \in ruleset : r.by = <<"port", p>>}
    BY <1>2, Found
  <2>4. \A r \in MatchesOf(p) : r.handle \in 1 .. lastHandle
    BY <1>1, <2>3, Kinds DEF RulesIInv, RulesAreKnown
  <2>5. {r.handle : r \in MatchesOf(p)} \in SUBSET Nat
    BY <2>4, <1>1 DEF RulesIInv
  <2>6. portCmd' \in [Client -> PortCommand]
    BY <1>1, <2>1, <2>5 DEF PortCommand
  <2>7. DropsOwn' /\ DropsAll'
    BY <1>1, <2>1, <2>3, <2>4 DEF PortIInv, DropsOwn, DropsAll, RulesIInv, HandlesAreOwn
  <2> QED
    BY <1>1, <2>1, <2>2, <2>6, <2>7 DEF PortIInv, DropCloses
<1>5. CASE OpenApply(c)
  <2> DEFINE p == portCmd[c].port
             r == [handle |-> lastHandle + 1, chain |-> "filter/input", expr |-> PortExpr(p),
                   by |-> <<"port", p>>]
  <2>1. /\ portCmd[c].op = "open" /\ lastHandle' = lastHandle + 1 /\ ruleset' = ruleset \cup {r}
        /\ portCmd' = [d \in Client |->
             IF d = c THEN Idle
             ELSE IF portCmd[d].op = "drop" /\ portCmd[d].port = p
                  THEN [portCmd[d] EXCEPT !.alone = FALSE] ELSE portCmd[d]]
        /\ closed' = closed \ {p}
    BY <1>5 DEF OpenApply, Apply
  <2>2. p \in OpenPort /\ lastHandle \in Nat
    BY <1>1, <2>1 DEF PortCommand, Idle, RulesIInv
  <2>3. r.handle = lastHandle + 1 /\ r.by = <<"port", p>> /\ PortRule(r)
    BY <2>2 DEF PortRule
  <2> HIDE DEF r
  <2>4. RulesIInv'
    BY <1>1, <2>1, <2>3, RulesAdd
  <2>5. portCmd' \in [Client -> PortCommand]
    <3>1. \A f \in PortCommand : f.op = "drop" => [f EXCEPT !.alone = FALSE] \in PortCommand
      BY DEF PortCommand, Idle
    <3>2. Idle \in PortCommand
      BY DEF PortCommand
    <3>3. ASSUME NEW d \in Client PROVE portCmd'[d] \in PortCommand
      BY <1>1, <2>1, <3>1, <3>2
    <3> QED
      BY <2>1, <3>3
  <2>6. \A q \in OpenPort : r.by = <<"port", q>> => q = p
    BY <2>3
  <2>7. DropsOwn'
    BY <1>1, <2>1, <2>2, <2>3 DEF PortIInv, PortCommand, DropsOwn, Idle
  <2>8. DropsAll'
    BY <1>1, <2>1, <2>2, <2>6 DEF PortIInv, PortCommand, DropsAll, Idle
  <2>9. DropCloses'
    BY <1>1, <2>1, <2>2, <2>6 DEF PortIInv, DropCloses
  <2> QED
    BY <1>1, <2>1, <2>4, <2>5, <2>7, <2>8, <2>9 DEF PortIInv
<1>6. CASE OpenFails(c) \/ DropFails(c)
  <2>1. UNCHANGED <<ruleset, lastHandle, closed>> /\ portCmd' = [portCmd EXCEPT ![c] = Idle]
    BY <1>6 DEF OpenFails, DropFails, kernelRules
  <2>2. RulesIInv'
    BY <1>1, <2>1, RulesRemove
  <2> QED
    BY <1>1, <2>1, <2>2 DEF PortIInv, PortCommand, DropsOwn, DropsAll, DropCloses, Idle
<1>7. CASE DropOne(c)
  <2> DEFINE h == Min(portCmd[c].todo)
  <2>1. /\ portCmd[c].op = "drop" /\ portCmd[c].todo # {} /\ UNCHANGED <<lastHandle, closed>>
        /\ ruleset' = {r \in ruleset : r.handle # h}
        /\ portCmd' = [portCmd EXCEPT ![c].todo = @ \ {h}]
    BY <1>7 DEF DropOne
  <2>2. portCmd[c].todo \in SUBSET Nat
    BY <1>1, <2>1 DEF PortCommand, Idle
  <2>3. h \in portCmd[c].todo
    BY <2>1, <2>2, MinIsMember
  <2> HIDE DEF h
  <2>4. h # 0
    BY <2>1, <2>3 DEF PortIInv, DropsOwn
  <2>5. RulesIInv'
    BY <1>1, <2>1, <2>4, RulesRemove, Kinds DEF RulesIInv, RulesAreKnown
  <2>6. portCmd' \in [Client -> PortCommand]
    BY <1>1, <2>1 DEF PortCommand, Idle
  <2>7. DropsOwn' /\ DropsAll' /\ DropCloses'
    BY <1>1, <2>1 DEF PortIInv, PortCommand, DropsOwn, DropsAll, DropCloses, Idle
  <2> QED
    BY <1>1, <2>1, <2>5, <2>6, <2>7 DEF PortIInv
<1>8. CASE DropDone(c)
  <2>1. UNCHANGED <<ruleset, lastHandle>> /\ portCmd' = [portCmd EXCEPT ![c] = Idle]
        /\ portCmd[c].op = "drop" /\ portCmd[c].todo = {}
        /\ closed' = IF portCmd[c].alone THEN closed \cup {portCmd[c].port} ELSE closed
    BY <1>8 DEF DropDone, kernelRules
  <2>2. RulesIInv'
    BY <1>1, <2>1, RulesRemove
  <2> QED
    BY <1>1, <2>1, <2>2 DEF PortIInv, PortCommand, DropsOwn, DropsAll, DropCloses, Idle
<1> QED
  BY <1>3, <1>4, <1>5, <1>6, <1>7, <1>8

\* Rules that are added or removed by others leave the commands on ports alone.
LEMMA PortKept ==
  ASSUME PortIInv, UNCHANGED <<portCmd, closed>>, lastHandle' \in Nat, lastHandle' >= lastHandle, RulesIInv',
         \A r \in ruleset' : r \in ruleset \/ (r.handle = lastHandle + 1 /\ \A p : r.by # <<"port", p>>)
  PROVE  PortIInv'
<1>1. lastHandle \in Nat /\ portCmd \in [Client -> PortCommand] /\ closed \subseteq OpenPort
  BY DEF PortIInv, RulesIInv
<1>2. DropsOwn'
  BY <1>1 DEF PortIInv, DropsOwn, PortCommand, Idle
<1>3. DropsAll' /\ DropCloses'
  BY <1>1 DEF PortIInv, DropsAll, DropCloses
<1> QED
  BY <1>1, <1>2, <1>3 DEF PortIInv

\* The fields of a command on bridges.
LEMMA CommandFields ==
  ASSUME BridgeTypeOK, NEW c \in Client
  PROVE  /\ bridgeCmd[c].op \in {"idle", "create", "delete"}
         /\ bridgeCmd[c].op = "idle" <=> bridgeCmd[c] = Idle
         /\ bridgeCmd[c].op # "idle" => bridgeCmd[c].index \in 1 .. MaxIndex
         /\ bridgeCmd[c].op = "create" =>
              /\ bridgeCmd[c].name \in BridgeName /\ bridgeCmd[c].net \in Net \cup {None}
              /\ bridgeCmd[c].at \in {"nft", "conflict", "addr", "dnsmasq", "nat"}
         /\ bridgeCmd[c].op = "delete" => bridgeCmd[c].at \in {"nat", "link", "rules"}
BY DEF BridgeTypeOK, BridgeCommand, Idle

\* A step of a command on bridges changes the rules in one of three ways.
LEMMA BridgeRules ==
  ASSUME PortIInv, BridgeIInv, BridgeNext
  PROVE  \/ UNCHANGED <<ruleset, lastHandle>>
         \/ \E r : /\ LinkRule(r) \/ NatRule(r)
                   /\ r.handle = lastHandle + 1 /\ lastHandle' = lastHandle + 1
                   /\ ruleset' = ruleset \cup {r}
         \/ /\ lastHandle' = lastHandle /\ ruleset' \subseteq ruleset
            /\ \A r \in ruleset : r.by = <<"boot", 0>> => r \in ruleset'
<1>1. lastHandle \in Nat /\ RulesAreKnown /\ BridgeTypeOK /\ CreateKnows
  BY DEF PortIInv, RulesIInv, BridgeIInv
<1>2. \A r \in ruleset : r.by = <<"boot", 0>> => \A x : Iif(x) \notin r.expr /\ Saddr(x) \notin r.expr
  <2> SUFFICES ASSUME NEW r \in ruleset, r.by = <<"boot", 0>>, NEW x, Iif(x) \in r.expr \/ Saddr(x) \in r.expr
               PROVE  FALSE
    OBVIOUS
  <2>1. (\E i : r.by = <<"bridge", i>>) \/ (\E i : r.by = <<"nat", i>>)
    BY <1>1, Kinds DEF RulesAreKnown
  <2> QED
    BY <2>1
<1>3. ASSUME NEW c \in Client, CreateNft(c)
      PROVE  \/ UNCHANGED <<ruleset, lastHandle>>
             \/ \E r : /\ LinkRule(r) \/ NatRule(r)
                       /\ r.handle = lastHandle + 1 /\ lastHandle' = lastHandle + 1
                       /\ ruleset' = ruleset \cup {r}
  <2> DEFINE i == bridgeCmd[c].index
             r == [handle |-> lastHandle + 1, chain |-> "filter/input",
                   expr |-> {<<"meta", "iif", i>>, <<"verdict", "accept">>}, by |-> <<"bridge", i>>]
  <2>1. \/ UNCHANGED <<ruleset, lastHandle>>
        \/ lastHandle' = lastHandle + 1 /\ ruleset' = ruleset \cup {r}
    BY <1>3 DEF CreateNft, Apply, kernelRules
  <2>2. i \in 1 .. MaxIndex /\ lastHandle + 1 \in Nat \ {0}
    BY <1>1, <1>3, CommandFields DEF CreateNft, Creating
  <2>3. LinkRule(r)
    BY <2>2 DEF LinkRule, Iif
  <2>4. r.handle = lastHandle + 1
    OBVIOUS
  <2> HIDE DEF r
  <2> QED
    BY <2>1, <2>3, <2>4
<1>4. ASSUME NEW c \in Client, CreateNat(c)
      PROVE  \/ UNCHANGED <<ruleset, lastHandle>>
             \/ \E r : /\ LinkRule(r) \/ NatRule(r)
                       /\ r.handle = lastHandle + 1 /\ lastHandle' = lastHandle + 1
                       /\ ruleset' = ruleset \cup {r}
  <2> DEFINE i == bridgeCmd[c].index
             n == bridgeCmd[c].net
             r == [handle |-> lastHandle + 1, chain |-> "nat/post",
                   expr |-> {<<"match", "ip saddr", Prefix(n)>>, <<"verdict", "masquerade">>},
                   by |-> <<"nat", i>>]
  <2>1. \/ UNCHANGED <<ruleset, lastHandle>>
        \/ lastHandle' = lastHandle + 1 /\ ruleset' = ruleset \cup {r}
    BY <1>4 DEF CreateNat, Apply, kernelRules
  <2>2. Creating(c, "nat")
    BY <1>4 DEF CreateNat
  <2>3. i \in 1 .. MaxIndex /\ n \in Net /\ lastHandle + 1 \in Nat \ {0}
    BY <1>1, <2>2, CommandFields DEF Creating, CreateKnows
  <2>4. NatRule(r)
    BY <2>3 DEF NatRule, Saddr
  <2>5. r.handle = lastHandle + 1
    OBVIOUS
  <2> HIDE DEF r
  <2> QED
    BY <2>1, <2>4, <2>5
<1>5. ASSUME NEW c \in Client, DeleteNat(c) \/ DeleteRules(c)
      PROVE  /\ lastHandle' = lastHandle /\ ruleset' \subseteq ruleset
             /\ \A r \in ruleset : r.by = <<"boot", 0>> => r \in ruleset'
  <2>1. CASE DeleteNat(c)
    <3>1. \/ UNCHANGED <<ruleset, lastHandle>>
          \/ \E F : lastHandle' = lastHandle /\ ruleset' = ruleset \ (NatMatches(addr[bridgeCmd[c].index]) \ F)
      BY <2>1 DEF DeleteNat
    <3> QED
      BY <1>2, <3>1, Found
  <2>2. CASE DeleteRules(c)
    <3>1. \E F : lastHandle' = lastHandle /\ ruleset' = ruleset \ (InputMatches(bridgeCmd[c].index) \ F)
      BY <2>2 DEF DeleteRules
    <3> QED
      BY <1>2, <3>1, Found
  <2> QED
    BY <1>5, <2>1, <2>2
<1>6. ASSUME NEW c \in Client, CreateConflict(c) \/ CreateAddr(c) \/ CreateDnsmasq(c) \/ DeleteLink(c)
      PROVE  UNCHANGED <<ruleset, lastHandle>>
  BY <1>6 DEF CreateConflict, CreateAddr, CreateDnsmasq, DeleteLink, kernelRules
<1>7. ASSUME NEW c \in Client, NEW b \in BridgeName, NEW n, CreateLink(c, b, n) \/ DeleteLookup(c, b) \/ DnsmasqExits(b)
      PROVE  UNCHANGED <<ruleset, lastHandle>>
  BY <1>7 DEF CreateLink, DeleteLookup, DnsmasqExits, kernelRules
<1>8. ASSUME NEW b \in BridgeName, DnsmasqExits(b)
      PROVE  UNCHANGED <<ruleset, lastHandle>>
  BY <1>8 DEF DnsmasqExits, kernelRules
<1> QED
  BY <1>3, <1>4, <1>5, <1>6, <1>7, <1>8 DEF BridgeNext

\* So the commands on ports keep their invariant.
LEMMA BridgeKeepsPorts ==
  ASSUME PortIInv, BridgeIInv, BridgeNext, UNCHANGED <<portCmd, closed>>
  PROVE  PortIInv'
<1>1. RulesIInv /\ lastHandle \in Nat
  BY DEF PortIInv, RulesIInv
<1>2. CASE UNCHANGED <<ruleset, lastHandle>>
  <2>1. RulesIInv'
    BY <1>1, <1>2, RulesRemove
  <2> QED
    BY <1>1, <1>2, <2>1, PortKept
<1>3. ASSUME NEW r, LinkRule(r) \/ NatRule(r), r.handle = lastHandle + 1, lastHandle' = lastHandle + 1,
             ruleset' = ruleset \cup {r}
      PROVE  PortIInv'
  <2>1. RulesIInv'
    BY <1>1, <1>3, RulesAdd
  <2>2. \A p : r.by # <<"port", p>>
    <3>1. CASE LinkRule(r)
      <4>1. PICK i \in 1 .. MaxIndex : r.by = <<"bridge", i>>
        BY <3>1, Zenon DEF LinkRule
      <4> QED
        BY <4>1
    <3>2. CASE NatRule(r)
      <4>1. PICK i \in 1 .. MaxIndex : r.by = <<"nat", i>>
        BY <3>2, Zenon DEF NatRule
      <4> QED
        BY <4>1
    <3> QED
      BY <1>3, <3>1, <3>2
  <2> QED
    BY <1>1, <1>3, <2>1, <2>2, PortKept
<1>4. ASSUME lastHandle' = lastHandle, ruleset' \subseteq ruleset,
             \A r \in ruleset : r.by = <<"boot", 0>> => r \in ruleset'
      PROVE  PortIInv'
  <2>1. RulesIInv'
    BY <1>1, <1>4, RulesRemove
  <2> QED
    BY <1>1, <1>4, <2>1, PortKept
<1> QED
  BY <1>2, <1>3, <1>4, BridgeRules

\* Steps that add no NAT rule and leave the networks of those there are alone.
LEMMA NatsShrink ==
  ASSUME NatNetwork, \A r \in ruleset' : r \in ruleset \/ \A i : r.by # <<"nat", i>>,
         \A i \in Nats : i \in Nats' => addr'[i] = addr[i]
  PROVE  Nats' \subseteq Nats /\ NatNetwork'
<1>1. Nats' \subseteq Nats
  BY Zenon DEF Nats
<1>2. ASSUME NEW i \in 1 .. MaxIndex, NEW r \in ruleset', r.by = <<"nat", i>>
      PROVE  addr'[i] \in Net /\ r.chain = "nat/post" /\ Saddr(Prefix(addr'[i])) \in r.expr
  <2>1. r \in ruleset
    BY <1>2, Zenon
  <2>2. i \in Nats /\ i \in Nats'
    BY <1>2, <2>1, Zenon DEF Nats
  <2>3. addr[i] \in Net /\ r.chain = "nat/post" /\ Saddr(Prefix(addr[i])) \in r.expr
    BY <1>2, <2>1, Zenon DEF NatNetwork
  <2> QED
    BY <2>2, <2>3, Zenon
<1> QED
  BY <1>1, <1>2, Zenon DEF NatNetwork, Saddr, Prefix, Mask

\* Steps that remove no NAT rule of a bridge.
LEMMA NatsStay ==
  ASSUME NEW i, \A r \in ruleset : r.by = <<"nat", i>> => r \in ruleset', i \in Nats
  PROVE  i \in Nats'
BY Zenon DEF Nats

\* The links that there are.
LEMMA LiveLinks == \A i : i \in Live <=> i # 0 /\ \E b \in BridgeName : link[b] = i
BY DEF Live

\* LinkDel takes a link away, and its network.
LEMMA LinkDeleted ==
  ASSUME BridgeTypeOK, NEW i \in 1 .. MaxIndex, LinkDel(i)
  PROVE  /\ Live' = Live \ {i} /\ addr'[i] = None
         /\ \A j \in 1 .. MaxIndex : j # i => addr'[j] = addr[j]
         /\ link' \in [BridgeName -> 0 .. MaxIndex] /\ addr' \in [1 .. MaxIndex -> Net \cup {None}]
         /\ \A b \in BridgeName : link'[b] = IF link[b] = i THEN 0 ELSE link[b]
<1>1. addr'[i] = None /\ \A j \in 1 .. MaxIndex : j # i => addr'[j] = addr[j]
  BY DEF LinkDel, BridgeTypeOK
<1>2. addr' \in [1 .. MaxIndex -> Net \cup {None}]
  BY DEF LinkDel, BridgeTypeOK
<1>3. \A b \in BridgeName : link'[b] = IF link[b] = i THEN 0 ELSE link[b]
  BY DEF LinkDel
<1>4. link' \in [BridgeName -> 0 .. MaxIndex]
  BY BridgeAssumption DEF LinkDel, BridgeTypeOK
<1>5. \A j : j \in Live' <=> j \in Live /\ j # i
  BY <1>3 DEF Live
<1> QED
  BY <1>1, <1>2, <1>3, <1>4, <1>5

\* Bridges stay disjoint when links and networks only go away.
LEMMA DisjointStays ==
  ASSUME BridgesDisjoint, \A j \in Live' : j \in Live /\ (addr'[j] # None => addr'[j] = addr[j])
  PROVE  BridgesDisjoint'
BY DEF BridgesDisjoint, HostsOf, NetContains, Mask

\* Steps that leave the rules, the links and their networks alone.
LEMMA RulesUntouched ==
  ASSUME BridgeIInv, UNCHANGED <<ruleset, link, addr>>
  PROVE  Nats' = Nats /\ NatNetwork' /\ Live' = Live /\ BridgesDisjoint'
<1>1. Live' = Live
  BY DEF Live
<1>2. Nats' \subseteq Nats /\ NatNetwork'
  BY NatsShrink DEF BridgeIInv
<1>3. Nats \subseteq Nats'
  BY NatsStay
<1>4. BridgesDisjoint'
  BY <1>1 DEF BridgeIInv, BridgesDisjoint, HostsOf, NetContains, Mask
<1> QED
  BY <1>1, <1>2, <1>3, <1>4

\* create: the link gets an index nobody has had.
LEMMA CreateLinkIInv ==
  ASSUME BridgeIInv, NEW c \in Client, NEW b \in BridgeName, NEW n \in Net \cup {None}, CreateLink(c, b, n)
  PROVE  BridgeIInv'
<1> DEFINE i == lastIndex + 1
<1>1. /\ bridgeCmd[c] = Idle /\ bridgeLock = None /\ link[b] = 0 /\ lastIndex < MaxIndex /\ lastIndex' = i
      /\ link' = [link EXCEPT ![b] = i] /\ bridgeLock' = c
      /\ bridgeCmd' = [bridgeCmd EXCEPT ![c] =
           [op |-> "create", at |-> "nft", name |-> b, index |-> i, net |-> n]]
      /\ UNCHANGED <<ruleset, addr, dnsmasq, ready, abandoned>>
  BY DEF CreateLink, LockFree, kernelRules
<1> USE DEF BridgeIInv
<1>2. i \in 1 .. MaxIndex /\ MaxIndex \in Nat /\ lastIndex \in Nat
  BY <1>1, BridgeAssumption DEF BridgeTypeOK
<1>3. BridgeTypeOK'
  BY <1>1, <1>2 DEF BridgeTypeOK, BridgeCommand
<1>4. i \notin Live /\ addr[i] = None /\ \A j : j \in Live' <=> j \in Live \/ j = i
  BY <1>1, <1>2 DEF LinksAreOwn, Live, BridgeTypeOK
<1>5. Nats' \subseteq Nats /\ NatNetwork' /\ Nats \subseteq Nats'
  BY <1>1, NatsShrink, NatsStay
<1>6. i \notin Nats /\ i \notin ready
  BY <1>4 DEF NatIsLive
<1>7. LockIsHeld'
  BY <1>1, NftAssumption DEF LockIsHeld, BridgeTypeOK
<1>8. LinksAreOwn'
  <2>1. \A a \in BridgeName : dnsmasq[a].index \in Nat /\ link[a] \in Nat
    BY DEF BridgeTypeOK, Off
  <2>2. \A a \in BridgeName : link'[a] = IF a = b THEN i ELSE link[a]
    BY <1>1 DEF BridgeTypeOK
  <2>3. \A a \in BridgeName : link'[a] <= lastIndex' /\ dnsmasq'[a].index <= lastIndex'
    BY <1>1, <1>2, <2>1, <2>2 DEF LinksAreOwn
  <2>4. \A a, d \in BridgeName : link'[a] = link'[d] /\ link'[a] # 0 => a = d
    BY <1>2, <2>1, <2>2 DEF LinksAreOwn
  <2>5. \A j \in 1 .. MaxIndex : addr'[j] # None => j \in Live'
    BY <1>1, <1>4 DEF LinksAreOwn
  <2>6. \A j \in abandoned' : j <= lastIndex' /\ j \notin Live'
    BY <1>1, <1>2, <1>4 DEF LinksAreOwn, BridgeTypeOK
  <2> QED
    BY <2>3, <2>4, <2>5, <2>6 DEF LinksAreOwn
<1>9. CreateKnows'
  <2> SUFFICES ASSUME NEW d \in Client, bridgeCmd'[d].op = "create" PROVE d = c
    BY <1>1, <1>2, <1>5, <1>6 DEF CreateKnows, LinksAreOwn, BridgeTypeOK
  <2> QED
    BY <1>1, NftAssumption DEF LockIsHeld
<1>10. DeleteKnows'
  <2> SUFFICES ASSUME NEW d \in Client, bridgeCmd'[d].op = "delete"
               PROVE  LET j == bridgeCmd[d].index IN
                      /\ bridgeCmd'[d] = bridgeCmd[d] /\ j <= lastIndex' /\ j \notin ready' /\ i # j
                      /\ \A e \in Client : bridgeCmd'[e].op = "create" => e = c
                      /\ \A a \in BridgeName : dnsmasq'[a].index = j => dnsmasq'[a].state # "running" \/ j \in abandoned'
                      /\ bridgeCmd[d].at # "nat" => j \notin Nats'
    BY <1>1, <1>3 DEF DeleteKnows, BridgeTypeOK
  <2>1. d # c /\ bridgeCmd'[d] = bridgeCmd[d] /\ bridgeCmd[d].op = "delete"
    BY <1>1 DEF BridgeTypeOK
  <2>2. bridgeCmd[d].index \in 1 .. MaxIndex
    BY <2>1, CommandFields
  <2>3. \A e \in Client : bridgeCmd'[e].op = "create" => e = c
    BY <1>1, NftAssumption DEF LockIsHeld
  <2> QED
    BY <1>1, <1>2, <1>5, <2>1, <2>2, <2>3 DEF DeleteKnows
<1>11. NatIsLive'
  BY <1>1, <1>4, <1>5 DEF NatIsLive
<1>12. BridgesDisjoint'
  BY <1>1, <1>4 DEF BridgesDisjoint, HostsOf, NetContains, Mask
<1>13. DnsmasqHasBridge'
  BY <1>1, <1>2 DEF DnsmasqHasBridge, BridgeTypeOK, Off
<1> QED
  BY <1>3, <1>5, <1>7, <1>8, <1>9, <1>10, <1>11, <1>12, <1>13

\* A create that ends leaves no create behind, and the deletes as they were.
LEMMA CreateIsOver ==
  ASSUME BridgeIInv, NEW c \in Client, bridgeCmd[c].op = "create", EndCreate(c)
  PROVE  /\ LockIsHeld' /\ CreateKnows' /\ bridgeCmd' \in [Client -> BridgeCommand] /\ bridgeLock' = None
         /\ \A d \in Client : bridgeCmd'[d].op # "create"
         /\ \A d \in Client : bridgeCmd'[d].op = "delete" => d # c /\ bridgeCmd'[d] = bridgeCmd[d]
<1>1. bridgeCmd' = [bridgeCmd EXCEPT ![c] = Idle] /\ bridgeLock' = None
  BY DEF EndCreate
<1>2. bridgeCmd \in [Client -> BridgeCommand] /\ bridgeLock = c
  BY DEF BridgeIInv, BridgeTypeOK, LockIsHeld
<1>3. bridgeCmd' \in [Client -> BridgeCommand]
  BY <1>1, <1>2 DEF BridgeCommand
<1>4. \A d \in Client : bridgeCmd'[d].op # "create"
  BY <1>1, <1>2 DEF BridgeIInv, LockIsHeld, Idle
<1>5. \A d \in Client : bridgeCmd'[d].op = "delete" => d # c /\ bridgeCmd'[d] = bridgeCmd[d]
  BY <1>1, <1>2 DEF Idle
<1>6. LockIsHeld'
  BY <1>1, <1>4, NftAssumption DEF LockIsHeld
<1>7. CreateKnows'
  BY <1>4 DEF CreateKnows
<1> QED
  BY <1>1, <1>3, <1>4, <1>5, <1>6, <1>7

\* A create that ends and leaves the link in place.
LEMMA CreateEnded ==
  ASSUME BridgeIInv, NEW c \in Client, bridgeCmd[c].op = "create", EndCreate(c),
         UNCHANGED <<link, addr, dnsmasq, lastIndex, abandoned>>, NatNetwork',
         \/ Nats' = Nats /\ ready' = ready
         \/ Nats' = Nats \cup {bridgeCmd[c].index} /\ ready' = ready \cup {bridgeCmd[c].index}
  PROVE  BridgeIInv'
<1> DEFINE i == bridgeCmd[c].index
<1> USE DEF BridgeIInv
<1>1. i \in 1 .. MaxIndex /\ bridgeCmd[c].name \in BridgeName
  BY CommandFields
<1>2. Live' = Live /\ i \in Live
  BY <1>1 DEF Live, CreateKnows
<1>3. BridgeTypeOK' /\ LockIsHeld' /\ CreateKnows'
  BY <1>1, CreateIsOver, NftAssumption DEF BridgeTypeOK
<1>4. LinksAreOwn'
  BY <1>2 DEF LinksAreOwn
<1>5. DeleteKnows'
  BY CreateIsOver DEF DeleteKnows
<1>6. NatIsLive'
  BY <1>2 DEF NatIsLive
<1>7. BridgesDisjoint'
  BY <1>2 DEF BridgesDisjoint, HostsOf, NetContains, Mask
<1>8. DnsmasqHasBridge'
  BY DEF DnsmasqHasBridge
<1> QED
  BY <1>3, <1>4, <1>5, <1>6, <1>7, <1>8

\* A create that ends and deletes the link.
LEMMA CreateUndone ==
  ASSUME BridgeIInv, NEW c \in Client, bridgeCmd[c].op = "create", EndCreate(c), LinkDel(bridgeCmd[c].index),
         UNCHANGED <<ruleset, dnsmasq, lastIndex, ready>>,
         \/ bridgeCmd[c].at # "nat" /\ abandoned' = abandoned
         \/ abandoned' = abandoned \cup {bridgeCmd[c].index}
  PROVE  BridgeIInv'
<1> DEFINE i == bridgeCmd[c].index
<1> USE DEF BridgeIInv
<1>1. i \in 1 .. MaxIndex /\ bridgeCmd[c].name \in BridgeName /\ BridgeTypeOK
  BY CommandFields
<1>2. /\ link[bridgeCmd[c].name] = i /\ i = lastIndex /\ i \notin Nats /\ i \notin ready
      /\ bridgeCmd[c].at # "nat" => \A b \in BridgeName : dnsmasq[b].index # i
  BY DEF CreateKnows
<1>3. /\ Live' = Live \ {i} /\ addr'[i] = None
      /\ \A j \in 1 .. MaxIndex : j # i => addr'[j] = addr[j]
      /\ link' \in [BridgeName -> 0 .. MaxIndex] /\ addr' \in [1 .. MaxIndex -> Net \cup {None}]
      /\ \A b \in BridgeName : link'[b] = IF link[b] = i THEN 0 ELSE link[b]
  BY <1>1, LinkDeleted
<1>4. Nats \subseteq 1 .. MaxIndex
  BY DEF Nats
<1>5. Nats' \subseteq Nats /\ NatNetwork'
  BY <1>2, <1>3, <1>4, NatsShrink
<1>6. Nats \subseteq Nats'
  BY NatsStay
<1>7. BridgeTypeOK' /\ LockIsHeld' /\ CreateKnows'
  BY <1>1, <1>3, CreateIsOver, NftAssumption DEF BridgeTypeOK
<1>8. LinksAreOwn'
  <2>1. \A b \in BridgeName : link[b] \in Nat /\ lastIndex \in Nat
    BY <1>1 DEF BridgeTypeOK
  <2>2. \A j \in 1 .. MaxIndex : addr'[j] # None => j \in Live'
    BY <1>3 DEF LinksAreOwn
  <2>3. \A j \in abandoned' : j <= lastIndex' /\ j \notin Live'
    BY <1>1, <1>2, <1>3, <2>1 DEF LinksAreOwn
  <2> QED
    BY <1>3, <2>1, <2>2, <2>3 DEF LinksAreOwn
<1>9. DeleteKnows'
  BY <1>5, CreateIsOver DEF DeleteKnows
<1>10. NatIsLive'
  BY <1>2, <1>3, <1>5, <1>6 DEF NatIsLive
<1>11. BridgesDisjoint'
  <2>1. Live \subseteq 1 .. MaxIndex
    BY <1>1 DEF BridgeTypeOK, Live
  <2> QED
    BY <1>3, <2>1, DisjointStays
<1>12. DnsmasqHasBridge'
  BY <1>2, <1>3 DEF DnsmasqHasBridge
<1> QED
  BY <1>5, <1>7, <1>8, <1>9, <1>10, <1>11, <1>12

\* A create that goes on keeps the lock, and the other commands stay as they were.
LEMMA CreateGoes ==
  ASSUME BridgeIInv, NEW c \in Client, bridgeCmd[c].op = "create",
         NEW at \in {"nft", "conflict", "addr", "dnsmasq", "nat"}, GoTo(c, at)
  PROVE  /\ LockIsHeld' /\ bridgeCmd' \in [Client -> BridgeCommand] /\ bridgeLock' \in Client
         /\ \A d \in Client : bridgeCmd'[d].op = "create" => d = c
         /\ bridgeCmd'[c].op = "create" /\ bridgeCmd'[c].at = at
         /\ bridgeCmd'[c].name = bridgeCmd[c].name /\ bridgeCmd'[c].index = bridgeCmd[c].index
         /\ bridgeCmd'[c].net = bridgeCmd[c].net
         /\ \A d \in Client : bridgeCmd'[d].op = "delete" => d # c /\ bridgeCmd'[d] = bridgeCmd[d]
<1>1. bridgeCmd' = [bridgeCmd EXCEPT ![c].at = at] /\ bridgeLock' = bridgeLock
  BY DEF GoTo
<1>2. bridgeCmd \in [Client -> BridgeCommand] /\ bridgeLock = c
  BY DEF BridgeIInv, BridgeTypeOK, LockIsHeld
<1>3. /\ bridgeCmd'[c].op = "create" /\ bridgeCmd'[c].at = at
      /\ bridgeCmd'[c].name = bridgeCmd[c].name /\ bridgeCmd'[c].index = bridgeCmd[c].index
      /\ bridgeCmd'[c].net = bridgeCmd[c].net /\ bridgeCmd'[c] \in BridgeCommand
  BY <1>1, <1>2 DEF BridgeCommand, Idle
<1>4. \A d \in Client : d # c => bridgeCmd'[d] = bridgeCmd[d]
  BY <1>1, <1>2
<1>5. bridgeCmd' \in [Client -> BridgeCommand]
  BY <1>1, <1>2, <1>3, <1>4
<1>6. LockIsHeld'
  BY <1>1, <1>2, <1>3, <1>4 DEF BridgeIInv, LockIsHeld
<1> QED
  BY <1>1, <1>2, <1>3, <1>4, <1>5, <1>6 DEF LockIsHeld

\* create: the rule that lets the packets of the bridge in.
LEMMA CreateNftIInv ==
  ASSUME PortIInv, BridgeIInv, NEW c \in Client, CreateNft(c)
  PROVE  BridgeIInv'
<1> DEFINE i == bridgeCmd[c].index
           r == [handle |-> lastHandle + 1, chain |-> "filter/input",
                 expr |-> {<<"meta", "iif", i>>, <<"verdict", "accept">>}, by |-> <<"bridge", i>>]
<1>1. /\ bridgeCmd[c].op = "create" /\ bridgeCmd[c].at = "nft"
      /\ UNCHANGED <<dnsmasq, lastIndex, ready, abandoned>>
      /\ \/ /\ ruleset' = ruleset \cup {r} /\ UNCHANGED <<link, addr>>
            /\ IF bridgeCmd[c].net = None THEN EndCreate(c) ELSE GoTo(c, "conflict")
         \/ EndCreate(c) /\ UNCHANGED <<ruleset, link, addr>>
         \/ LinkDel(i) /\ EndCreate(c) /\ UNCHANGED ruleset
  BY DEF CreateNft, Creating, Apply, kernelRules
<1>2. \A j : r.by # <<"nat", j>>
  OBVIOUS
<1> HIDE DEF r
<1>3. ASSUME UNCHANGED <<link, addr>>, ruleset' = ruleset \/ ruleset' = ruleset \cup {r}
      PROVE  Nats' = Nats /\ NatNetwork'
  <2>1. Nats' \subseteq Nats /\ NatNetwork'
    BY <1>2, <1>3, NatsShrink DEF BridgeIInv
  <2>2. Nats \subseteq Nats'
    BY <1>3, NatsStay
  <2> QED
    BY <2>1, <2>2
<1>4. CASE LinkDel(i) /\ EndCreate(c) /\ UNCHANGED ruleset
  BY <1>1, <1>4, CreateUndone
<1>5. CASE EndCreate(c) /\ UNCHANGED <<link, addr>> /\ (ruleset' = ruleset \/ ruleset' = ruleset \cup {r})
  BY <1>1, <1>3, <1>5, CreateEnded
<1>6. CASE /\ ruleset' = ruleset \cup {r} /\ UNCHANGED <<link, addr>>
           /\ bridgeCmd[c].net # None /\ GoTo(c, "conflict")
  <2> USE DEF BridgeIInv
  <2>1. Live' = Live
    BY <1>6 DEF Live
  <2>2. BridgeTypeOK' /\ LockIsHeld'
    BY <1>1, <1>6, CreateGoes DEF BridgeTypeOK
  <2>3. LinksAreOwn'
    BY <1>1, <1>6, <2>1 DEF LinksAreOwn
  <2>4. CreateKnows'
    BY <1>1, <1>3, <1>6, <2>1, CreateGoes DEF CreateKnows
  <2>5. DeleteKnows'
    BY <1>1, <1>3, <1>6, CreateGoes DEF DeleteKnows
  <2>6. NatIsLive'
    BY <1>1, <1>3, <1>6, <2>1 DEF NatIsLive
  <2>7. BridgesDisjoint'
    BY <1>6, <2>1, DisjointStays
  <2>8. DnsmasqHasBridge'
    BY <1>1, <1>6 DEF DnsmasqHasBridge
  <2> QED
    BY <1>3, <1>6, <2>2, <2>3, <2>4, <2>5, <2>6, <2>7, <2>8
<1> QED
  BY <1>1, <1>4, <1>5, <1>6

\* create: no bridge that has an address has a network in conflict with the new one.
LEMMA CreateConflictIInv ==
  ASSUME BridgeIInv, NEW c \in Client, CreateConflict(c)
  PROVE  BridgeIInv'
<1>1. /\ bridgeCmd[c].op = "create" /\ bridgeCmd[c].at = "conflict"
      /\ UNCHANGED <<ruleset, dnsmasq, lastIndex, ready, abandoned>>
      /\ \/ ~Conflict(bridgeCmd[c].net) /\ GoTo(c, "addr") /\ UNCHANGED <<link, addr>>
         \/ LinkDel(bridgeCmd[c].index) /\ EndCreate(c)
  BY DEF CreateConflict, Creating, kernelRules
<1>2. CASE LinkDel(bridgeCmd[c].index) /\ EndCreate(c)
  BY <1>1, <1>2, CreateUndone
<1>3. CASE ~Conflict(bridgeCmd[c].net) /\ GoTo(c, "addr") /\ UNCHANGED <<link, addr>>
  <2> USE DEF BridgeIInv
  <2>1. Live' = Live /\ Nats' = Nats /\ NatNetwork' /\ BridgesDisjoint'
    BY <1>1, <1>3, RulesUntouched
  <2>2. BridgeTypeOK' /\ LockIsHeld'
    BY <1>1, <1>3, CreateGoes DEF BridgeTypeOK
  <2>3. LinksAreOwn'
    BY <1>1, <1>3, <2>1 DEF LinksAreOwn
  <2>4. ~Conflict(bridgeCmd[c].net)'
    <3>1. bridgeCmd'[c].net = bridgeCmd[c].net
      BY <1>1, <1>3, CreateGoes
    <3> QED
      BY <1>3, <2>1, <3>1 DEF Conflict, Intersect, NetContains, Mask
  <2>5. CreateKnows'
    BY <1>1, <1>3, <2>1, <2>4, CreateGoes DEF CreateKnows
  <2>6. DeleteKnows'
    BY <1>1, <1>3, <2>1, CreateGoes DEF DeleteKnows
  <2>7. NatIsLive' /\ DnsmasqHasBridge'
    BY <1>1, <1>3, <2>1 DEF NatIsLive, DnsmasqHasBridge
  <2> QED
    BY <2>1, <2>2, <2>3, <2>5, <2>6, <2>7
<1> QED
  BY <1>1, <1>2, <1>3

\* create: the bridge gets its address; what conflicts was found before, under the lock.
LEMMA CreateAddrIInv ==
  ASSUME BridgeIInv, NEW c \in Client, CreateAddr(c)
  PROVE  BridgeIInv'
<1> DEFINE i == bridgeCmd[c].index
           n == bridgeCmd[c].net
<1>1. /\ bridgeCmd[c].op = "create" /\ bridgeCmd[c].at = "addr"
      /\ UNCHANGED <<ruleset, dnsmasq, lastIndex, ready, abandoned>>
      /\ \/ addr' = [addr EXCEPT ![i] = n] /\ GoTo(c, "dnsmasq") /\ link' = link
         \/ LinkDel(i) /\ EndCreate(c)
  BY DEF CreateAddr, Creating, kernelRules
<1>2. CASE LinkDel(i) /\ EndCreate(c)
  BY <1>1, <1>2, CreateUndone
<1>3. CASE addr' = [addr EXCEPT ![i] = n] /\ GoTo(c, "dnsmasq") /\ link' = link
  <2> USE DEF BridgeIInv
  <2>1. i \in 1 .. MaxIndex /\ n \in Net /\ bridgeCmd[c].name \in BridgeName
    BY <1>1, CommandFields DEF CreateKnows
  <2>2. ~Conflict(n) /\ link[bridgeCmd[c].name] = i /\ i \notin Nats
    BY <1>1 DEF CreateKnows
  <2>3. Live' = Live /\ i \in Live /\ Live \subseteq 1 .. MaxIndex
    BY <1>3, <2>1, <2>2 DEF Live, BridgeTypeOK
  <2>4. addr'[i] = n /\ \A j \in 1 .. MaxIndex : j # i => addr'[j] = addr[j]
    BY <1>3, <2>1 DEF BridgeTypeOK
  <2>5. addr' \in [1 .. MaxIndex -> Net \cup {None}]
    BY <1>3, <2>1 DEF BridgeTypeOK
  <2>6. Nats' \subseteq Nats /\ NatNetwork'
    <3>1. Nats \subseteq 1 .. MaxIndex
      BY DEF Nats
    <3> QED
      BY <1>1, <2>2, <2>4, <3>1, NatsShrink
  <2>7. Nats \subseteq Nats'
    BY <1>1, NatsStay
  <2>8. BridgeTypeOK' /\ LockIsHeld'
    BY <1>1, <1>3, <2>5, CreateGoes DEF BridgeTypeOK
  <2>9. LinksAreOwn'
    BY <1>1, <1>3, <2>3, <2>4 DEF LinksAreOwn
  <2>10. CreateKnows'
    BY <1>1, <1>3, <2>4, <2>6, CreateGoes DEF CreateKnows
  <2>11. DeleteKnows'
    BY <1>1, <1>3, <2>6, CreateGoes DEF DeleteKnows
  <2>12. NatIsLive' /\ DnsmasqHasBridge'
    BY <1>1, <1>3, <2>3, <2>6, <2>7 DEF NatIsLive, DnsmasqHasBridge
  <2>13. ASSUME NEW j \in Live, j # i, addr[j] # None
         PROVE  HostsOf(addr[j]) \cap HostsOf(n) = {} /\ HostsOf(n) \cap HostsOf(addr[j]) = {}
    <3>1. addr[j] \in Net
      BY <2>3, <2>13 DEF BridgeTypeOK
    <3>2. ~Intersect(addr[j], n)
      BY <2>2, <2>13 DEF Conflict
    <3>3. HostsOf(addr[j]) \cap HostsOf(n) = {}
      BY <2>1, <3>1, <3>2, IntersectComplete DEF IntersectIsComplete
    <3> QED
      BY <3>3
  <2>14. \A j, k \in Live : j # k /\ addr'[j] # None /\ addr'[k] # None => HostsOf(addr'[j]) \cap HostsOf(addr'[k]) = {}
    BY <2>3, <2>4, <2>13 DEF BridgesDisjoint
  <2>15. BridgesDisjoint'
    BY <2>3, <2>14 DEF BridgesDisjoint, HostsOf, NetContains, Mask
  <2> QED
    BY <2>6, <2>8, <2>9, <2>10, <2>11, <2>12, <2>15
<1> QED
  BY <1>1, <1>2, <1>3

\* create: dnsmasq is started for a bridge that has its address.
LEMMA CreateDnsmasqIInv ==
  ASSUME BridgeIInv, NEW c \in Client, CreateDnsmasq(c)
  PROVE  BridgeIInv'
<1> DEFINE i == bridgeCmd[c].index
           b == bridgeCmd[c].name
<1>1. /\ bridgeCmd[c].op = "create" /\ bridgeCmd[c].at = "dnsmasq"
      /\ UNCHANGED <<ruleset, lastIndex, ready, abandoned>>
      /\ \/ /\ dnsmasq' = [dnsmasq EXCEPT ![b] = [state |-> "running", index |-> i]]
            /\ GoTo(c, "nat") /\ UNCHANGED <<link, addr>>
         \/ LinkDel(i) /\ EndCreate(c) /\ UNCHANGED dnsmasq
  BY DEF CreateDnsmasq, Creating, kernelRules
<1>2. CASE LinkDel(i) /\ EndCreate(c) /\ UNCHANGED dnsmasq
  BY <1>1, <1>2, CreateUndone
<1>3. CASE /\ dnsmasq' = [dnsmasq EXCEPT ![b] = [state |-> "running", index |-> i]]
           /\ GoTo(c, "nat") /\ UNCHANGED <<link, addr>>
  <2> USE DEF BridgeIInv
  <2>1. Live' = Live /\ Nats' = Nats /\ NatNetwork' /\ BridgesDisjoint'
    BY <1>1, <1>3, RulesUntouched
  <2>2. i \in 1 .. MaxIndex /\ b \in BridgeName /\ lastIndex \in Nat
    BY <1>1, CommandFields DEF BridgeTypeOK
  <2>3. /\ dnsmasq'[b].index = i /\ \A a \in BridgeName : a # b => dnsmasq'[a] = dnsmasq[a]
        /\ dnsmasq' \in [BridgeName -> {Off} \cup [state : {"running", "dying"}, index : 1 .. MaxIndex]]
    BY <1>3, <2>2 DEF BridgeTypeOK
  <2>4. BridgeTypeOK' /\ LockIsHeld'
    BY <1>1, <1>3, <2>3, CreateGoes DEF BridgeTypeOK
  <2>5. link[b] = i /\ i = lastIndex /\ addr[i] = bridgeCmd[c].net /\ bridgeCmd[c].net # None /\ i \notin Nats
        /\ i \notin ready /\ \A a \in BridgeName : dnsmasq[a].index # i
    BY <1>1 DEF CreateKnows
  <2>6. LinksAreOwn'
    BY <1>1, <1>3, <2>1, <2>2, <2>3, <2>5 DEF LinksAreOwn
  <2>7. CreateKnows'
    BY <1>1, <1>3, <2>1, <2>3, <2>5, CreateGoes DEF CreateKnows
  <2>8. DeleteKnows'
    BY <1>1, <1>3, <2>1, <2>2, <2>3, CreateGoes DEF DeleteKnows
  <2>9. NatIsLive' /\ DnsmasqHasBridge'
    BY <1>1, <1>3, <2>1, <2>3, <2>5 DEF NatIsLive, DnsmasqHasBridge
  <2> QED
    BY <2>1, <2>4, <2>6, <2>7, <2>8, <2>9
<1> QED
  BY <1>1, <1>2, <1>3

\* create: the last step, after which the bridge is ready, or its link is gone.
LEMMA CreateNatIInv ==
  ASSUME BridgeIInv, NEW c \in Client, CreateNat(c)
  PROVE  BridgeIInv'
<1> DEFINE i == bridgeCmd[c].index
           n == bridgeCmd[c].net
           r == [handle |-> lastHandle + 1, chain |-> "nat/post",
                 expr |-> {<<"match", "ip saddr", Prefix(n)>>, <<"verdict", "masquerade">>},
                 by |-> <<"nat", i>>]
<1>1. /\ bridgeCmd[c].op = "create" /\ bridgeCmd[c].at = "nat" /\ EndCreate(c)
      /\ UNCHANGED <<dnsmasq, lastIndex>>
      /\ \/ /\ ruleset' = ruleset \cup {r} /\ ready' = ready \cup {i}
            /\ UNCHANGED <<link, addr, abandoned>>
         \/ LinkDel(i) /\ abandoned' = abandoned \cup {i} /\ UNCHANGED <<ruleset, ready>>
         \/ UNCHANGED <<link, addr, ruleset, ready, abandoned>>
  BY DEF CreateNat, Creating, Apply, kernelRules
<1>2. CASE LinkDel(i) /\ abandoned' = abandoned \cup {i} /\ UNCHANGED <<ruleset, ready>>
  BY <1>1, <1>2, CreateUndone
<1>3. CASE UNCHANGED <<link, addr, ruleset, ready, abandoned>>
  BY <1>1, <1>3, RulesUntouched, CreateEnded
<1>4. CASE /\ ruleset' = ruleset \cup {r} /\ ready' = ready \cup {i} /\ UNCHANGED <<link, addr, abandoned>>
  <2>1. i \in 1 .. MaxIndex /\ n \in Net /\ addr[i] = n
    BY <1>1, CommandFields DEF BridgeIInv, CreateKnows
  <2>2. r.by = <<"nat", i>> /\ r.chain = "nat/post"
    OBVIOUS
  <2>3. Saddr(Prefix(n)) \in r.expr
    BY Zenon DEF Saddr
  <2>4. \A j : r.by = <<"nat", j>> <=> j = i
    BY <2>2
  <2> HIDE DEF r
  <2>5. \A j : j \in Nats' <=> j \in Nats \/ j = i
    BY <1>4, <2>1, <2>4, Zenon DEF Nats
  <2>6. NatNetwork'
    <3> SUFFICES ASSUME NEW j \in 1 .. MaxIndex, NEW q \in ruleset', q.by = <<"nat", j>>
                 PROVE  addr[j] \in Net /\ q.chain = "nat/post" /\ Saddr(Prefix(addr[j])) \in q.expr
      BY <1>4, Zenon DEF NatNetwork, Saddr, Prefix, Mask
    <3>1. CASE q \in ruleset
      BY <3>1, Zenon DEF BridgeIInv, NatNetwork
    <3>2. CASE q = r
      BY <2>1, <2>2, <2>3, <2>4, <3>2, Zenon
    <3> QED
      BY <1>4, <3>1, <3>2
  <2>7. Nats' = Nats \cup {i}
    BY <2>5
  <2> QED
    BY <1>1, <1>4, <2>6, <2>7, CreateEnded
<1> QED
  BY <1>1, <1>2, <1>3, <1>4

\* dnsmasq ends, killed or not.
LEMMA DnsmasqExitsIInv ==
  ASSUME BridgeIInv, NEW b \in BridgeName, DnsmasqExits(b)
  PROVE  BridgeIInv'
<1>1. /\ dnsmasq' = [dnsmasq EXCEPT ![b] = Off]
      /\ UNCHANGED <<ruleset, link, addr, bridgeLock, bridgeCmd, lastIndex, ready, abandoned>>
  BY DEF DnsmasqExits, kernelRules
<1> USE DEF BridgeIInv
<1>2. Live' = Live /\ Nats' = Nats /\ NatNetwork' /\ BridgesDisjoint'
  BY <1>1, RulesUntouched
<1>3. BridgeTypeOK' /\ LockIsHeld'
  BY <1>1 DEF BridgeTypeOK, LockIsHeld
<1>4. dnsmasq'[b] = Off /\ (\A a \in BridgeName : a # b => dnsmasq'[a] = dnsmasq[a]) /\ lastIndex \in Nat
  BY <1>1 DEF BridgeTypeOK
<1>5. LinksAreOwn'
  BY <1>1, <1>2, <1>4 DEF LinksAreOwn, Off
<1>6. CreateKnows'
  <2>1. \A c \in Client : Conflict(bridgeCmd[c].net)' <=> Conflict(bridgeCmd[c].net)
    BY <1>1, <1>2 DEF Conflict, Intersect, NetContains, Mask
  <2>2. \A c \in Client : bridgeCmd[c].op = "create" => bridgeCmd[c].index # 0
    BY CommandFields
  <2> QED
    BY <1>1, <1>2, <1>4, <2>1, <2>2 DEF CreateKnows, Off
<1>7. DeleteKnows'
  BY <1>1, <1>2, <1>4 DEF DeleteKnows, Off
<1>8. NatIsLive' /\ DnsmasqHasBridge'
  BY <1>1, <1>2, <1>4 DEF NatIsLive, DnsmasqHasBridge, Off
<1> QED
  BY <1>2, <1>3, <1>5, <1>6, <1>7, <1>8

\* delete: the bridge is not ready any more, and its dnsmasq is killed.
LEMMA DeleteLookupIInv ==
  ASSUME BridgeIInv, NEW c \in Client, NEW b \in BridgeName, DeleteLookup(c, b)
  PROVE  BridgeIInv'
<1> DEFINE i == link[b]
<1>1. /\ bridgeCmd[c] = Idle /\ bridgeLock = None /\ i # 0
      /\ bridgeCmd' = [bridgeCmd EXCEPT ![c] = [op |-> "delete", at |-> "nat", index |-> i]]
      /\ dnsmasq' = [dnsmasq EXCEPT ![b] = Killed(b)] /\ ready' = ready \ {i}
      /\ UNCHANGED <<ruleset, link, addr, bridgeLock, lastIndex, abandoned>>
  BY DEF DeleteLookup, DeleteBarrier, kernelRules
<1> USE DEF BridgeIInv
<1>2. Live' = Live /\ Nats' = Nats /\ NatNetwork' /\ BridgesDisjoint'
  BY <1>1, RulesUntouched
<1>3. i \in 1 .. MaxIndex /\ lastIndex \in Nat
  BY <1>1, BridgeAssumption DEF BridgeTypeOK
<1>4. /\ dnsmasq'[b].index = dnsmasq[b].index /\ dnsmasq'[b].state # "running"
      /\ \A a \in BridgeName : a # b => dnsmasq'[a] = dnsmasq[a]
      /\ dnsmasq' \in [BridgeName -> {Off} \cup [state : {"running", "dying"}, index : 1 .. MaxIndex]]
  <2>1. dnsmasq[b] \in {Off} \cup [state : {"running", "dying"}, index : 1 .. MaxIndex]
    BY DEF BridgeTypeOK
  <2>2. /\ Killed(b).index = dnsmasq[b].index /\ Killed(b).state # "running"
        /\ Killed(b) \in {Off} \cup [state : {"running", "dying"}, index : 1 .. MaxIndex]
    BY <2>1 DEF Killed, Off
  <2> QED
    BY <1>1, <2>2 DEF BridgeTypeOK
<1>5. BridgeTypeOK'
  BY <1>1, <1>3, <1>4 DEF BridgeTypeOK, BridgeCommand
<1>6. \A d \in Client : bridgeCmd'[d].op # "create"
  BY <1>1, NftAssumption DEF LockIsHeld, BridgeTypeOK
<1>7. LockIsHeld' /\ CreateKnows'
  BY <1>1, <1>6, NftAssumption DEF LockIsHeld, CreateKnows
<1>8. LinksAreOwn'
  BY <1>1, <1>2, <1>4 DEF LinksAreOwn
<1>9. \A d \in Client : IF d = c THEN bridgeCmd'[d].op = "delete" /\ bridgeCmd'[d].at = "nat" /\ bridgeCmd'[d].index = i
                        ELSE bridgeCmd'[d] = bridgeCmd[d]
  BY <1>1 DEF BridgeTypeOK
<1>10. \A a \in BridgeName : dnsmasq'[a].index = i => dnsmasq'[a].state # "running" \/ i \in abandoned
  BY <1>1, <1>4 DEF DnsmasqHasBridge, LinksAreOwn
<1>11. DeleteKnows'
  BY <1>1, <1>2, <1>4, <1>6, <1>9, <1>10 DEF DeleteKnows, LinksAreOwn
<1>12. NatIsLive' /\ DnsmasqHasBridge'
  BY <1>1, <1>2, <1>4 DEF NatIsLive, DnsmasqHasBridge
<1> QED
  BY <1>2, <1>5, <1>7, <1>8, <1>11, <1>12

\* A delete that goes on or ends leaves the other commands as they were.
LEMMA DeleteGoes ==
  ASSUME BridgeIInv, NEW c \in Client, bridgeCmd[c].op = "delete", bridgeLock' = bridgeLock,
         \/ bridgeCmd' = [bridgeCmd EXCEPT ![c] = Idle]
         \/ \E at \in {"link", "rules"} : bridgeCmd' = [bridgeCmd EXCEPT ![c].at = at]
  PROVE  /\ LockIsHeld' /\ bridgeCmd' \in [Client -> BridgeCommand]
         /\ bridgeCmd'[c].op # "create" /\ bridgeCmd[c].index \in 1 .. MaxIndex
         /\ \A d \in Client : d # c => bridgeCmd'[d] = bridgeCmd[d]
         /\ bridgeCmd'[c].op = "delete" =>
              bridgeCmd'[c].index = bridgeCmd[c].index /\ bridgeCmd' # [bridgeCmd EXCEPT ![c] = Idle]
<1>1. bridgeCmd \in [Client -> BridgeCommand]
  BY DEF BridgeIInv, BridgeTypeOK
<1>2. \A d \in Client : d # c => bridgeCmd'[d] = bridgeCmd[d]
  BY <1>1
<1>3. bridgeCmd[c].index \in 1 .. MaxIndex
  BY CommandFields DEF BridgeIInv
<1>4. /\ bridgeCmd'[c] \in BridgeCommand /\ bridgeCmd'[c].op # "create"
      /\ bridgeCmd'[c].op = "delete" => bridgeCmd'[c].index = bridgeCmd[c].index
  BY <1>1 DEF BridgeCommand, Idle
<1>5. bridgeCmd' \in [Client -> BridgeCommand]
  BY <1>1, <1>2, <1>4
<1>6. bridgeCmd'[c].op = "delete" => bridgeCmd' # [bridgeCmd EXCEPT ![c] = Idle]
  BY <1>1 DEF Idle
<1>7. LockIsHeld'
  BY <1>2, <1>4 DEF BridgeIInv, LockIsHeld
<1> QED
  BY <1>2, <1>3, <1>4, <1>5, <1>6, <1>7

\* The rules a delete finds by the network of its bridge are its own, and all of
\* its own: no other bridge has that network.
LEMMA NatRulesAreOwn ==
  ASSUME RulesAreKnown, BridgeIInv, NEW i \in 1 .. MaxIndex, addr[i] # None
  PROVE  /\ \A r \in NatMatches(addr[i]) : r.by = <<"nat", i>>
         /\ \A r \in ruleset : r.by = <<"nat", i>> => r \in NatMatches(addr[i])
<1>1. ASSUME NEW r \in ruleset, r.by = <<"nat", i>> PROVE r \in NatMatches(addr[i])
  <2>1. r.chain = "nat/post" /\ Saddr(Prefix(addr[i])) \in r.expr
    BY <1>1, Zenon DEF BridgeIInv, NatNetwork
  <2> QED
    BY <2>1, Found
<1>2. ASSUME NEW r \in NatMatches(addr[i]) PROVE r.by = <<"nat", i>>
  <2>1. r \in ruleset /\ Saddr(Prefix(addr[i])) \in r.expr
    BY Found
  <2>2. PICK j \in 1 .. MaxIndex : r.by = <<"nat", j>>
    BY <2>1, Kinds DEF RulesAreKnown
  <2>3. addr[j] \in Net /\ Saddr(Prefix(addr[j])) \in r.expr
    BY <2>1, <2>2, Zenon DEF BridgeIInv, NatNetwork
  <2>4. Prefix(addr[i]) = Prefix(addr[j])
    BY <2>1, <2>3, Kinds DEF RulesAreKnown
  <2>5. addr[i] \in Net /\ i \in Live
    BY DEF BridgeIInv, BridgeTypeOK, LinksAreOwn
  <2>6. j \in Live /\ addr[j] # None
    BY <2>3, BridgeAssumption DEF BridgeIInv, LinksAreOwn
  <2>7. HostsOf(addr[i]) \cap HostsOf(addr[j]) # {}
    BY <2>3, <2>4, <2>5, SamePrefix
  <2>8. i = j
    BY <2>5, <2>6, <2>7 DEF BridgeIInv, BridgesDisjoint
  <2> QED
    BY <2>2, <2>8
<1> QED
  BY <1>1, <1>2

\* delete: the NAT rules of the network of the bridge, which is of no other bridge.
LEMMA DeleteNatIInv ==
  ASSUME PortIInv, BridgeIInv, NEW c \in Client, DeleteNat(c)
  PROVE  BridgeIInv'
<1> DEFINE i == bridgeCmd[c].index
           found == IF addr[i] = None THEN {} ELSE NatMatches(addr[i])
<1>1. PICK failed \in SUBSET found :
        /\ ruleset' = ruleset \ (found \ failed)
        /\ bridgeCmd' = [bridgeCmd EXCEPT ![c] =
             IF failed # {} \/ i \notin Live THEN Idle ELSE [@ EXCEPT !.at = "link"]]
  BY DEF DeleteNat
<1>2. /\ bridgeCmd[c].op = "delete"
      /\ UNCHANGED <<link, addr, dnsmasq, bridgeLock, lastIndex, ready, abandoned>>
  BY DEF DeleteNat, Deleting
<1> USE DEF BridgeIInv
<1>3. i \in 1 .. MaxIndex /\ RulesAreKnown
  BY <1>2, CommandFields DEF PortIInv, RulesIInv
<1>4. \A r \in found : r.by = <<"nat", i>>
  BY <1>3, NatRulesAreOwn
<1>5. \A r \in ruleset : r.by = <<"nat", i>> => r \in found
  <2> SUFFICES ASSUME NEW r \in ruleset, r.by = <<"nat", i>> PROVE r \in found
    OBVIOUS
  <2>1. addr[i] \in Net
    BY <1>3, Zenon DEF NatNetwork
  <2>2. addr[i] # None
    BY <2>1, BridgeAssumption
  <2> QED
    BY <1>3, <2>2, NatRulesAreOwn
<1> HIDE DEF found
<1>6. \/ bridgeCmd' = [bridgeCmd EXCEPT ![c] = Idle]
      \/ failed = {} /\ bridgeCmd' = [bridgeCmd EXCEPT ![c].at = "link"]
  BY <1>1
<1>7. Live' = Live
  BY <1>2 DEF Live
<1>8. Nats' \subseteq Nats /\ NatNetwork'
  BY <1>1, <1>2, NatsShrink
<1>9. ASSUME NEW j \in Nats, j # i PROVE j \in Nats'
  <2>1. \A r \in ruleset : r.by = <<"nat", j>> => r \in ruleset'
    <3> SUFFICES ASSUME NEW r \in ruleset, r.by = <<"nat", j>>, r \in found PROVE FALSE
      BY <1>1
    <3>1. <<"nat", i>> = <<"nat", j>>
      BY <1>4
    <3> QED
      BY <1>9, <3>1
  <2> QED
    BY <2>1, NatsStay
<1>10. failed = {} => i \notin Nats'
  <2> SUFFICES ASSUME failed = {}, i \in Nats' PROVE FALSE
    OBVIOUS
  <2>1. PICK r \in ruleset' : r.by = <<"nat", i>>
    BY Zenon DEF Nats
  <2> QED
    BY <1>1, <1>5, <2>1
<1>11. BridgeTypeOK' /\ LockIsHeld'
  BY <1>2, <1>6, DeleteGoes DEF BridgeTypeOK
<1>12. LinksAreOwn'
  BY <1>2, <1>7 DEF LinksAreOwn
<1>13. BridgesDisjoint'
  BY <1>2, <1>7, DisjointStays
<1>14. bridgeCmd'[c].op # "create" /\ \A d \in Client : d # c => bridgeCmd'[d] = bridgeCmd[d]
  BY <1>2, <1>6, DeleteGoes
<1>15. CreateKnows'
  <2>1. \A d \in Client : d # c => (Conflict(bridgeCmd[d].net)' <=> Conflict(bridgeCmd[d].net))
    BY <1>2, <1>7, <1>14 DEF Conflict, Intersect, NetContains, Mask
  <2> QED
    BY <1>2, <1>8, <1>14, <2>1 DEF CreateKnows
<1>16. DeleteKnows'
  <2>1. bridgeCmd'[c].op = "delete" => bridgeCmd'[c].index = i /\ failed = {}
    BY <1>2, <1>6, DeleteGoes
  <2> QED
    BY <1>2, <1>8, <1>10, <1>14, <2>1 DEF DeleteKnows
<1>17. NatIsLive'
  BY <1>2, <1>7, <1>8, <1>9 DEF NatIsLive, DeleteKnows
<1>18. DnsmasqHasBridge'
  BY <1>2 DEF DnsmasqHasBridge
<1> QED
  BY <1>8, <1>11, <1>12, <1>13, <1>15, <1>16, <1>17, <1>18

\* delete: the link goes with its address; it has no NAT rule any more.
LEMMA DeleteLinkIInv ==
  ASSUME BridgeIInv, NEW c \in Client, DeleteLink(c)
  PROVE  BridgeIInv'
<1> DEFINE i == bridgeCmd[c].index
<1>1. /\ bridgeCmd[c].op = "delete" /\ bridgeCmd[c].at = "link" /\ bridgeLock' = bridgeLock
      /\ \/ LinkDel(i) /\ bridgeCmd' = [bridgeCmd EXCEPT ![c].at = "rules"]
         \/ bridgeCmd' = [bridgeCmd EXCEPT ![c] = Idle] /\ UNCHANGED <<link, addr>>
      /\ UNCHANGED <<ruleset, dnsmasq, lastIndex, ready, abandoned>>
  BY DEF DeleteLink, Deleting, GoTo, kernelRules
<1> USE DEF BridgeIInv
<1>2. i \in 1 .. MaxIndex /\ BridgeTypeOK
  BY <1>1, CommandFields
<1>3. i \notin ready /\ i \notin Nats
  BY <1>1 DEF DeleteKnows
<1>4. Live \subseteq 1 .. MaxIndex /\ Nats \subseteq 1 .. MaxIndex
  BY <1>2 DEF Live, BridgeTypeOK, Nats
<1>5. /\ Live \ {i} \subseteq Live' /\ Live' \subseteq Live
      /\ \A j \in 1 .. MaxIndex : j # i => addr'[j] = addr[j]
      /\ \A j \in 1 .. MaxIndex : addr'[j] # None => addr'[j] = addr[j] /\ (addr[j] # None => j \in Live')
      /\ link' \in [BridgeName -> 0 .. MaxIndex] /\ addr' \in [1 .. MaxIndex -> Net \cup {None}]
      /\ \A b \in BridgeName : link'[b] = link[b] \/ (link[b] = i /\ link'[b] = 0)
  <2>1. CASE LinkDel(i)
    BY <1>2, <2>1, LinkDeleted DEF LinksAreOwn
  <2>2. CASE UNCHANGED <<link, addr>>
    <3>1. Live' = Live
      BY <2>2 DEF Live
    <3> QED
      BY <1>2, <2>2, <3>1 DEF BridgeTypeOK, LinksAreOwn
  <2> QED
    BY <1>1, <2>1, <2>2
<1>6. Nats' \subseteq Nats /\ NatNetwork'
  BY <1>1, <1>3, <1>4, <1>5, NatsShrink
<1>7. Nats \subseteq Nats'
  BY <1>1, NatsStay
<1>8. BridgeTypeOK' /\ LockIsHeld'
  BY <1>1, <1>5, DeleteGoes DEF BridgeTypeOK
<1>9. LinksAreOwn'
  <2>1. \A b \in BridgeName : 0 <= lastIndex
    BY <1>2 DEF BridgeTypeOK
  <2>2. \A j \in 1 .. MaxIndex : addr'[j] # None => j \in Live'
    BY <1>5
  <2> QED
    BY <1>1, <1>5, <2>1, <2>2 DEF LinksAreOwn
<1>10. BridgesDisjoint'
  BY <1>4, <1>5, DisjointStays
<1>11. /\ bridgeCmd'[c].op # "create" /\ \A d \in Client : d # c => bridgeCmd'[d] = bridgeCmd[d]
       /\ bridgeCmd'[c].op = "delete" => bridgeCmd'[c].index = i
  BY <1>1, DeleteGoes
<1>12. CreateKnows'
  <2>1. \A d \in Client : bridgeCmd'[d].op = "create" =>
          d # c /\ bridgeCmd'[d] = bridgeCmd[d] /\ bridgeCmd[d].index # i
    BY <1>1, <1>11 DEF DeleteKnows
  <2>2. \A d \in Client : d # c => (Conflict(bridgeCmd[d].net)' => Conflict(bridgeCmd[d].net))
    BY <1>4, <1>5, <1>11 DEF Conflict, Intersect, NetContains, Mask
  <2>3. \A d \in Client : bridgeCmd[d].op = "create" =>
          bridgeCmd[d].index \in 1 .. MaxIndex /\ bridgeCmd[d].name \in BridgeName
    BY <1>2, CommandFields
  <2> QED
    BY <1>1, <1>5, <1>6, <2>1, <2>2, <2>3 DEF CreateKnows
<1>13. DeleteKnows'
  BY <1>1, <1>3, <1>6, <1>11 DEF DeleteKnows
<1>14. NatIsLive'
  BY <1>1, <1>3, <1>5, <1>6, <1>7 DEF NatIsLive
<1>15. DnsmasqHasBridge'
  BY <1>1, <1>5 DEF DnsmasqHasBridge, DeleteKnows
<1> QED
  BY <1>6, <1>8, <1>9, <1>10, <1>12, <1>13, <1>14, <1>15

\* delete: the rules of the index of the bridge, by the handles they have.
LEMMA DeleteRulesIInv ==
  ASSUME PortIInv, BridgeIInv, NEW c \in Client, DeleteRules(c)
  PROVE  BridgeIInv'
<1> DEFINE i == bridgeCmd[c].index
<1>1. PICK failed : ruleset' = ruleset \ (InputMatches(i) \ failed)
  BY DEF DeleteRules
<1>2. /\ bridgeCmd[c].op = "delete" /\ bridgeCmd' = [bridgeCmd EXCEPT ![c] = Idle]
      /\ UNCHANGED <<link, addr, dnsmasq, bridgeLock, lastIndex, ready, abandoned>>
  BY DEF DeleteRules, Deleting
<1> USE DEF BridgeIInv
<1>3. \A r \in InputMatches(i) : \A j : r.by # <<"nat", j>>
  <2> SUFFICES ASSUME NEW r \in InputMatches(i), NEW j, r.by = <<"nat", j>> PROVE FALSE
    OBVIOUS
  <2>1. r \in ruleset /\ Iif(i) \in r.expr
    BY Found
  <2>2. r.by = <<"bridge", i>>
    BY <2>1, Kinds DEF PortIInv, RulesIInv, RulesAreKnown
  <2> QED
    BY <2>2
<1>4. Live' = Live
  BY <1>2 DEF Live
<1>5. Nats' \subseteq Nats /\ NatNetwork'
  BY <1>1, <1>2, NatsShrink
<1>6. Nats \subseteq Nats'
  BY <1>1, <1>3, NatsStay
<1>7. BridgeTypeOK' /\ LockIsHeld'
  BY <1>2, DeleteGoes DEF BridgeTypeOK
<1>8. LinksAreOwn'
  BY <1>2, <1>4 DEF LinksAreOwn
<1>9. BridgesDisjoint'
  BY <1>2, <1>4, DisjointStays
<1>10. bridgeCmd'[c].op = "idle" /\ \A d \in Client : d # c => bridgeCmd'[d] = bridgeCmd[d]
  BY <1>2 DEF BridgeTypeOK, Idle
<1>11. CreateKnows'
  <2>1. \A d \in Client : d # c => (Conflict(bridgeCmd[d].net)' <=> Conflict(bridgeCmd[d].net))
    BY <1>2, <1>4, <1>10 DEF Conflict, Intersect, NetContains, Mask
  <2> QED
    BY <1>2, <1>5, <1>10, <2>1 DEF CreateKnows
<1>12. DeleteKnows'
  BY <1>2, <1>5, <1>10 DEF DeleteKnows
<1>13. NatIsLive' /\ DnsmasqHasBridge'
  BY <1>2, <1>4, <1>5, <1>6 DEF NatIsLive, DnsmasqHasBridge
<1> QED
  BY <1>5, <1>7, <1>8, <1>9, <1>11, <1>12, <1>13

\* Steps that leave the bridges and their NAT rules alone.
LEMMA BridgesKept ==
  ASSUME BridgeIInv, UNCHANGED <<link, addr, dnsmasq, bridgeLock, bridgeCmd, lastIndex, ready, abandoned>>,
         \A r \in ruleset' : r \in ruleset \/ \A i : r.by # <<"nat", i>>,
         \A r \in ruleset : r \in ruleset' \/ \A i : r.by # <<"nat", i>>
  PROVE  BridgeIInv'
<1> USE DEF BridgeIInv
<1>4. Live' = Live
  BY DEF Live
<1>5. Nats' \subseteq Nats /\ NatNetwork'
  BY NatsShrink
<1>6. Nats \subseteq Nats'
  BY NatsStay
<1>7. BridgeTypeOK' /\ LockIsHeld'
  BY DEF BridgeTypeOK, LockIsHeld
<1>8. LinksAreOwn'
  BY <1>4 DEF LinksAreOwn
<1>9. BridgesDisjoint'
  BY <1>4, DisjointStays
<1>10. CreateKnows'
  <2>1. \A d \in Client : Conflict(bridgeCmd[d].net)' <=> Conflict(bridgeCmd[d].net)
    BY <1>4 DEF Conflict, Intersect, NetContains, Mask
  <2> QED
    BY <1>5, <2>1 DEF CreateKnows
<1>11. DeleteKnows'
  BY <1>5 DEF DeleteKnows
<1>12. NatIsLive' /\ DnsmasqHasBridge'
  BY <1>4, <1>5, <1>6 DEF NatIsLive, DnsmasqHasBridge
<1> QED
  BY <1>5, <1>7, <1>8, <1>9, <1>10, <1>11, <1>12

\* The commands on ports neither add nor delete a NAT rule.
LEMMA PortsKeepBridges ==
  ASSUME PortIInv, BridgeIInv, PortNext, UNCHANGED bridgeVars
  PROVE  BridgeIInv'
<1>1. UNCHANGED <<link, addr, dnsmasq, bridgeLock, bridgeCmd, lastIndex, ready, abandoned>>
  BY DEF bridgeVars
<1>2. PICK c \in Client :
      \/ \E p \in OpenPort : OpenFind(c, p) \/ DropFind(c, p)
      \/ OpenApply(c) \/ OpenFails(c) \/ DropOne(c) \/ DropFails(c) \/ DropDone(c)
  BY DEF PortNext
<1>3. (\A r \in ruleset' : r \in ruleset \/ \A i : r.by # <<"nat", i>>)
      /\ (\A r \in ruleset : r \in ruleset' \/ \A i : r.by # <<"nat", i>>)
  <2>1. CASE ruleset' = ruleset
    BY <2>1
  <2>2. CASE OpenApply(c)
    <3> DEFINE r == [handle |-> lastHandle + 1, chain |-> "filter/input", expr |-> PortExpr(portCmd[c].port),
                     by |-> <<"port", portCmd[c].port>>]
    <3>1. ruleset' = ruleset \cup {r}
      BY <2>2 DEF OpenApply, Apply
    <3>2. \A i : r.by # <<"nat", i>>
      OBVIOUS
    <3> HIDE DEF r
    <3> QED
      BY <3>1, <3>2
  <2>3. CASE DropOne(c)
    <3> DEFINE h == Min(portCmd[c].todo)
    <3>1. portCmd[c].op = "drop" /\ portCmd[c].todo # {} /\ ruleset' = {r \in ruleset : r.handle # h}
      BY <2>3 DEF DropOne
    <3>2. portCmd[c].todo \in SUBSET Nat
      BY <3>1 DEF PortIInv, PortCommand, Idle
    <3>3. h \in portCmd[c].todo
      BY <3>1, <3>2, MinIsMember
    <3> HIDE DEF h
    <3>4. \A r \in ruleset : r.handle = h => r.by = <<"port", portCmd[c].port>>
      BY <3>1, <3>3 DEF PortIInv, DropsOwn
    <3>5. \A r \in ruleset : r.handle = h => \A i : r.by # <<"nat", i>>
      BY <3>4
    <3> QED
      BY <3>1, <3>5
  <2> QED
    BY <1>2, <2>1, <2>2, <2>3 DEF OpenFind, DropFind, OpenFails, DropFails, DropDone, kernelRules
<1> QED
  BY <1>1, <1>3, BridgesKept

\* Every step of a command on bridges keeps both invariants.
LEMMA BridgeNextIInv ==
  ASSUME PortIInv, BridgeIInv, BridgeNext PROVE BridgeIInv'
BY CreateLinkIInv, CreateNftIInv, CreateConflictIInv, CreateAddrIInv, CreateDnsmasqIInv, CreateNatIInv,
   DeleteLookupIInv, DeleteNatIInv, DeleteLinkIInv, DeleteRulesIInv, DnsmasqExitsIInv DEF BridgeNext

\* At first there are the rules of boot and no bridges.
LEMMA FirewallInit == ASSUME NftInit, BridgeInit PROVE FirewallIInv
<1>1. /\ ruleset = {[handle |-> 0, chain |-> "filter/input", expr |-> {e}, by |-> <<"boot", 0>>] : e \in BaseExpr}
      /\ lastHandle = 0 /\ portCmd = [c \in Client |-> Idle] /\ closed = {}
  BY DEF NftInit
<1>2. \A r \in ruleset : r.handle = 0 /\ r.by = <<"boot", 0>>
  BY <1>1
<1>3. \A r \in ruleset : BootRule(r)
  <2> SUFFICES ASSUME NEW e \in BaseExpr, NEW r, r = [handle |-> 0, chain |-> "filter/input", expr |-> {e}, by |-> <<"boot", 0>>]
               PROVE  BootRule(r)
    BY <1>1, Zenon
  <2>1. r.handle = 0 /\ r.by = <<"boot", 0>> /\ r.expr = {e}
    OBVIOUS
  <2> QED
    BY <2>1 DEF BootRule
<1>4. BootRulesStay
  <2>1. {q \in ruleset : q.by = <<"boot", 0>>} = ruleset
    BY <1>2
  <2>2. \A r \in ruleset : \E e \in BaseExpr : r.expr = {e}
    BY <1>3 DEF BootRule
  <2>3. ASSUME NEW e \in BaseExpr PROVE \E r \in ruleset : r.expr = {e}
    <3> DEFINE r == [handle |-> 0, chain |-> "filter/input", expr |-> {e}, by |-> <<"boot", 0>>]
    <3>1. r \in ruleset
      BY <1>1, Zenon
    <3>2. r.expr = {e}
      OBVIOUS
    <3> QED
      BY <3>1, <3>2, Zenon
  <2>4. \A x : x \in {r.expr : r \in ruleset} <=> x \in {{e} : e \in BaseExpr}
    <3>1. \A x : x \in {r.expr : r \in ruleset} <=> \E r \in ruleset : x = r.expr
      BY Zenon
    <3>2. \A x : x \in {{e} : e \in BaseExpr} <=> \E e \in BaseExpr : x = {e}
      BY Zenon
    <3>3. ASSUME NEW r \in ruleset PROVE \E e \in BaseExpr : r.expr = {e}
      BY <2>2
    <3>4. ASSUME NEW x, NEW r \in ruleset, x = r.expr PROVE \E e \in BaseExpr : x = {e}
      BY <3>3, <3>4
    <3>5. ASSUME NEW x, NEW e \in BaseExpr, x = {e} PROVE \E r \in ruleset : x = r.expr
      <4>1. PICK r \in ruleset : r.expr = {e}
        BY <2>3
      <4> QED
        BY <3>5, <4>1
    <3> HIDE DEF BaseExpr
    <3> QED
      BY <3>1, <3>2, <3>4, <3>5
  <2>5. {r.expr : r \in ruleset} = {{e} : e \in BaseExpr}
    BY <2>4, Zenon
  <2> QED
    BY <2>1, <2>5, Zenon DEF BootRulesStay
<1>5. RulesIInv
  BY <1>1, <1>2, <1>3, <1>4 DEF RulesIInv, RulesAreKnown, HandlesAreOwn
<1>6. PortIInv
  BY <1>1, <1>5 DEF PortIInv, PortCommand, DropsOwn, DropsAll, DropCloses, Idle
<1>7. \A r \in ruleset : \A i : r.by # <<"nat", i>>
  BY <1>2
<1>8. Nats = {} /\ NatNetwork
  BY <1>7 DEF Nats, NatNetwork
<1>9. /\ link = [b \in BridgeName |-> 0] /\ addr = [i \in 1 .. MaxIndex |-> None]
      /\ dnsmasq = [b \in BridgeName |-> Off] /\ bridgeLock = None /\ lastIndex = 0
      /\ bridgeCmd = [c \in Client |-> Idle] /\ ready = {} /\ abandoned = {}
  BY DEF BridgeInit
<1>10. Live = {}
  BY <1>9 DEF Live
<1>11. BridgeTypeOK
  BY <1>9, BridgeAssumption DEF BridgeTypeOK, BridgeCommand
<1>12. \A c \in Client : bridgeCmd[c].op = "idle"
  BY <1>9 DEF Idle
<1>13. LockIsHeld /\ CreateKnows /\ DeleteKnows
  BY <1>9, <1>12, NftAssumption DEF LockIsHeld, CreateKnows, DeleteKnows
<1>14. LinksAreOwn
  BY <1>9 DEF LinksAreOwn, Off
<1>15. NatIsLive /\ BridgesDisjoint /\ DnsmasqHasBridge
  BY <1>8, <1>9, <1>10 DEF NatIsLive, BridgesDisjoint, DnsmasqHasBridge, Off
<1> QED
  BY <1>6, <1>8, <1>11, <1>13, <1>14, <1>15 DEF FirewallIInv, BridgeIInv

\* The invariant is what RulesFollowCommands asks for.
LEMMA RulesFollowIInv == ASSUME FirewallIInv PROVE RulesFollowCommands
<1>1. DropCloses /\ BootRulesStay /\ BridgesDisjoint /\ DnsmasqHasBridge
  BY DEF FirewallIInv, PortIInv, RulesIInv, BridgeIInv
<1>2. ASSUME NEW r \in ruleset, r.by[1] = "nat" PROVE r.by[2] \in Live
  <2>1. PICK i \in 1 .. MaxIndex : r.by = <<"nat", i>>
    BY <1>2, Kinds DEF FirewallIInv, PortIInv, RulesIInv, RulesAreKnown
  <2>2. i \in Live
    BY <2>1, Zenon DEF FirewallIInv, BridgeIInv, NatIsLive, Nats
  <2> QED
    BY <2>1, <2>2
<1>3. ASSUME NEW i \in ready PROVE \E r \in ruleset : r.by = <<"nat", i>>
  BY <1>3, Zenon DEF FirewallIInv, BridgeIInv, NatIsLive, Nats
<1> QED
  BY <1>1, <1>2, <1>3, Zenon DEF RulesFollowCommands, NatFollowsBridge

\* RulesFollowCommands of Bridge.tla, for any number of clients, ports, bridges and
\* networks: the rules of boot stay, drop closes a port that nobody opens meanwhile, a
\* bridge that is ready has its NAT rule and no deleted bridge has one, networks of
\* bridges share no address, and a dnsmasq that runs has its bridge.
THEOREM RulesFollow == FirewallSpec => []RulesFollowCommands
<1>1. NftInit /\ BridgeInit => FirewallIInv
  BY FirewallInit
<1>2. FirewallIInv /\ [FirewallNext]_FirewallVars => FirewallIInv'
  <2> SUFFICES ASSUME FirewallIInv, [FirewallNext]_FirewallVars PROVE FirewallIInv'
    OBVIOUS
  <2> USE DEF FirewallIInv
  <2>1. CASE PortNext /\ UNCHANGED bridgeVars
    BY <2>1, PortNextIInv, PortsKeepBridges
  <2>2. CASE BridgeNext /\ UNCHANGED <<portCmd, closed>>
    BY <2>2, BridgeNextIInv, BridgeKeepsPorts
  <2>3. CASE UNCHANGED FirewallVars
    <3>1. UNCHANGED <<ruleset, lastHandle, portCmd, closed>> /\ UNCHANGED <<link, addr, dnsmasq, bridgeLock, bridgeCmd, lastIndex, ready, abandoned>>
      BY <2>3 DEF FirewallVars, nftVars, kernelRules, bridgeVars
    <3>2. PortIInv'
      <4>1. RulesIInv /\ lastHandle \in Nat
        BY DEF PortIInv, RulesIInv
      <4>2. RulesIInv'
        BY <3>1, <4>1, RulesRemove
      <4> QED
        BY <3>1, <4>1, <4>2, PortKept
    <3>3. BridgeIInv'
      BY <3>1, BridgesKept
    <3> QED
      BY <3>2, <3>3
  <2> QED
    BY <2>1, <2>2, <2>3 DEF FirewallNext
<1>3. FirewallIInv => RulesFollowCommands
  BY RulesFollowIInv
<1> QED
  BY <1>1, <1>2, <1>3, PTL DEF FirewallSpec

-----------------------------------------------------------------------------
(* Port forwards.                                                          *)

\* Rules and forwards are of the sources and destinations there are.
ForwardTypeOK ==
  /\ rules \subseteq [ns : NS, from : {Canonical(s.from) : s \in Source}, port : Port,
                      protocol : Protocol, dest : Dest]
  /\ forwards \subseteq [ns : NS, source : Source, dest : Dest]
  /\ reserved \subseteq Port /\ listening \subseteq Port

\* The rules of a port were set by one call.
PortIsOfOne ==
  \A q, r \in rules : q.port = r.port => q.ns = r.ns /\ q.dest = r.dest /\ q.from = r.from

\* Where no removal failed, the rules are those of the forwards, of which no two
\* have one port.
RulesAreForwards ==
  /\ \A f \in forwards : f.source.port \notin broken => Rules(f.ns, f.source, f.dest) \subseteq rules
  /\ \A r \in rules : r.port \notin broken => \E f \in forwards : r \in Rules(f.ns, f.source, f.dest)
  /\ \A f, g \in forwards : f.source.port = g.source.port /\ f.source.port \notin broken => f = g

\* Who holds a port is told by the reservations.
ClaimsAreReserved == claims = [p \in Port |-> IF p \in reserved THEN 1 ELSE 0]

\* The inductive invariant of the forwards.
ForwardIInv ==
  /\ ForwardTypeOK /\ PortIsOfOne /\ RulesAreForwards /\ ClaimsAreReserved /\ HostSetIsCurrent

\* The fields of a rule that a forward asks for.
LEMMA RuleFields ==
  ASSUME NEW ns, NEW s, NEW d, NEW r
  PROVE  r \in Rules(ns, s, d) <=>
           \E p \in s.protocols :
             r = [ns |-> ns, from |-> Canonical(s.from), port |-> s.port, protocol |-> p, dest |-> d]
BY DEF Rules

\* A rule of a forward has the namespace, the port and the destination of the forward.
LEMMA RuleIsOf ==
  ASSUME NEW ns, NEW s, NEW d, NEW r \in Rules(ns, s, d)
  PROVE  /\ r.ns = ns /\ r.from = Canonical(s.from) /\ r.port = s.port /\ r.dest = d
         /\ r.protocol \in s.protocols
BY RuleFields

\* SetPortForward adds rules for a port that no rule has.
LEMMA SetIInv ==
  ASSUME ForwardIInv, NEW ns \in NS, NEW s \in Source, NEW d \in Dest, SetPortForward(ns, s, d)
  PROVE  ForwardIInv'
<1> DEFINE f == [ns |-> ns, source |-> s, dest |-> d]
<1>1. /\ s.protocols \subseteq Protocol /\ s.port \in 1 .. LastPort /\ \A r \in rules : r.port # s.port
      /\ rules' = rules \cup Rules(ns, s, d) /\ reserved' = reserved \ {s.port}
      /\ forwards' = forwards \cup {f} /\ claims' = [claims EXCEPT ![s.port] = 0]
      /\ UNCHANGED <<listening, hostSet, current, addrs, broken, stuck>>
  BY DEF SetPortForward, CanSet, ValidHost, Taken
<1>2. f.ns = ns /\ f.source = s /\ f.dest = d /\ f \in [ns : NS, source : Source, dest : Dest]
  OBVIOUS
<1> HIDE DEF f
<1> USE DEF ForwardIInv
<1>3. s.port \in Port /\ s.protocols # {}
  BY <1>1, PortAssumption DEF Port
<1>4. Rules(ns, s, d) \subseteq [ns : NS, from : {Canonical(t.from) : t \in Source}, port : Port,
                                 protocol : Protocol, dest : Dest]
  BY <1>1, <1>3 DEF Rules
<1>5. ForwardTypeOK'
  BY <1>1, <1>2, <1>4 DEF ForwardTypeOK
<1>6. PortIsOfOne'
  BY <1>1, RuleIsOf DEF PortIsOfOne
<1>7. RulesAreForwards'
  <2>1. ASSUME NEW g \in forwards, g.source.port \notin broken PROVE g.source.port # s.port
    <3>1. g.source \in Source
      BY DEF ForwardTypeOK
    <3>2. PICK p \in g.source.protocols : TRUE
      BY <3>1, PortAssumption
    <3> DEFINE r == [ns |-> g.ns, from |-> Canonical(g.source.from), port |-> g.source.port, protocol |-> p,
                     dest |-> g.dest]
    <3>3. r \in rules /\ r.port = g.source.port
      BY <2>1, RuleFields DEF RulesAreForwards
    <3> QED
      BY <1>1, <3>3
  <2>2. \A g \in forwards' : g.source.port \notin broken' => Rules(g.ns, g.source, g.dest) \subseteq rules'
    BY <1>1, <1>2 DEF RulesAreForwards
  <2>3. \A r \in rules' : r.port \notin broken' => \E g \in forwards' : r \in Rules(g.ns, g.source, g.dest)
    BY <1>1, <1>2 DEF RulesAreForwards
  <2>4. \A g, h \in forwards' : g.source.port = h.source.port /\ g.source.port \notin broken' => g = h
    BY <1>1, <1>2, <2>1 DEF RulesAreForwards
  <2> QED
    BY <2>2, <2>3, <2>4 DEF RulesAreForwards, Rules
<1>8. ClaimsAreReserved'
  BY <1>1, <1>3 DEF ClaimsAreReserved
<1>9. HostSetIsCurrent'
  BY <1>1 DEF HostSetIsCurrent
<1> QED
  BY <1>5, <1>6, <1>7, <1>8, <1>9

\* A removal of all rules a namespace has, of a port or of all ports.
LEMMA DropIInv ==
  ASSUME ForwardIInv, NEW rs \in SUBSET rules, DropRules(rs),
         \A q, r \in rules : q \in rs /\ r.ns = q.ns /\ r.port = q.port => r \in rs
  PROVE  ForwardIInv'
<1> PICK dropped \in SUBSET rs :
      /\ rules' = rules \ dropped
      /\ broken' = broken \cup {r.port : r \in rs \ dropped}
      /\ forwards' = {f \in forwards : \A r \in rs : ~(r.ns = f.ns /\ r.port = f.source.port)}
      /\ UNCHANGED <<reserved, listening, hostSet, current, addrs, claims, stuck>>
  BY DEF DropRules
<1> USE DEF ForwardIInv
<1>1. ForwardTypeOK' /\ PortIsOfOne'
  BY DEF ForwardTypeOK, PortIsOfOne
<1>2. ClaimsAreReserved' /\ HostSetIsCurrent'
  BY DEF ClaimsAreReserved, HostSetIsCurrent
<1>3. \A r \in rules' : r.port \notin broken' => r \notin rs /\ r \in rules /\ r.port \notin broken
  OBVIOUS
<1>4. \A f \in forwards' : f.source.port \notin broken' => Rules(f.ns, f.source, f.dest) \subseteq rules'
  BY RuleIsOf DEF RulesAreForwards
<1>5. \A r \in rules' : r.port \notin broken' => \E f \in forwards' : r \in Rules(f.ns, f.source, f.dest)
  <2> SUFFICES ASSUME NEW r \in rules', r.port \notin broken'
               PROVE  \E f \in forwards' : r \in Rules(f.ns, f.source, f.dest)
    OBVIOUS
  <2>1. PICK f \in forwards : r \in Rules(f.ns, f.source, f.dest)
    BY <1>3 DEF RulesAreForwards
  <2>2. r.ns = f.ns /\ r.port = f.source.port
    BY <2>1, RuleIsOf
  <2>3. f \in forwards'
    BY <1>3, <2>2
  <2> QED
    BY <2>1, <2>3
<1>6. \A f, g \in forwards' : f.source.port = g.source.port /\ f.source.port \notin broken' => f = g
  BY DEF RulesAreForwards
<1>7. RulesAreForwards'
  BY <1>4, <1>5, <1>6 DEF RulesAreForwards, Rules
<1> QED
  BY <1>1, <1>2, <1>7

\* Reserve looks for a port that is free, and below its range only when the range
\* is in use.
LEMMA NextFreeIsFree ==
  ASSUME NEW taken, Port \ taken # {}
  PROVE  /\ NextFree(taken) \in Port \ taken
         /\ NextFree(taken) < FirstPort => FirstPort .. LastPort \subseteq taken
<1> DEFINE free == Port \ taken
           up == {q \in free : q >= FirstPort}
<1>1. free \in SUBSET Nat /\ up \in SUBSET Nat /\ LastPort \in Nat /\ FirstPort \in Nat
  BY PortAssumption DEF Port
<1>2. NextFree(taken) = IF up # {} THEN Min(up) ELSE Min(free)
  BY DEF NextFree
<1>3. free # {} /\ Min(free) \in free
  BY <1>1, MinIsMember
<1>4. up # {} => Min(up) \in up
  BY <1>1, MinIsMember
<1>5. up = {} => FirstPort .. LastPort \subseteq taken
  BY <1>1 DEF Port
<1> QED
  BY <1>1, <1>2, <1>3, <1>4, <1>5

\* The recursive function of Picked: the ports reserved after each turn of the loop.
PickedSoFar(n) ==
  CHOOSE f : f = [i \in 0 .. n |-> IF i = 0 THEN {} ELSE
                    LET p == NextFree(Unavailable \cup f[i - 1])
                    IN  IF p = LastPort THEN f[i - 1] ELSE f[i - 1] \cup {p}]

\* It exists, so that it has the values its definition says.
LEMMA PickedSteps ==
  ASSUME NEW n \in Nat
  PROVE  /\ PickedSoFar(n)[0] = {}
         /\ \A i \in 1 .. n : LET p == NextFree(Unavailable \cup PickedSoFar(n)[i - 1]) IN
              \/ PickedSoFar(n)[i] = PickedSoFar(n)[i - 1]
              \/ PickedSoFar(n)[i] = PickedSoFar(n)[i - 1] \cup {p}
<1> DEFINE got == PickedSoFar(n)
           Step(S) == LET p == NextFree(Unavailable \cup S) IN IF p = LastPort THEN S ELSE S \cup {p}
           Sat(m, f) == f = [i \in 0 .. m |-> IF i = 0 THEN {} ELSE Step(f[i - 1])]
           Bad == {m \in 0 .. n : ~ \E f : Sat(m, f)}
<1>1. Sat(0, [i \in 0 .. 0 |-> {}])
  OBVIOUS
<1>2. ASSUME NEW m \in 0 .. n, m # 0, NEW f, Sat(m - 1, f) PROVE \E g : Sat(m, g)
  <2> DEFINE g == [i \in 0 .. m |-> IF i = m THEN Step(f[m - 1]) ELSE f[i]]
  <2> HIDE DEF Step
  <2>1. ASSUME NEW i \in 0 .. m PROVE g[i] = IF i = 0 THEN {} ELSE Step(g[i - 1])
    <3>1. \A j \in 0 .. m - 1 : f[j] = IF j = 0 THEN {} ELSE Step(f[j - 1])
      BY <1>2, Zenon
    <3>2. CASE i = m
      <4>1. m - 1 \in 0 .. m /\ m - 1 # m
        BY <1>2
      <4>2. g[m - 1] = f[m - 1] /\ g[m] = Step(f[m - 1])
        BY <4>1
      <4> QED
        BY <1>2, <3>2, <4>2
    <3>3. CASE i # m
      <4>1. i \in 0 .. m - 1 /\ (i # 0 => i - 1 \in 0 .. m /\ i - 1 # m)
        BY <2>1, <3>3
      <4>2. g[i] = f[i] /\ (i # 0 => g[i - 1] = f[i - 1])
        BY <3>3, <4>1
      <4>3. f[i] = IF i = 0 THEN {} ELSE Step(f[i - 1])
        BY <3>1, <4>1
      <4> QED
        BY <4>2, <4>3, Zenon
    <3> QED
      BY <3>2, <3>3
  <2>2. g = [i \in 0 .. m |-> IF i = 0 THEN {} ELSE Step(g[i - 1])]
    BY <2>1
  <2> QED
    BY <2>2
<1>3. Bad = {}
  <2> SUFFICES ASSUME Bad # {} PROVE FALSE
    OBVIOUS
  <2> HIDE DEF Sat
  <2> DEFINE m == Min(Bad)
  <2>1. Bad \in SUBSET Nat
    OBVIOUS
  <2> HIDE DEF Bad
  <2>2. m \in Bad /\ \A k \in Bad : m <= k
    BY <2>1, MinIsMember
  <2>3. m \in 0 .. n /\ ~ \E f : Sat(m, f)
    BY <2>2 DEF Bad
  <2> HIDE DEF m
  <2>4. m # 0
    BY <1>1, <2>3
  <2>5. m - 1 \in 0 .. n /\ m - 1 \notin Bad
    BY <2>2, <2>3, <2>4
  <2>6. PICK f : Sat(m - 1, f)
    BY <2>5 DEF Bad
  <2> QED
    BY <1>2, <2>3, <2>4, <2>6
<1>4. \E f : Sat(n, f)
  <2>1. n \in 0 .. n
    OBVIOUS
  <2> HIDE DEF Sat
  <2> QED
    BY <1>3, <2>1, Zenon
<1>5. Sat(n, got)
  <2>1. got = CHOOSE f : Sat(n, f)
    BY DEF PickedSoFar
  <2> HIDE DEF Sat
  <2> QED
    BY <1>4, <2>1
<1>6. got[0] = {} /\ \A i \in 1 .. n : got[i] = Step(got[i - 1])
  <2> HIDE DEF Step
  <2>1. \A i \in 0 .. n : got[i] = IF i = 0 THEN {} ELSE Step(got[i - 1])
    BY <1>5, Zenon
  <2>2. 0 \in 0 .. n /\ \A i \in 1 .. n : i \in 0 .. n /\ i # 0
    OBVIOUS
  <2> QED
    BY <2>1, <2>2
<1> QED
  BY <1>6

\* What Reserve picks is free, and below its range only when that is in use.
LEMMA PickedIsFree ==
  ASSUME NEW n \in Nat, Cardinality(Port \ Unavailable) >= n
  PROVE  /\ Picked(n) \subseteq Port \ Unavailable
         /\ \A p \in Picked(n) : p < FirstPort => FirstPort .. LastPort \subseteq Unavailable \cup Picked(n)
<1> DEFINE got == PickedSoFar(n)
           Good(i) == /\ got[i] \subseteq Port \ Unavailable /\ Cardinality(got[i]) <= i
                      /\ \A p \in got[i] : p < FirstPort => FirstPort .. LastPort \subseteq Unavailable \cup got[i]
           Bad == {m \in 0 .. n : ~Good(m)}
<1>1. Picked(n) = got[n]
  BY DEF Picked, PickedSoFar
<1>2. /\ got[0] = {}
      /\ \A i \in 1 .. n : LET p == NextFree(Unavailable \cup got[i - 1]) IN
           got[i] = got[i - 1] \/ got[i] = got[i - 1] \cup {p}
  BY PickedSteps, Zenon
<1> HIDE DEF got
<1>3. IsFiniteSet(Port) /\ IsFiniteSet(Port \ Unavailable)
  <2>1. 0 \in Int /\ LastPort \in Int
    BY PortAssumption
  <2>2. IsFiniteSet(0 .. LastPort)
    BY <2>1, FS_Interval
  <2> QED
    BY <2>2, FS_Subset DEF Port
<1>4. Good(0)
  BY <1>2, FS_EmptySet
<1>5. ASSUME NEW m \in 1 .. n, Good(m - 1) PROVE Good(m)
  <2> DEFINE S == got[m - 1]
             p == NextFree(Unavailable \cup S)
  <2>1. S \subseteq Port \ Unavailable /\ IsFiniteSet(S) /\ Cardinality(S) <= m - 1 /\ Cardinality(S) \in Nat
    BY <1>3, <1>5, FS_Subset, FS_CardinalityType
  <2>2. S # Port \ Unavailable
    BY <2>1
  <2>3. Port \ (Unavailable \cup S) # {}
    BY <2>1, <2>2
  <2>4. p \in Port \ (Unavailable \cup S) /\ (p < FirstPort => FirstPort .. LastPort \subseteq Unavailable \cup S)
    BY <2>3, NextFreeIsFree
  <2>5. got[m] = S \/ got[m] = S \cup {p}
    BY <1>2
  <2>6. Cardinality(S \cup {p}) <= m
    BY <2>1, FS_AddElement, SMTT(30)
  <2> HIDE DEF p
  <2>7. CASE got[m] = S
    BY <1>5, <2>1, <2>7
  <2>8. CASE got[m] = S \cup {p}
    BY <1>5, <2>1, <2>4, <2>6, <2>8
  <2> QED
    BY <2>5, <2>7, <2>8
<1>6. Bad = {}
  <2> SUFFICES ASSUME Bad # {} PROVE FALSE
    OBVIOUS
  <2> HIDE DEF Good
  <2> DEFINE m == Min(Bad)
  <2>1. Bad \in SUBSET Nat
    OBVIOUS
  <2> HIDE DEF Bad
  <2>2. m \in Bad /\ \A k \in Bad : m <= k
    BY <2>1, MinIsMember
  <2>3. m \in 0 .. n /\ ~Good(m)
    BY <2>2 DEF Bad
  <2> HIDE DEF m
  <2>4. m \in 1 .. n
    BY <1>4, <2>3
  <2>5. m - 1 \in 0 .. n /\ m - 1 \notin Bad
    BY <2>2, <2>4
  <2> QED
    BY <1>5, <2>3, <2>4, <2>5 DEF Bad
<1>7. Good(n)
  <2> HIDE DEF Good
  <2> QED
    BY <1>6 DEF Bad
<1> QED
  BY <1>1, <1>7

\* Every step keeps the invariant.
LEMMA ForwardStepIInv == ASSUME ForwardIInv, ForwardStep PROVE ForwardIInv'
<1>1. ASSUME NEW ns \in NS, NEW s \in Source, RemovePortForward(ns, s) PROVE ForwardIInv'
  <2> DEFINE rs == {r \in OfNamespace(ns) : r.port = s.port}
  <2>1. DropRules(rs) /\ rs \in SUBSET rules
    BY <1>1 DEF RemovePortForward, OfNamespace
  <2>2. \A q, r \in rules : q \in rs /\ r.ns = q.ns /\ r.port = q.port => r \in rs
    BY DEF OfNamespace
  <2> QED
    BY <2>1, <2>2, DropIInv
<1>2. ASSUME NEW ns \in NS, RemoveAll(ns) PROVE ForwardIInv'
  <2>1. DropRules(OfNamespace(ns)) /\ OfNamespace(ns) \in SUBSET rules
    BY <1>2 DEF RemoveAll, OfNamespace
  <2>2. \A q, r \in rules : q \in OfNamespace(ns) /\ r.ns = q.ns /\ r.port = q.port => r \in OfNamespace(ns)
    BY DEF OfNamespace
  <2> QED
    BY <2>1, <2>2, DropIInv
<1> USE DEF ForwardIInv
<1>3. ASSUME NEW n \in 1 .. MaxReserve, Reserve(n) PROVE ForwardIInv'
  <2>1. /\ Cardinality(Port \ Unavailable) >= n
        /\ reserved' = reserved \cup Picked(n)
        /\ claims' = [p \in Port |-> IF p \in Picked(n) THEN claims[p] + 1 ELSE claims[p]]
        /\ UNCHANGED <<rules, listening, hostSet, current, addrs, forwards, broken, stuck>>
    BY <1>3 DEF Reserve
  <2>2. Picked(n) \subseteq Port \ Unavailable
    <3>1. n \in Nat
      BY PortAssumption
    <3> QED
      BY <2>1, <3>1, PickedIsFree
  <2>3. \A p \in Picked(n) : p \in Port /\ p \notin reserved
    BY <2>2 DEF Unavailable
  <2>4. ClaimsAreReserved'
    BY <2>1, <2>3 DEF ClaimsAreReserved
  <2>5. ForwardTypeOK' /\ PortIsOfOne' /\ HostSetIsCurrent'
    BY <2>1, <2>3 DEF ForwardTypeOK, PortIsOfOne, HostSetIsCurrent
  <2>6. RulesAreForwards'
    BY <2>1 DEF RulesAreForwards, Rules
  <2> QED
    BY <2>4, <2>5, <2>6
<1>4. ASSUME NEW p \in Port, ExpireReservation(p) \/ Listen(p) PROVE ForwardIInv'
  <2>1. UNCHANGED <<rules, hostSet, current, addrs, forwards, broken, stuck>>
        /\ reserved' \subseteq reserved /\ listening' \subseteq listening \cup {p}
    BY <1>4 DEF ExpireReservation, Listen
  <2>2. ClaimsAreReserved'
    BY <1>4 DEF ExpireReservation, Listen, ClaimsAreReserved
  <2>3. ForwardTypeOK' /\ PortIsOfOne' /\ HostSetIsCurrent'
    BY <2>1 DEF ForwardTypeOK, PortIsOfOne, HostSetIsCurrent
  <2>4. RulesAreForwards'
    BY <2>1 DEF RulesAreForwards, Rules
  <2> QED
    BY <2>2, <2>3, <2>4
<1>5. ASSUME MonitorNext PROVE ForwardIInv'
  <2>1. UNCHANGED <<rules, reserved, listening, forwards, broken, claims>>
    BY <1>5 DEF MonitorNext, Notify, AddressChanges
  <2>2. ForwardTypeOK' /\ PortIsOfOne' /\ ClaimsAreReserved'
    BY <2>1 DEF ForwardTypeOK, PortIsOfOne, ClaimsAreReserved
  <2>3. RulesAreForwards'
    BY <2>1 DEF RulesAreForwards, Rules
  <2>4. HostSetIsCurrent'
    BY <1>5 DEF MonitorNext, Notify, AddressChanges, HostSetIsCurrent, Gone
  <2> QED
    BY <2>2, <2>3, <2>4
<1> QED
  BY <1>1, <1>2, <1>3, <1>4, <1>5, SetIInv DEF ForwardStep, ForwardNext

\* There are no rules and no reservations at first.
LEMMA ForwardInitIInv == ForwardInit => ForwardIInv
BY DEF ForwardInit, ForwardIInv, ForwardTypeOK, PortIsOfOne, RulesAreForwards, ClaimsAreReserved, HostSetIsCurrent

\* What rulesFromMatches makes of the rules that have the port of r.
Protocols(rs, port) == {q.protocol : q \in {x \in rs : x.port = port}}
Entry(rs, r) ==
  [ns |-> r.ns, dest |-> r.dest,
   source |-> [from |-> r.from, port |-> r.port, protocols |-> Protocols(rs, r.port)]]

\* Grouping rules by port gives one entry for each rule, with all protocols of its port.
LEMMA Groups ==
  ASSUME PortIsOfOne, NEW rs \in SUBSET rules
  PROVE  RulesFromMatches(rs) = {Entry(rs, r) : r \in rs}
<1> DEFINE One(p) == CHOOSE r \in {x \in rs : x.port = p} : TRUE
           Made(p) == [ns |-> One(p).ns, dest |-> One(p).dest,
                       source |-> [from |-> One(p).from, port |-> p, protocols |-> Protocols(rs, p)]]
<1>1. RulesFromMatches(rs) = {Made(p) : p \in {r.port : r \in rs}}
  BY Zenon DEF RulesFromMatches, Protocols
<1>2. ASSUME NEW r \in rs PROVE Made(r.port) = Entry(rs, r)
  <2>1. One(r.port) \in {x \in rs : x.port = r.port}
    OBVIOUS
  <2>2. One(r.port).ns = r.ns /\ One(r.port).dest = r.dest /\ One(r.port).from = r.from
    BY <2>1 DEF PortIsOfOne
  <2> QED
    BY <2>2, Zenon DEF Entry
<1> HIDE DEF Made
<1>3. \A x : x \in {Made(p) : p \in {r.port : r \in rs}} <=> \E r \in rs : x = Made(r.port)
  BY Zenon
<1>4. \A x : x \in {Entry(rs, r) : r \in rs} <=> \E r \in rs : x = Entry(rs, r)
  BY Zenon
<1> QED
  BY <1>1, <1>2, <1>3, <1>4, Zenon

\* What was set is what is listed.
LEMMA ListedIsSet ==
  ASSUME ForwardIInv, NEW ns \in NS
  PROVE  /\ {f \in List(ns) : f.source.port \notin broken} =
              {[source |-> [f.source EXCEPT !.from = Canonical(f.source.from)], dest |-> f.dest] :
                 f \in {g \in forwards : g.ns = ns /\ g.source.port \notin broken}}
         /\ List(ns) = {[source |-> f.source, dest |-> f.dest] :
                          f \in {g \in ListAll(ns.sys) : g.ns = ns}}
<1> USE DEF ForwardIInv
<1> DEFINE rs == OfNamespace(ns)
           Shown(r) == [source |-> Entry(rs, r).source, dest |-> Entry(rs, r).dest]
           Given(f) == [source |-> [f.source EXCEPT !.from = Canonical(f.source.from)], dest |-> f.dest]
<1>1. rs \in SUBSET rules /\ \A r : r \in rs <=> r \in rules /\ r.ns = ns
  BY DEF OfNamespace
<1>2. RulesFromMatches(rs) = {Entry(rs, r) : r \in rs} /\ RulesFromMatches(rules) = {Entry(rules, r) : r \in rules}
  BY <1>1, Groups
<1>3. \A x : x \in List(ns) <=> \E r \in rs : x = Shown(r)
  BY <1>2, Zenon DEF List
<1>4. ASSUME NEW r \in rs PROVE Entry(rules, r) = Entry(rs, r)
  <2>1. {x \in rules : x.port = r.port} = {x \in rs : x.port = r.port}
    BY <1>1 DEF PortIsOfOne
  <2> QED
    BY <2>1, Zenon DEF Entry, Protocols
<1>5. \A rr, r : /\ Entry(rr, r).ns = r.ns /\ Entry(rr, r).dest = r.dest
                 /\ Entry(rr, r).source = [from |-> r.from, port |-> r.port, protocols |-> Protocols(rr, r.port)]
  BY DEF Entry
<1> HIDE DEF rs
<1>6. List(ns) = {[source |-> f.source, dest |-> f.dest] : f \in {g \in ListAll(ns.sys) : g.ns = ns}}
  <2>1. \A f : f \in {g \in ListAll(ns.sys) : g.ns = ns} <=> \E r \in rs : f = Entry(rs, r)
    BY <1>1, <1>2, <1>4, <1>5 DEF ListAll
  <2>2. \A x : x \in {[source |-> f.source, dest |-> f.dest] : f \in {g \in ListAll(ns.sys) : g.ns = ns}} <=>
               \E f : f \in {g \in ListAll(ns.sys) : g.ns = ns} /\ x = [source |-> f.source, dest |-> f.dest]
    BY Zenon
  <2>3. \A x : x \in {[source |-> f.source, dest |-> f.dest] : f \in {g \in ListAll(ns.sys) : g.ns = ns}} <=>
               \E r \in rs : x = Shown(r)
    <3> DEFINE All == {g \in ListAll(ns.sys) : g.ns = ns}
    <3> HIDE DEF All
    <3>1. \A r : Shown(r) = [source |-> Entry(rs, r).source, dest |-> Entry(rs, r).dest]
      OBVIOUS
    <3> HIDE DEF Shown
    <3>2. \A f : f \in All <=> \E r \in rs : f = Entry(rs, r)
      BY <2>1, Zenon DEF All
    <3>3. \A x : (\E f : f \in All /\ x = [source |-> f.source, dest |-> f.dest]) <=> \E r \in rs : x = Shown(r)
      BY <3>1, <3>2
    <3> QED
      BY <2>2, <3>3, Zenon DEF All
  <2>4. \A x : x \in List(ns) <=> x \in {[source |-> f.source, dest |-> f.dest] : f \in {g \in ListAll(ns.sys) : g.ns = ns}}
    BY <1>3, <2>3, Zenon
  <2> QED
    BY <2>4, Zenon
<1>7. ASSUME NEW f \in forwards, f.source.port \notin broken, NEW r \in Rules(f.ns, f.source, f.dest), r \in rs
      PROVE  Shown(r) =
             Given(f)
  <2>1. /\ r.ns = f.ns /\ r.from = Canonical(f.source.from) /\ r.port = f.source.port /\ r.dest = f.dest
    BY RuleIsOf
  <2>2. \A x \in {y \in rs : y.port = r.port} : x \in Rules(f.ns, f.source, f.dest)
    <3> SUFFICES ASSUME NEW x \in rs, x.port = r.port PROVE x \in Rules(f.ns, f.source, f.dest)
      OBVIOUS
    <3>1. PICK g \in forwards : x \in Rules(g.ns, g.source, g.dest)
      BY <1>1, <1>7, <2>1 DEF RulesAreForwards
    <3>2. x.port = g.source.port
      BY <3>1, RuleIsOf
    <3>3. g = f
      BY <1>7, <2>1, <3>2 DEF RulesAreForwards
    <3> QED
      BY <3>1, <3>3
  <2>3. ASSUME NEW p \in f.source.protocols PROVE p \in Protocols(rs, r.port)
    <3> DEFINE x == [ns |-> f.ns, from |-> Canonical(f.source.from), port |-> f.source.port, protocol |-> p, dest |-> f.dest]
    <3>1. x \in Rules(f.ns, f.source, f.dest)
      BY RuleFields
    <3>2. x \in rules
      BY <1>7, <3>1 DEF RulesAreForwards
    <3>3. x \in rs /\ x.port = r.port /\ x.protocol = p
      BY <1>1, <1>7, <2>1, <3>2
    <3> HIDE DEF x
    <3> QED
      BY <3>3 DEF Protocols
  <2>4. \A p \in Protocols(rs, r.port) : p \in f.source.protocols
    BY <2>2, RuleIsOf DEF Protocols
  <2>5. Protocols(rs, r.port) = f.source.protocols
    BY <2>3, <2>4
  <2>6. f.source = [from |-> f.source.from, port |-> f.source.port, protocols |-> f.source.protocols]
    BY PortAssumption DEF ForwardTypeOK
  <2>7. [f.source EXCEPT !.from = Canonical(f.source.from)] =
          [from |-> Canonical(f.source.from), port |-> f.source.port, protocols |-> f.source.protocols]
    BY <2>6
  <2>8. Entry(rs, r).source = [f.source EXCEPT !.from = Canonical(f.source.from)]
    BY <1>5, <2>1, <2>5, <2>7
  <2> QED
    BY <1>5, <2>1, <2>8, ZenonT(30)
<1>8. ASSUME NEW r \in rs, r.port \notin broken
      PROVE  \E f \in forwards : f.ns = ns /\ f.source.port \notin broken /\ r \in Rules(f.ns, f.source, f.dest)
  BY <1>1, <1>8, RuleIsOf DEF RulesAreForwards
<1>9. ASSUME NEW f \in forwards, f.ns = ns, f.source.port \notin broken
      PROVE  \E r \in rs : r.port \notin broken /\ r \in Rules(f.ns, f.source, f.dest)
  <2>1. PICK p \in f.source.protocols : TRUE
    BY PortAssumption DEF ForwardTypeOK
  <2> DEFINE x == [ns |-> f.ns, from |-> Canonical(f.source.from), port |-> f.source.port, protocol |-> p, dest |-> f.dest]
  <2>2. x \in Rules(f.ns, f.source, f.dest)
    BY RuleFields
  <2>3. x \in rules
    BY <1>9, <2>2 DEF RulesAreForwards
  <2>4. x \in rs /\ x.port \notin broken
    BY <1>1, <1>9, <2>3
  <2> QED
    BY <2>2, <2>4
<1>10. \A x : x \in {f \in List(ns) : f.source.port \notin broken} <=>
          \E r \in rs : r.port \notin broken /\ x = Shown(r)
  <2>1. ASSUME NEW r PROVE Shown(r).source.port = r.port
    <3>1. Shown(r).source = Entry(rs, r).source
      OBVIOUS
    <3>2. Entry(rs, r).source = [from |-> r.from, port |-> r.port, protocols |-> Protocols(rs, r.port)]
      BY <1>5
    <3>3. Entry(rs, r).source.port = r.port
      BY <3>2
    <3> QED
      BY <3>1, <3>3
  <2> HIDE DEF Shown
  <2> QED
    BY <1>3, <2>1
<1>11. \A x : x \in {Given(f) :
                       f \in {g \in forwards : g.ns = ns /\ g.source.port \notin broken}} <=>
         \E f \in forwards : f.ns = ns /\ f.source.port \notin broken
           /\ x = Given(f)
  BY Zenon
<1>12. \A x : x \in {f \in List(ns) : f.source.port \notin broken} <=>
              x \in {Given(f) :
                       f \in {g \in forwards : g.ns = ns /\ g.source.port \notin broken}}
  <2> HIDE DEF Shown, Given
  <2>1. ASSUME NEW r \in rs, r.port \notin broken PROVE \E f \in forwards : f.ns = ns /\ f.source.port \notin broken /\ Shown(r) = Given(f)
    BY <1>7, <1>8, <2>1
  <2>2. ASSUME NEW f \in forwards, f.ns = ns, f.source.port \notin broken PROVE \E r \in rs : r.port \notin broken /\ Shown(r) = Given(f)
    BY <1>7, <1>9, <2>2
  <2> DEFINE A == {f \in List(ns) : f.source.port \notin broken}
             B == {Given(f) : f \in {g \in forwards : g.ns = ns /\ g.source.port \notin broken}}
  <2>3. \A x : x \in A <=> \E r \in rs : r.port \notin broken /\ x = Shown(r)
    BY <1>10, Zenon
  <2>4. \A x : x \in B <=> \E f \in forwards : f.ns = ns /\ f.source.port \notin broken /\ x = Given(f)
    BY <1>11, Zenon
  <2> HIDE DEF A, B
  <2>5. \A x : x \in A <=> x \in B
    BY <2>1, <2>2, <2>3, <2>4
  <2> QED
    BY <2>5, Zenon DEF A, B
<1> QED
  BY <1>6, <1>12, Zenon

\* The inductive invariant says all that ForwardsAreConsistent says.
LEMMA ForwardIInvConsistent == ForwardIInv => ForwardsAreConsistent
<1> SUFFICES ASSUME ForwardIInv PROVE ForwardsAreConsistent
  OBVIOUS
<1>1. PortHasOneOwner
  <2> SUFFICES ASSUME NEW r \in rules PROVE Resolve(r.port) = {r.dest} /\ \A q \in rules : q.port = r.port => q.ns = r.ns
    BY DEF PortHasOneOwner
  <2>1. \A q \in rules : q.port = r.port => q.ns = r.ns /\ q.dest = r.dest
    BY DEF ForwardIInv, PortIsOfOne
  <2> QED
    BY <2>1 DEF Resolve
<1>2. ListIsWhatWasSet
  BY ListedIsSet, Zenon DEF ListIsWhatWasSet
<1>3. ReservedOnce /\ HostSetIsCurrent
  BY DEF ForwardIInv, ClaimsAreReserved, ReservedOnce
<1> QED
  BY <1>1, <1>2, <1>3 DEF ForwardsAreConsistent

\* ForwardsAreConsistent of PortForward.tla, for any namespaces, sources, ports and
\* addresses: a host port is forwarded for one destination, what is listed is what was
\* set and not removed but where nft failed, a port is reserved for one caller at a time,
\* and the set of host addresses holds none that was lost but those nft kept.
THEOREM ForwardsConsistent == ForwardSpec => []ForwardsAreConsistent
<1>1. ForwardInit => ForwardIInv
  BY ForwardInitIInv
<1>2. ForwardIInv /\ [ForwardStep]_forwardVars => ForwardIInv'
  <2>1. ASSUME ForwardIInv, UNCHANGED forwardVars PROVE ForwardIInv'
    BY <2>1 DEF forwardVars, ForwardIInv, ForwardTypeOK, PortIsOfOne, RulesAreForwards, Rules, ClaimsAreReserved, HostSetIsCurrent
  <2> QED
    BY <2>1, ForwardStepIInv
<1> QED
  BY <1>1, <1>2, ForwardIInvConsistent, PTL DEF ForwardSpec

\* LowPortOnlyWhenFull: Reserve hands out a port below the first one of its range only
\* when every port of the range is reserved, forwarded or listened on.
THEOREM LowPorts == ForwardSpec => [][LowPortOnlyWhenFull]_forwardVars
<1>1. ForwardStep => LowPortOnlyWhenFull
  <2> SUFFICES ASSUME ForwardStep PROVE LowPortOnlyWhenFull
    OBVIOUS
  <2>1. ASSUME NEW n \in 1 .. MaxReserve, Reserve(n) PROVE LowPortOnlyWhenFull
    <3>1. Cardinality(Port \ Unavailable) >= n /\ reserved' = reserved \cup Picked(n) /\ UNCHANGED <<rules, listening>>
      BY <2>1 DEF Reserve
    <3>2. \A p \in Picked(n) : p < FirstPort => FirstPort .. LastPort \subseteq Unavailable \cup Picked(n)
      <4>1. n \in Nat
        BY PortAssumption
      <4> QED
        BY <3>1, <4>1, PickedIsFree
    <3>3. Unavailable' = Unavailable \cup Picked(n)
      BY <3>1 DEF Unavailable
    <3> QED
      BY <3>1, <3>2, <3>3 DEF LowPortOnlyWhenFull
  <2>2. ASSUME reserved' \subseteq reserved PROVE LowPortOnlyWhenFull
    BY <2>2 DEF LowPortOnlyWhenFull
  <2> QED
    BY <2>1, <2>2 DEF ForwardStep, ForwardNext, MonitorNext, SetPortForward, RemovePortForward, RemoveAll, DropRules,
       ExpireReservation, Listen, Notify, AddressChanges
<1> QED
  BY <1>1, PTL DEF ForwardSpec

-----------------------------------------------------------------------------
(* Virtual machines.                                                       *)

\* The numbers machines may get.
MachineSeq == (0 .. (SequenceMod - 1)) \ ReservedSeq
Actor == Machine \cup {"loop"}

\* The states of a create, and of a handleStopped.
CreateState ==
  [at : {"none", "mount", "net", "check"}, seq : MachineSeq \cup {NoSeq}, todo : SUBSET MachineSource]
StopState ==
  [at : {"none", "forget", "forwards", "unmount"}, uuid : Machine \cup {NoSeq}, seq : MachineSeq \cup {NoSeq}]

\* The types of the variables.
KvmTypeOK ==
  /\ vm \in [Machine -> {"none", "running", "gone"}] /\ info \in [Machine -> MachineSeq \cup {NoSeq}]
  /\ mounted \in [Machine -> BOOLEAN] /\ vmSequence \in 0 .. (SequenceMod - 1)
  /\ vmCreate \in [Machine -> CreateState] /\ stopping \in [Actor -> StopState]
  /\ events \in Seq(Machine) /\ adding \in [uuid : Machine \cup {NoSeq}, seq : MachineSeq \cup {NoSeq}]
  /\ given \in [Machine -> SUBSET MachineSource]

\* A stopped event of u is not handled yet.
Pending(u) == \E i \in 1 .. Len(events) : events[i] = u
StopsOf(u) == {a \in Actor : stopping[a].uuid = u}

\* How far a create has come.
MachineCreateKnows ==
  \A u \in Machine : LET k == vmCreate[u] IN
    /\ k.at = "none" => k = NoCreate
    /\ k.at # "none" => k.seq # NoSeq /\ stopping[u].at = "none"
    /\ k.at \in {"mount", "net"} => vm[u] # "running" /\ ~Pending(u) /\ StopsOf(u) = {}
    /\ k.at = "mount" => info[u] = NoSeq /\ ~mounted[u] /\ given[u] = {} /\ adding.uuid # u
    /\ k.at = "net" => info[u] = k.seq

\* How far handleStopped has come.
StopKnows ==
  \A a \in Actor : LET t == stopping[a] IN
    /\ t.at = "none" => t = NoStop
    /\ t.at # "none" => t.uuid # NoSeq
    /\ t.at = "forwards" <=> t.seq # NoSeq
    /\ a \in Machine => t.uuid \in {a, NoSeq}

\* A portforward-add works for the machine that had its number when it looked.
AddKnows ==
  adding # NoAdd => adding.uuid # NoSeq /\ adding.seq # NoSeq /\ info[adding.uuid] \in {NoSeq, adding.seq}

\* A number is in use for a machine.
Holds(u, q) ==
  \/ info[u] = q \/ vmCreate[u].seq = q \/ (adding.uuid = u /\ adding.seq = q)
  \/ \E a \in StopsOf(u) : stopping[a].seq = q

\* Whoever holds a number that is not stale works for the same machine.
NumbersAreOwn ==
  \A q \in MachineSeq \ stale :
    /\ \A u, v \in Machine : Holds(u, q) /\ Holds(v, q) => u = v
    /\ \A a \in Actor, u \in Machine : stopping[a].seq = q => info[u] # q

\* What is left of a machine has somebody who will see to it.
SomebodyCleans ==
  \A u \in Machine :
    LET busy == vm[u] = "running" \/ vmCreate[u].at # "none" \/ Pending(u) IN
    /\ info[u] # NoSeq => busy \/ \E a \in StopsOf(u) : stopping[a].at = "forget"
    /\ mounted[u] /\ u \notin unmountFailed => busy \/ StopsOf(u) # {}

\* The rules of machines are those of their forwards.
MachineRules ==
  /\ \A r \in rules : r.ns = ForwardId(r.ns.id) /\ r.ns.id \in MachineSeq
  /\ \A u \in Machine : info[u] # NoSeq /\ info[u] \notin stale =>
       \A s \in given[u] : \E r \in rules : r.ns = ForwardId(info[u]) /\ r.port = s.port

\* The number of a machine the manager knows, or is about to clean up.
Known(q) == q \in stale \/ (\E u \in Machine : info[u] = q) \/ \E a \in Actor : stopping[a].seq = q

\* A rule is of a known machine, unless nft failed to drop it.
RulesHaveMachine == \A r \in rules : r.port \in broken \/ Known(r.ns.id)

\* The inductive invariant of the machines.
KvmIInv ==
  /\ KvmTypeOK /\ MachineCreateKnows /\ StopKnows /\ AddKnows /\ NumbersAreOwn /\ SomebodyCleans
  /\ MachineRules /\ RulesHaveMachine

\* A number that comes back after the counter has wrapped around.
LEMMA WrapsAround ==
  ASSUME NEW m \in Nat \ {0}, NEW x \in 0 .. (m - 1), NEW q \in 0 .. (m - 1)
  PROVE  \E i \in 1 .. m : (x + i) % m = q
<1>1. CASE q > x
  <2>1. q - x \in 1 .. m /\ x + (q - x) = q /\ q % m = q
    BY <1>1
  <2> QED
    BY <2>1
<1>2. CASE q <= x
  <2>1. q - x + m \in 1 .. m /\ x + (q - x + m) = q + m
    BY <1>2
  <2>2. (q + m) % m = q
    OBVIOUS
  <2> QED
    BY <2>1, <2>2
<1> QED
  BY <1>1, <1>2

\* Machines get numbers of their own, never a reserved one.
LEMMA NextIsMachineSeq ==
  ASSUME vmSequence \in 0 .. (SequenceMod - 1)
  PROVE  NextMachineSequence \in MachineSeq
<1> DEFINE after == [i \in 1 .. SequenceMod |-> (vmSequence + i) % SequenceMod]
           good == {i \in 1 .. SequenceMod : after[i] \notin ReservedSeq}
<1>1. PICK q \in 0 .. (SequenceMod - 1) : q \notin ReservedSeq
  BY KvmAssumption
<1>2. SequenceMod \in Nat \ {0}
  BY KvmAssumption
<1>3. PICK i \in 1 .. SequenceMod : (vmSequence + i) % SequenceMod = q
  BY <1>2, WrapsAround
<1>4. i \in good
  BY <1>1, <1>3
<1>5. good \in SUBSET Nat
  BY <1>2
<1>6. Min(good) \in good
  BY <1>4, <1>5, MinIsMember
<1>7. \A j \in 1 .. SequenceMod : after[j] \in 0 .. (SequenceMod - 1)
  BY <1>2
<1>8. NextMachineSequence = after[Min(good)]
  BY DEF NextMachineSequence
<1> QED
  BY <1>6, <1>7, <1>8 DEF MachineSeq

\* What a set and a removal of forwards do to the rules.
LEMMA SetRules ==
  ASSUME NEW ns, NEW s \in Source, NEW d, SetPortForward(ns, s, d)
  PROVE  /\ rules \subseteq rules' /\ broken' = broken /\ \A r \in rules' \ rules : r.ns = ns
         /\ \E r \in rules' : r.ns = ns /\ r.port = s.port
<1>1. rules' = rules \cup Rules(ns, s, d) /\ broken' = broken
  BY DEF SetPortForward
<1>2. PICK p \in s.protocols : TRUE
  BY PortAssumption
<1>3. \A r \in Rules(ns, s, d) : r.ns = ns /\ r.port = s.port
  BY RuleIsOf
<1>4. Rules(ns, s, d) # {}
  BY <1>2 DEF Rules
<1> QED
  BY <1>1, <1>3, <1>4

\* Rules that are to be dropped are dropped, unless nft fails for their port.
LEMMA DropFacts ==
  ASSUME NEW rs, DropRules(rs)
  PROVE  /\ rules' \subseteq rules /\ broken \subseteq broken' /\ \A r \in rules \ rules' : r \in rs
         /\ \A r \in rules' \cap rs : r.port \in broken'
BY DEF DropRules

\* What a machine that is not in use looks like.
LEMMA UnusedFacts ==
  ASSUME KvmIInv, NEW u \in Machine, Unused(u)
  PROVE  /\ vmCreate[u].at = "none" /\ vmCreate[u].seq = NoSeq /\ ~Pending(u) /\ StopsOf(u) = {} /\ info[u] = NoSeq
         /\ ~mounted[u] /\ stopping[u].at = "none" /\ adding.uuid # u /\ vm[u] # "running"
<1>1. DOMAIN stopping = Actor
  BY DEF KvmIInv, KvmTypeOK
<1> QED
  BY <1>1 DEF Unused, Settled, NoCreate, NoStop, Pending, StopsOf

\* The numbers in use, told by who holds them.
LEMMA NotInUse ==
  ASSUME KvmTypeOK, NEW q, ~InUse(q)
  PROVE  \A u \in Machine : ~Holds(u, q)
<1>1. DOMAIN stopping = Actor
  BY DEF KvmTypeOK
<1> QED
  BY <1>1 DEF InUse, Holds, StopsOf

\* Numbers stay own while nobody new holds one and none that is to be cleaned up
\* is known.
LEMMA OwnStays ==
  ASSUME NumbersAreOwn, stale \subseteq stale',
         \A u \in Machine, q \in MachineSeq \ stale' : Holds(u, q)' => Holds(u, q),
         \A a \in Actor, u \in Machine : stopping'[a].seq \in MachineSeq \ stale' => info'[u] # stopping'[a].seq
  PROVE  NumbersAreOwn'
<1> SUFFICES ASSUME NEW q \in MachineSeq \ stale'
             PROVE  /\ \A u, v \in Machine : Holds(u, q)' /\ Holds(v, q)' => u = v
                    /\ \A a \in Actor, u \in Machine : stopping'[a].seq = q => info'[u] # q
  BY DEF NumbersAreOwn
<1> QED
  BY DEF NumbersAreOwn

\* Who works for which machine.
LEMMA WorkersFacts ==
  ASSUME KvmIInv
  PROVE  /\ NoSeq \notin MachineSeq /\ NoSeq \notin Machine /\ Machine \subseteq Actor /\ "loop" \in Actor \ Machine
         /\ \A a \in Actor : stopping[a].seq \in MachineSeq => stopping[a].uuid \in Machine
         /\ \A a \in Actor : stopping[a].seq \in MachineSeq \cup {NoSeq} /\ stopping[a].uuid \in Machine \cup {NoSeq}
         /\ adding # NoAdd => adding.uuid \in Machine /\ adding.seq \in MachineSeq
         /\ \A u \in Machine : info[u] \in MachineSeq \cup {NoSeq} /\ vmCreate[u] \in CreateState
<1>1. NoSeq \notin MachineSeq /\ NoSeq \notin Machine /\ Machine \subseteq Actor /\ "loop" \in Actor \ Machine
  BY KvmAssumption DEF MachineSeq, Actor
<1>2. \A a \in Actor : stopping[a].seq \in MachineSeq \cup {NoSeq} /\ stopping[a].uuid \in Machine \cup {NoSeq}
  BY DEF KvmIInv, KvmTypeOK, StopState
<1>3. \A a \in Actor : stopping[a].seq \in MachineSeq => stopping[a].uuid \in Machine
  BY <1>1, <1>2 DEF KvmIInv, StopKnows
<1>4. adding.uuid \in Machine \cup {NoSeq} /\ adding.seq \in MachineSeq \cup {NoSeq}
  BY DEF KvmIInv, KvmTypeOK
<1>5. adding # NoAdd => adding.uuid \in Machine /\ adding.seq \in MachineSeq
  BY <1>4 DEF KvmIInv, AddKnows
<1>6. \A u \in Machine : info[u] \in MachineSeq \cup {NoSeq} /\ vmCreate[u] \in CreateState
  BY DEF KvmIInv, KvmTypeOK
<1> QED
  BY <1>1, <1>2, <1>3, <1>5, <1>6

\* A create that goes on elsewhere.
LEMMA CreateMoves ==
  ASSUME vmCreate \in [Machine -> CreateState], NEW u \in Machine, NEW at \in {"none", "mount", "net", "check"},
         vmCreate' = [vmCreate EXCEPT ![u].at = at]
  PROVE  /\ vmCreate' \in [Machine -> CreateState] /\ \A v \in Machine : v # u => vmCreate'[v] = vmCreate[v]
         /\ vmCreate'[u].at = at /\ vmCreate'[u].seq = vmCreate[u].seq /\ vmCreate'[u].todo = vmCreate[u].todo
<1>1. \A k \in CreateState : LET n == [k EXCEPT !.at = at] IN
        n \in CreateState /\ n.at = at /\ n.seq = k.seq /\ n.todo = k.todo
  BY DEF CreateState
<1>2. vmCreate' = [vmCreate EXCEPT ![u] = [vmCreate[u] EXCEPT !.at = at]]
  OBVIOUS
<1>3. vmCreate[u] \in CreateState
  OBVIOUS
<1> QED
  BY <1>1, <1>2, <1>3

\* A create that is over.
LEMMA CreateEnds ==
  ASSUME vmCreate \in [Machine -> CreateState], NEW u \in Machine, vmCreate' = [vmCreate EXCEPT ![u] = NoCreate]
  PROVE  /\ vmCreate' \in [Machine -> CreateState] /\ \A v \in Machine : v # u => vmCreate'[v] = vmCreate[v]
         /\ vmCreate'[u] = NoCreate /\ vmCreate'[u].at = "none" /\ vmCreate'[u].seq = NoSeq
<1>1. NoCreate \in CreateState /\ NoCreate.at = "none" /\ NoCreate.seq = NoSeq
  BY DEF NoCreate, CreateState
<1> QED
  BY <1>1

\* The rules have a machine while every number that was known is.
LEMMA KnownStays ==
  ASSUME KvmIInv, UNCHANGED <<rules, broken>>, \A q \in MachineSeq : Known(q) => Known(q)'
  PROVE  RulesHaveMachine'
BY DEF KvmIInv, RulesHaveMachine, MachineRules

\* A create that fails leaves the rest to handleStopped.
LEMMA FailFacts ==
  ASSUME KvmIInv, NEW u \in Machine, vmCreate[u].at # "none", CreateFailed(u)
  PROVE  /\ vmCreate' \in [Machine -> CreateState] /\ \A v \in Machine : v # u => vmCreate'[v] = vmCreate[v]
         /\ vmCreate'[u] = NoCreate /\ vmCreate'[u].at = "none" /\ vmCreate'[u].seq = NoSeq
         /\ stopping' \in [Actor -> StopState] /\ \A a \in Actor : a # u => stopping'[a] = stopping[a]
         /\ stopping[u].at = "none" /\ stopping[u].uuid = NoSeq /\ stopping[u].seq = NoSeq
         /\ stopping'[u].at = "forget" /\ stopping'[u].uuid = u /\ stopping'[u].seq = NoSeq
<1> USE DEF KvmIInv
<1>1. vmCreate \in [Machine -> CreateState] /\ stopping \in [Actor -> StopState] /\ u \in Actor
  BY WorkersFacts DEF KvmTypeOK
<1>2. stopping[u].at = "none" /\ stopping[u] = NoStop
  BY <1>1 DEF MachineCreateKnows, StopKnows
<1>3. [at |-> "forget", uuid |-> u, seq |-> NoSeq] \in StopState
  BY DEF StopState
<1>4. stopping' = [stopping EXCEPT ![u] = [at |-> "forget", uuid |-> u, seq |-> NoSeq]]
  BY DEF CreateFailed
<1>5. stopping' \in [Actor -> StopState] /\ \A a \in Actor : a # u => stopping'[a] = stopping[a]
  BY <1>1, <1>3, <1>4
<1>6. stopping'[u].at = "forget" /\ stopping'[u].uuid = u /\ stopping'[u].seq = NoSeq
  BY <1>1, <1>4
<1>7. NoStop.uuid = NoSeq /\ NoStop.seq = NoSeq
  BY DEF NoStop
<1> QED
  BY <1>1, <1>2, <1>5, <1>6, <1>7, CreateEnds DEF CreateFailed

\* A forward that is set belongs to the machine it is set for.
LEMMA SetKeeps ==
  ASSUME KvmIInv, NEW q \in MachineSeq, NEW s \in Source, NEW d, SetPortForward(ForwardId(q), s, d),
         UNCHANGED info, stale \subseteq stale', Known(q)', \A p \in MachineSeq : Known(p) => Known(p)',
         \A v \in Machine : info[v] # NoSeq /\ info[v] \notin stale' =>
            \A t \in given'[v] : t \in given[v] \/ (info[v] = q /\ t.port = s.port)
  PROVE  MachineRules' /\ RulesHaveMachine'
<1> USE DEF KvmIInv
<1>1. /\ rules \subseteq rules' /\ broken' = broken /\ \A r \in rules' \ rules : r.ns = ForwardId(q)
      /\ \E r \in rules' : r.ns = ForwardId(q) /\ r.port = s.port
  BY SetRules
<1>2. ForwardId(q).id = q
  BY DEF ForwardId
<1>3. \A r \in rules' : r.ns = ForwardId(r.ns.id) /\ r.ns.id \in MachineSeq
  BY <1>1, <1>2 DEF MachineRules
<1>4. MachineRules'
  BY <1>1, <1>3 DEF MachineRules, ForwardId
<1>5. RulesHaveMachine'
  BY <1>1, <1>2 DEF RulesHaveMachine, MachineRules
<1> QED
  BY <1>4, <1>5

\* The flist of a machine is mounted.
LEMMA CreateMountIInv ==
  ASSUME KvmIInv, NEW u \in Machine, CreateMount(u)
  PROVE  KvmIInv'
<1> USE DEF KvmIInv
<1>1. /\ vmCreate[u].at = "mount" /\ UNCHANGED <<vmSequence, events, adding, stale, unmountFailed, given, stopping>>
      /\ UNCHANGED <<rules, broken>>
  BY DEF CreateMount, At, GoOn, forwardVars
<1>2. /\ info[u] = NoSeq /\ ~mounted[u] /\ given[u] = {} /\ adding.uuid # u /\ vm[u] # "running" /\ ~Pending(u)
      /\ StopsOf(u) = {} /\ vmCreate[u].seq # NoSeq /\ vmCreate[u].seq \in MachineSeq
  BY <1>1, WorkersFacts DEF MachineCreateKnows, CreateState
<1>3. /\ vmCreate' \in [Machine -> CreateState]
      /\ \A v \in Machine : v # u => /\ vmCreate'[v] = vmCreate[v] /\ vm'[v] = vm[v] /\ info'[v] = info[v]
                                     /\ mounted'[v] = mounted[v]
      /\ \/ /\ mounted'[u] = TRUE /\ info'[u] = vmCreate[u].seq /\ vm' = vm
            /\ vmCreate'[u].at = "net" /\ vmCreate'[u].seq = vmCreate[u].seq
         \/ /\ vmCreate'[u] = NoCreate /\ vmCreate'[u].at = "none" /\ vmCreate'[u].seq = NoSeq
            /\ vm'[u] = "gone" /\ info' = info /\ mounted' = mounted
  BY CreateMoves, CreateEnds DEF CreateMount, At, GoOn, KvmTypeOK
<1>4. /\ vm' \in [Machine -> {"none", "running", "gone"}] /\ info' \in [Machine -> MachineSeq \cup {NoSeq}]
      /\ mounted' \in [Machine -> BOOLEAN]
  BY <1>2 DEF CreateMount, At, GoOn, KvmTypeOK
<1>21. KvmTypeOK'
  BY <1>1, <1>2, <1>3, <1>4 DEF KvmTypeOK
<1>22. MachineCreateKnows'
  BY <1>1, <1>2, <1>3, <1>4 DEF MachineCreateKnows, Pending, StopsOf
<1>23. StopKnows'
  BY <1>1, <1>2, <1>3, <1>4 DEF StopKnows
<1>24. AddKnows'
  BY <1>1, <1>2, <1>3, WorkersFacts DEF AddKnows
<1>25. NumbersAreOwn'
  <2>1. \A v \in Machine, k \in MachineSeq \ stale' : Holds(v, k)' => Holds(v, k)
    BY <1>1, <1>2, <1>3, <1>4, WorkersFacts DEF Holds, StopsOf
  <2>2. \A b \in Actor, v \in Machine : stopping'[b].seq \in MachineSeq \ stale' => info'[v] # stopping'[b].seq
    BY <1>1, <1>2, <1>3, <1>4, WorkersFacts DEF NumbersAreOwn, Holds, StopsOf
  <2> QED
    BY <1>1, <1>2, <1>3, <1>4, WorkersFacts, <2>1, <2>2, OwnStays
<1>26. SomebodyCleans'
  BY <1>1, <1>2, <1>3, <1>4 DEF SomebodyCleans, Pending, StopsOf
<1>27. MachineRules'
  BY <1>1, <1>2, <1>3, <1>4 DEF MachineRules
<1>28. RulesHaveMachine'
  <2>1. \A q \in MachineSeq : Known(q) => Known(q)'
    BY <1>1, <1>2, <1>3, <1>4, WorkersFacts DEF Known
  <2> QED
    BY <1>1, <1>2, <1>3, <1>4, WorkersFacts, <2>1, KnownStays
<1> QED
  BY <1>21, <1>22, <1>23, <1>24, <1>25, <1>26, <1>27, <1>28

\* A create begins.
LEMMA CreateBeginIInv ==
  ASSUME KvmIInv, NEW u \in Machine, NEW flist \in BOOLEAN, NEW todo \in SUBSET MachineSource, CreateBegin(u, flist, todo)
  PROVE  KvmIInv'
<1> USE DEF KvmIInv
<1>1. UNCHANGED <<mounted, stopping, events, adding, unmountFailed>> /\ UNCHANGED <<rules, broken>>
  BY DEF CreateBegin, forwardVars
<1>2. /\ vmCreate[u].at = "none" /\ vmCreate[u].seq = NoSeq /\ ~Pending(u) /\ StopsOf(u) = {} /\ info[u] = NoSeq
      /\ ~mounted[u] /\ stopping[u].at = "none" /\ adding.uuid # u /\ vm[u] # "running"
  BY UnusedFacts DEF CreateBegin
<1>3. PICK q \in MachineSeq : q = NextMachineSequence
  BY NextIsMachineSeq DEF KvmTypeOK
<1>4. /\ vm' = [vm EXCEPT ![u] = "none"] /\ given' = [given EXCEPT ![u] = {}] /\ vmSequence' = q
      /\ vmCreate' = [vmCreate EXCEPT ![u] = [at |-> IF flist THEN "mount" ELSE "net", seq |-> q, todo |-> todo]]
      /\ stale' = IF InUse(q) THEN stale \cup {q} ELSE stale
      /\ info' = IF flist THEN info ELSE [info EXCEPT ![u] = q]
  BY <1>3 DEF CreateBegin
<1>5. [at |-> IF flist THEN "mount" ELSE "net", seq |-> q, todo |-> todo] \in CreateState
  BY DEF CreateState
<1>6. /\ vmCreate' \in [Machine -> CreateState] /\ \A v \in Machine : v # u => vmCreate'[v] = vmCreate[v]
      /\ vmCreate'[u].at = (IF flist THEN "mount" ELSE "net") /\ vmCreate'[u].seq = q
  BY <1>4, <1>5 DEF KvmTypeOK
<1>7. /\ \A v \in Machine : v # u => vm'[v] = vm[v] /\ given'[v] = given[v] /\ info'[v] = info[v]
      /\ vm'[u] = "none" /\ given'[u] = {} /\ info'[u] = (IF flist THEN NoSeq ELSE q)
      /\ vm' \in [Machine -> {"none", "running", "gone"}] /\ info' \in [Machine -> MachineSeq \cup {NoSeq}]
      /\ given' \in [Machine -> SUBSET MachineSource]
  BY <1>2, <1>4 DEF KvmTypeOK
<1>8. stale \subseteq stale'
  BY <1>4
<1>9. \A v : (Pending(v)' <=> Pending(v))
  BY <1>1 DEF Pending
<1>21. KvmTypeOK'
  <2>1. q \in 0 .. (SequenceMod - 1)
    BY DEF MachineSeq
  <2> QED
    BY <1>1, <1>4, <1>6, <1>7, <2>1 DEF KvmTypeOK
<1>22. MachineCreateKnows'
  BY <1>1, <1>2, <1>6, <1>7, <1>9, WorkersFacts DEF MachineCreateKnows, StopsOf
<1>23. StopKnows'
  BY <1>1, <1>2, <1>3, <1>4, <1>5, <1>6, <1>7, <1>8, <1>9 DEF StopKnows
<1>24. AddKnows'
  BY <1>1, <1>2, <1>7, WorkersFacts DEF AddKnows
<1>25. NumbersAreOwn'
  <2> SUFFICES ASSUME NEW p \in MachineSeq \ stale'
               PROVE  /\ \A v, w \in Machine : Holds(v, p)' /\ Holds(w, p)' => v = w
                      /\ \A a \in Actor, v \in Machine : stopping'[a].seq = p => info'[v] # p
    BY DEF NumbersAreOwn
  <2>1. CASE p # q
    <3>1. \A v \in Machine : Holds(v, p)' => Holds(v, p)
      BY <1>1, <1>2, <1>6, <1>7, <2>1, WorkersFacts DEF Holds, StopsOf
    <3> QED
      BY <1>1, <1>2, <1>7, <1>8, <2>1, <3>1, WorkersFacts DEF NumbersAreOwn
  <2>2. CASE p = q
    <3>1. ~InUse(q)
      BY <1>4, <2>2
    <3>2. \A v \in Machine : ~Holds(v, q)
      BY <3>1, NotInUse
    <3>3. \A v \in Machine : v # u => ~Holds(v, p)'
      BY <1>1, <1>6, <1>7, <2>2, <3>2 DEF Holds, StopsOf
    <3>4. \A a \in Actor : stopping[a].seq # q
      BY <3>2, WorkersFacts DEF Holds, StopsOf
    <3> QED
      BY <1>1, <2>2, <3>3, <3>4
  <2> QED
    BY <2>1, <2>2
<1>26. SomebodyCleans'
  BY <1>1, <1>2, <1>6, <1>7, <1>9 DEF SomebodyCleans, StopsOf
<1>27. MachineRules'
  BY <1>1, <1>7, <1>8 DEF MachineRules, ForwardId
<1>28. RulesHaveMachine'
  <2>1. \A p \in MachineSeq : Known(p) => Known(p)'
    BY <1>1, <1>2, <1>7, <1>8, WorkersFacts DEF Known
  <2> QED
    BY <1>1, <2>1, KnownStays
<1> QED
  BY <1>21, <1>22, <1>23, <1>24, <1>25, <1>26, <1>27, <1>28

\* A forward of a create is set.
LEMMA CreateForwardIInv ==
  ASSUME KvmIInv, NEW u \in Machine, CreateForward(u)
  PROVE  KvmIInv'
<1> USE DEF KvmIInv
<1>1. /\ vmCreate[u].at = "net"
      /\ UNCHANGED <<vm, info, mounted, vmSequence, stopping, events, adding, stale, unmountFailed>>
  BY DEF CreateForward, At
<1>2. /\ info[u] = vmCreate[u].seq /\ vm[u] # "running" /\ ~Pending(u) /\ StopsOf(u) = {}
      /\ vmCreate[u].seq \in MachineSeq /\ vmCreate[u] \in CreateState
  BY <1>1, WorkersFacts DEF MachineCreateKnows, CreateState
<1>3. PICK s \in vmCreate[u].todo, d \in Dest :
        /\ SetPortForward(ForwardId(vmCreate[u].seq), s, d)
        /\ vmCreate' = [vmCreate EXCEPT ![u].todo = @ \ {s}]
        /\ given' = [given EXCEPT ![u] = @ \cup {s}]
  BY DEF CreateForward
<1>4. s \in MachineSource /\ s \in Source
  BY <1>2, <1>3, KvmAssumption DEF CreateState
<1>5. /\ vmCreate' \in [Machine -> CreateState] /\ \A v \in Machine : v # u => vmCreate'[v] = vmCreate[v]
      /\ vmCreate'[u].at = "net" /\ vmCreate'[u].seq = vmCreate[u].seq
  <2>1. PICK k \in CreateState : k = vmCreate[u]
    BY <1>2
  <2>2. PICK n : n = [k EXCEPT !.todo = k.todo \ {s}]
    OBVIOUS
  <2>3. n \in CreateState /\ n.at = k.at /\ n.seq = k.seq
    BY <2>2 DEF CreateState
  <2>4. vmCreate' = [vmCreate EXCEPT ![u] = n]
    BY <1>3, <2>1, <2>2 DEF KvmTypeOK
  <2> QED
    BY <1>1, <2>1, <2>3, <2>4 DEF KvmTypeOK
<1>6. /\ given' \in [Machine -> SUBSET MachineSource] /\ \A v \in Machine : v # u => given'[v] = given[v]
      /\ given'[u] = given[u] \cup {s}
  BY <1>3, <1>4 DEF KvmTypeOK
<1>7. MachineRules' /\ RulesHaveMachine'
  <2>1. Known(vmCreate[u].seq)' /\ \A p \in MachineSeq : Known(p) => Known(p)'
    BY <1>1, <1>2, <1>5 DEF Known
  <2>2. PICK q \in MachineSeq : q = vmCreate[u].seq
    BY <1>2
  <2>3. Known(q)'
    BY <1>1, <1>2, <2>2 DEF Known
  <2> QED
    BY <1>1, <1>2, <1>3, <1>4, <1>6, <2>1, <2>2, <2>3, SetKeeps
<1>9. \A v : (Pending(v)' <=> Pending(v))
  BY <1>1 DEF Pending
<1>21. KvmTypeOK'
  BY <1>1, <1>5, <1>6 DEF KvmTypeOK
<1>22. MachineCreateKnows'
  BY <1>1, <1>2, <1>5, <1>6, <1>9, WorkersFacts DEF MachineCreateKnows, StopsOf
<1>23. StopKnows'
  BY <1>1 DEF StopKnows
<1>24. AddKnows'
  BY <1>1 DEF AddKnows
<1>25. NumbersAreOwn'
  <2>1. \A v \in Machine, k \in MachineSeq \ stale' : Holds(v, k)' => Holds(v, k)
    BY <1>1, <1>5, WorkersFacts DEF Holds, StopsOf
  <2>2. \A b \in Actor, v \in Machine : stopping'[b].seq \in MachineSeq \ stale' => info'[v] # stopping'[b].seq
    BY <1>1, <1>5, WorkersFacts DEF NumbersAreOwn, Holds, StopsOf
  <2> QED
    BY <1>1, <1>5, WorkersFacts, <2>1, <2>2, OwnStays
<1>26. SomebodyCleans'
  BY <1>1, <1>5, <1>9 DEF SomebodyCleans, StopsOf
<1>27. MachineRules'
  BY <1>7
<1>28. RulesHaveMachine'
  BY <1>7
<1> QED
  BY <1>21, <1>22, <1>23, <1>24, <1>25, <1>26, <1>27, <1>28

\* The networking of a machine fails.
LEMMA CreateNetworkFailsIInv ==
  ASSUME KvmIInv, NEW u \in Machine, CreateNetworkFails(u)
  PROVE  KvmIInv'
<1> USE DEF KvmIInv
<1>1. /\ vmCreate[u].at = "net" /\ UNCHANGED <<info, mounted, vmSequence, events, adding, stale, unmountFailed, given>>
      /\ UNCHANGED <<rules, broken>>
  BY DEF CreateNetworkFails, At, forwardVars
<1>2. ~Pending(u) /\ StopsOf(u) = {}
  BY <1>1 DEF MachineCreateKnows
<1>3. /\ vmCreate' \in [Machine -> CreateState] /\ \A v \in Machine : v # u => vmCreate'[v] = vmCreate[v]
      /\ vmCreate'[u] = NoCreate /\ vmCreate'[u].at = "none" /\ vmCreate'[u].seq = NoSeq
      /\ stopping' \in [Actor -> StopState] /\ \A a \in Actor : a # u => stopping'[a] = stopping[a]
      /\ stopping[u].at = "none" /\ stopping[u].uuid = NoSeq /\ stopping[u].seq = NoSeq
      /\ stopping'[u].at = "forget" /\ stopping'[u].uuid = u /\ stopping'[u].seq = NoSeq
      /\ \A v \in Machine : v # u => vm'[v] = vm[v]
      /\ vm'[u] = "gone" /\ vm' \in [Machine -> {"none", "running", "gone"}]
  BY <1>1, FailFacts DEF CreateNetworkFails, KvmTypeOK
<1>9. \A v : (Pending(v)' <=> Pending(v))
  BY <1>1 DEF Pending
<1>21. KvmTypeOK'
  BY <1>1, <1>3 DEF KvmTypeOK
<1>22. MachineCreateKnows'
  BY <1>1, <1>2, <1>3, <1>9, WorkersFacts DEF MachineCreateKnows, StopsOf
<1>23. StopKnows'
  BY <1>3, WorkersFacts DEF StopKnows
<1>24. AddKnows'
  BY <1>1 DEF AddKnows
<1>25. NumbersAreOwn'
  <2>1. \A v \in Machine, k \in MachineSeq \ stale' : Holds(v, k)' => Holds(v, k)
    BY <1>1, <1>3, WorkersFacts DEF Holds, StopsOf
  <2>2. \A b \in Actor, v \in Machine : stopping'[b].seq \in MachineSeq \ stale' => info'[v] # stopping'[b].seq
    BY <1>1, <1>3, WorkersFacts DEF NumbersAreOwn, Holds, StopsOf
  <2> QED
    BY <1>1, <1>3, WorkersFacts, <2>1, <2>2, OwnStays
<1>26. SomebodyCleans'
  BY <1>1, <1>2, <1>3, <1>9, WorkersFacts DEF SomebodyCleans, StopsOf
<1>27. MachineRules'
  BY <1>1 DEF MachineRules, ForwardId
<1>28. RulesHaveMachine'
  <2>1. \A q \in MachineSeq : Known(q) => Known(q)'
    BY <1>1, <1>3, WorkersFacts DEF Known
  <2> QED
    BY <1>1, <1>3, WorkersFacts, <2>1, KnownStays
<1> QED
  BY <1>21, <1>22, <1>23, <1>24, <1>25, <1>26, <1>27, <1>28

\* libvirt creates a domain or fails to.
LEMMA CreateDomainIInv ==
  ASSUME KvmIInv, NEW u \in Machine, CreateDomain(u)
  PROVE  KvmIInv'
<1> USE DEF KvmIInv
<1>1. /\ vmCreate[u].at = "net" /\ UNCHANGED <<info, mounted, vmSequence, events, adding, stale, unmountFailed, given>>
      /\ UNCHANGED <<rules, broken>>
  BY DEF CreateDomain, At, forwardVars
<1>2. ~Pending(u) /\ StopsOf(u) = {} /\ stopping[u].at = "none" /\ vmCreate[u].seq # NoSeq
  BY <1>1 DEF MachineCreateKnows
<1>3. \/ /\ vm' \in [Machine -> {"none", "running", "gone"}] /\ \A v \in Machine : v # u => vm'[v] = vm[v]
         /\ vm'[u] = "running" /\ stopping' = stopping /\ vmCreate' \in [Machine -> CreateState]
         /\ \A v \in Machine : v # u => vmCreate'[v] = vmCreate[v]
         /\ vmCreate'[u].at = "check" /\ vmCreate'[u].seq = vmCreate[u].seq
      \/ /\ vmCreate' \in [Machine -> CreateState] /\ \A v \in Machine : v # u => vmCreate'[v] = vmCreate[v]
         /\ vmCreate'[u] = NoCreate /\ vmCreate'[u].at = "none" /\ vmCreate'[u].seq = NoSeq
         /\ stopping' \in [Actor -> StopState] /\ \A a \in Actor : a # u => stopping'[a] = stopping[a]
         /\ stopping[u].at = "none" /\ stopping[u].uuid = NoSeq /\ stopping[u].seq = NoSeq
         /\ stopping'[u].at = "forget" /\ stopping'[u].uuid = u /\ stopping'[u].seq = NoSeq
         /\ \A v \in Machine : v # u => vm'[v] = vm[v]
         /\ vm'[u] = "gone" /\ vm' \in [Machine -> {"none", "running", "gone"}]
  <2>1. CASE vm' = [vm EXCEPT ![u] = "running"] /\ GoOn(u, "check")
    BY <2>1, CreateMoves DEF GoOn, KvmTypeOK
  <2>2. CASE vm' = [vm EXCEPT ![u] = "gone"] /\ CreateFailed(u)
    BY <1>1, <2>2, FailFacts DEF KvmTypeOK
  <2> QED
    BY <2>1, <2>2 DEF CreateDomain
<1>9. \A v : (Pending(v)' <=> Pending(v))
  BY <1>1 DEF Pending
<1>21. KvmTypeOK'
  BY <1>1, <1>3 DEF KvmTypeOK
<1>22. MachineCreateKnows'
  BY <1>1, <1>2, <1>3, <1>9, WorkersFacts DEF MachineCreateKnows, StopsOf
<1>23. StopKnows'
  BY <1>3, WorkersFacts DEF StopKnows
<1>24. AddKnows'
  BY <1>1 DEF AddKnows
<1>25. NumbersAreOwn'
  <2>1. \A v \in Machine, k \in MachineSeq \ stale' : Holds(v, k)' => Holds(v, k)
    BY <1>1, <1>3, WorkersFacts DEF Holds, StopsOf
  <2>2. \A b \in Actor, v \in Machine : stopping'[b].seq \in MachineSeq \ stale' => info'[v] # stopping'[b].seq
    BY <1>1, <1>3, WorkersFacts DEF NumbersAreOwn, Holds, StopsOf
  <2> QED
    BY <1>1, <1>3, WorkersFacts, <2>1, <2>2, OwnStays
<1>26. SomebodyCleans'
  BY <1>1, <1>2, <1>3, <1>9, WorkersFacts DEF SomebodyCleans, StopsOf
<1>27. MachineRules'
  BY <1>1 DEF MachineRules, ForwardId
<1>28. RulesHaveMachine'
  <2>1. \A q \in MachineSeq : Known(q) => Known(q)'
    BY <1>1, <1>3, WorkersFacts DEF Known
  <2> QED
    BY <1>1, <1>3, WorkersFacts, <2>1, KnownStays
<1> QED
  BY <1>21, <1>22, <1>23, <1>24, <1>25, <1>26, <1>27, <1>28

\* A create ends, with a machine or without.
LEMMA CreateCheckIInv ==
  ASSUME KvmIInv, NEW u \in Machine, CreateCheck(u)
  PROVE  KvmIInv'
<1> USE DEF KvmIInv
<1>1. /\ vmCreate[u].at = "check" /\ UNCHANGED <<vm, info, mounted, vmSequence, events, adding, stale, unmountFailed, given>>
      /\ UNCHANGED <<rules, broken>>
  BY DEF CreateCheck, At, forwardVars
<1>2. TRUE
  OBVIOUS
<1>3. \/ /\ vm[u] = "running" /\ stopping' = stopping /\ vmCreate' \in [Machine -> CreateState]
         /\ \A v \in Machine : v # u => vmCreate'[v] = vmCreate[v]
         /\ vmCreate'[u] = NoCreate /\ vmCreate'[u].at = "none" /\ vmCreate'[u].seq = NoSeq
      \/ /\ vmCreate' \in [Machine -> CreateState] /\ \A v \in Machine : v # u => vmCreate'[v] = vmCreate[v]
         /\ vmCreate'[u] = NoCreate /\ vmCreate'[u].at = "none" /\ vmCreate'[u].seq = NoSeq
         /\ stopping' \in [Actor -> StopState] /\ \A a \in Actor : a # u => stopping'[a] = stopping[a]
         /\ stopping[u].at = "none" /\ stopping[u].uuid = NoSeq /\ stopping[u].seq = NoSeq
         /\ stopping'[u].at = "forget" /\ stopping'[u].uuid = u /\ stopping'[u].seq = NoSeq
  <2>1. CASE vm[u] = "running" /\ vmCreate' = [vmCreate EXCEPT ![u] = NoCreate] /\ UNCHANGED stopping
    BY <2>1, CreateEnds DEF KvmTypeOK
  <2>2. CASE CreateFailed(u)
    BY <1>1, <2>2, FailFacts DEF KvmTypeOK
  <2> QED
    BY <2>1, <2>2 DEF CreateCheck
<1>9. \A v : (Pending(v)' <=> Pending(v))
  BY <1>1 DEF Pending
<1>21. KvmTypeOK'
  BY <1>1, <1>3 DEF KvmTypeOK
<1>22. MachineCreateKnows'
  BY <1>1, <1>2, <1>3, <1>9, WorkersFacts DEF MachineCreateKnows, StopsOf
<1>23. StopKnows'
  BY <1>3, WorkersFacts DEF StopKnows
<1>24. AddKnows'
  BY <1>1 DEF AddKnows
<1>25. NumbersAreOwn'
  <2>1. \A v \in Machine, k \in MachineSeq \ stale' : Holds(v, k)' => Holds(v, k)
    BY <1>1, <1>3, WorkersFacts DEF Holds, StopsOf
  <2>2. \A b \in Actor, v \in Machine : stopping'[b].seq \in MachineSeq \ stale' => info'[v] # stopping'[b].seq
    BY <1>1, <1>3, WorkersFacts DEF NumbersAreOwn, Holds, StopsOf
  <2> QED
    BY <1>1, <1>3, WorkersFacts, <2>1, <2>2, OwnStays
<1>26. SomebodyCleans'
  BY <1>1, <1>2, <1>3, <1>9, WorkersFacts DEF SomebodyCleans, StopsOf
<1>27. MachineRules'
  BY <1>1 DEF MachineRules, ForwardId
<1>28. RulesHaveMachine'
  <2>1. \A q \in MachineSeq : Known(q) => Known(q)'
    BY <1>1, <1>3, WorkersFacts DEF Known
  <2> QED
    BY <1>1, <1>3, WorkersFacts, <2>1, KnownStays
<1> QED
  BY <1>21, <1>22, <1>23, <1>24, <1>25, <1>26, <1>27, <1>28

\* A domain stops.
LEMMA DomainStopsIInv ==
  ASSUME KvmIInv, NEW u \in Machine, DomainStops(u)
  PROVE  KvmIInv'
<1> USE DEF KvmIInv
<1>1. /\ vm[u] = "running" /\ UNCHANGED <<info, vmSequence, vmCreate, stopping, adding, stale, unmountFailed, given>>
      /\ UNCHANGED <<rules, broken>>
  BY DEF DomainStops, forwardVars
<1>2. /\ vm' \in [Machine -> {"none", "running", "gone"}] /\ \A v \in Machine : v # u => vm'[v] = vm[v]
      /\ vm'[u] = "gone"
  BY DEF DomainStops, KvmTypeOK
<1>3. /\ mounted' \in [Machine -> BOOLEAN] /\ \A v \in Machine : mounted'[v] => mounted[v]
  BY DEF DomainStops, KvmTypeOK
<1>4. /\ events' \in Seq(Machine) /\ \A v : Pending(v)' <=> Pending(v) \/ v = u
  <2>1. events' = Append(events, u) /\ events \in Seq(Machine)
    BY DEF DomainStops, KvmTypeOK
  <2>2. /\ events' \in Seq(Machine) /\ Len(events') = Len(events) + 1 /\ Len(events) \in Nat
        /\ events'[Len(events) + 1] = u /\ \A i \in 1 .. Len(events) : events'[i] = events[i]
    BY <2>1
  <2> QED
    BY <2>2 DEF Pending
<1>21. KvmTypeOK'
  BY <1>1, <1>2, <1>3, <1>4 DEF KvmTypeOK
<1>22. MachineCreateKnows'
  BY <1>1, <1>2, <1>3, <1>4 DEF MachineCreateKnows, StopsOf
<1>23. StopKnows'
  BY <1>1, <1>2, <1>3, <1>4 DEF StopKnows
<1>24. AddKnows'
  BY <1>1 DEF AddKnows
<1>25. NumbersAreOwn'
  BY <1>1 DEF NumbersAreOwn, Holds, StopsOf
<1>26. SomebodyCleans'
  BY <1>1, <1>2, <1>3, <1>4 DEF SomebodyCleans, StopsOf
<1>27. MachineRules'
  BY <1>1 DEF MachineRules, ForwardId
<1>28. RulesHaveMachine'
  BY <1>1 DEF RulesHaveMachine, Known
<1> QED
  BY <1>21, <1>22, <1>23, <1>24, <1>25, <1>26, <1>27, <1>28

\* A machine arrives by migration.
LEMMA MigrateInIInv ==
  ASSUME KvmIInv, NEW u \in Machine, NEW s \in MachineSource, MigrateIn(u, s)
  PROVE  KvmIInv'
<1> USE DEF KvmIInv
<1>1. UNCHANGED <<info, mounted, vmCreate, stopping, events, adding, unmountFailed, given>>
  BY DEF MigrateIn
<1>2. vmCreate[u].at = "none" /\ vm[u] # "running"
  BY UnusedFacts DEF MigrateIn
<1>3. PICK q \in MachineSeq : q = NextMachineSequence
  BY NextIsMachineSeq DEF KvmTypeOK
<1>4. /\ vmSequence' = q /\ stale' = stale \cup {q} /\ \E d \in Dest : SetPortForward(ForwardId(q), s, d)
      /\ vm' = [vm EXCEPT ![u] = "running"]
  BY <1>3 DEF MigrateIn
<1>5. /\ vm' \in [Machine -> {"none", "running", "gone"}] /\ vm'[u] = "running"
      /\ \A v \in Machine : v # u => vm'[v] = vm[v]
  BY <1>4 DEF KvmTypeOK
<1>6. MachineRules' /\ RulesHaveMachine'
  <2>1. Known(q)' /\ \A p \in MachineSeq : Known(p) => Known(p)'
    BY <1>1, <1>4 DEF Known
  <2>2. s \in Source
    BY KvmAssumption
  <2> QED
    BY <1>1, <1>4, <2>1, <2>2, SetKeeps
<1>9. \A v : (Pending(v)' <=> Pending(v))
  BY <1>1 DEF Pending
<1>21. KvmTypeOK'
  <2>1. q \in 0 .. (SequenceMod - 1)
    BY DEF MachineSeq
  <2> QED
    BY <1>1, <1>4, <1>5, <2>1 DEF KvmTypeOK
<1>22. MachineCreateKnows'
  BY <1>1, <1>2, <1>5, <1>9 DEF MachineCreateKnows, StopsOf
<1>23. StopKnows'
  BY <1>1 DEF StopKnows
<1>24. AddKnows'
  BY <1>1 DEF AddKnows
<1>25. NumbersAreOwn'
  BY <1>1, <1>4 DEF NumbersAreOwn, Holds, StopsOf
<1>26. SomebodyCleans'
  BY <1>1, <1>5, <1>9 DEF SomebodyCleans, StopsOf
<1>27. MachineRules'
  BY <1>6
<1>28. RulesHaveMachine'
  BY <1>6
<1> QED
  BY <1>21, <1>22, <1>23, <1>24, <1>25, <1>26, <1>27, <1>28

\* The event loop takes an event.
LEMMA LoopTakesIInv ==
  ASSUME KvmIInv, LoopTakes
  PROVE  KvmIInv'
<1> USE DEF KvmIInv
<1>1. /\ UNCHANGED <<vm, info, mounted, vmSequence, vmCreate, adding, stale, unmountFailed, given>>
      /\ UNCHANGED <<rules, broken>> /\ events # <<>> /\ stopping["loop"] = NoStop /\ events' = Tail(events)
  BY DEF LoopTakes, forwardVars
<1>2. PICK u \in Machine : u = Head(events)
  BY <1>1 DEF KvmTypeOK
<1>3. events' \in Seq(Machine) /\ Pending(u) /\ \A v : (Pending(v)' => Pending(v)) /\ (Pending(v) => v = u \/ Pending(v)')
  <2>1. events \in Seq(Machine)
    BY DEF KvmTypeOK
  <2>2. /\ events' \in Seq(Machine) /\ Len(events) \in Nat \ {0} /\ Len(events') = Len(events) - 1 /\ events[1] = u
        /\ \A i \in 1 .. Len(events') : events'[i] = events[i + 1]
    BY <1>1, <1>2, <2>1
  <2>3. ASSUME NEW i \in 1 .. Len(events), i # 1 PROVE i - 1 \in 1 .. Len(events') /\ events'[i - 1] = events[i]
    BY <2>2, <2>3
  <2>4. ASSUME NEW i \in 1 .. Len(events') PROVE i + 1 \in 1 .. Len(events) /\ events'[i] = events[i + 1]
    BY <2>2, <2>4
  <2>5. 1 \in 1 .. Len(events)
    BY <2>2
  <2> QED
    BY <2>2, <2>3, <2>4, <2>5 DEF Pending
<1>4. /\ stopping' \in [Actor -> StopState] /\ \A a \in Actor : a # "loop" => stopping'[a] = stopping[a]
      /\ stopping["loop"].uuid = NoSeq /\ stopping["loop"].seq = NoSeq /\ stopping["loop"].at = "none"
      /\ stopping'["loop"].at = "forget" /\ stopping'["loop"].uuid = u /\ stopping'["loop"].seq = NoSeq
  <2>1. stopping' = [stopping EXCEPT !["loop"] = [at |-> "forget", uuid |-> u, seq |-> NoSeq]]
    BY <1>2 DEF LoopTakes
  <2>2. [at |-> "forget", uuid |-> u, seq |-> NoSeq] \in StopState
    BY DEF StopState
  <2>3. stopping \in [Actor -> StopState] /\ "loop" \in Actor
    BY WorkersFacts DEF KvmTypeOK
  <2>4. NoStop.uuid = NoSeq /\ NoStop.seq = NoSeq /\ NoStop.at = "none"
    BY DEF NoStop
  <2> QED
    BY <1>1, <2>1, <2>2, <2>3, <2>4
<1>21. KvmTypeOK'
  BY <1>1, <1>3, <1>4 DEF KvmTypeOK
<1>22. MachineCreateKnows'
  BY <1>1, <1>3, <1>4, WorkersFacts DEF MachineCreateKnows, StopsOf
<1>23. StopKnows'
  BY <1>4, WorkersFacts DEF StopKnows
<1>24. AddKnows'
  BY <1>1 DEF AddKnows
<1>25. NumbersAreOwn'
  <2>1. \A v \in Machine, k \in MachineSeq \ stale' : Holds(v, k)' => Holds(v, k)
    BY <1>1, <1>4, WorkersFacts DEF Holds, StopsOf
  <2>2. \A b \in Actor, v \in Machine : stopping'[b].seq \in MachineSeq \ stale' => info'[v] # stopping'[b].seq
    BY <1>1, <1>4, WorkersFacts DEF NumbersAreOwn, Holds, StopsOf
  <2> QED
    BY <1>1, <1>4, WorkersFacts, <2>1, <2>2, OwnStays
<1>26. SomebodyCleans'
  BY <1>1, <1>3, <1>4, WorkersFacts, SMTT(30) DEF SomebodyCleans, StopsOf
<1>27. MachineRules'
  BY <1>1 DEF MachineRules, ForwardId
<1>28. RulesHaveMachine'
  <2>1. \A q \in MachineSeq : Known(q) => Known(q)'
    BY <1>1, <1>4, WorkersFacts DEF Known
  <2> QED
    BY <1>1, <1>4, WorkersFacts, <2>1, KnownStays
<1> QED
  BY <1>21, <1>22, <1>23, <1>24, <1>25, <1>26, <1>27, <1>28

\* handleStopped forgets a machine.
LEMMA StopForgetIInv ==
  ASSUME KvmIInv, NEW a \in Actor, StopForget(a)
  PROVE  KvmIInv'
<1> USE DEF KvmIInv
<1>1. /\ UNCHANGED <<vm, mounted, vmSequence, vmCreate, events, adding, stale, unmountFailed, given>>
      /\ UNCHANGED <<rules, broken>> /\ stopping[a].at = "forget" /\ stopping[a] \in StopState
  BY DEF StopForget, forwardVars, KvmTypeOK
<1>2. PICK u \in Machine : u = stopping[a].uuid
  BY <1>1, WorkersFacts DEF StopKnows
<1>3. /\ info' \in [Machine -> MachineSeq \cup {NoSeq}] /\ info'[u] = NoSeq /\ stopping[a].seq = NoSeq
      /\ \A v \in Machine : v # u => info'[v] = info[v]
  BY <1>1, <1>2 DEF StopForget, KvmTypeOK, StopKnows
<1>4. /\ stopping' \in [Actor -> StopState] /\ \A b \in Actor : b # a => stopping'[b] = stopping[b]
      /\ stopping'[a].at = (IF info[u] = NoSeq THEN "unmount" ELSE "forwards") /\ stopping'[a].uuid = u
      /\ stopping'[a].seq = info[u]
  <2>1. PICK t \in StopState : t = stopping[a]
    BY <1>1
  <2>2. PICK n : n = [t EXCEPT !.at = IF info[u] = NoSeq THEN "unmount" ELSE "forwards", !.seq = info[u]]
    OBVIOUS
  <2>3. n \in StopState /\ n.at = (IF info[u] = NoSeq THEN "unmount" ELSE "forwards") /\ n.uuid = t.uuid /\ n.seq = info[u]
    BY <2>2, WorkersFacts DEF StopState
  <2>4. stopping' = [stopping EXCEPT ![a] = n]
    BY <1>2, <2>1, <2>2 DEF StopForget, AfterForget
  <2> QED
    BY <1>2, <2>1, <2>3, <2>4 DEF KvmTypeOK
<1>9. \A v : (Pending(v)' <=> Pending(v))
  BY <1>1 DEF Pending
<1>21. KvmTypeOK'
  BY <1>1, <1>3, <1>4 DEF KvmTypeOK
<1>22. MachineCreateKnows'
  BY <1>1, <1>2, <1>3, <1>4, <1>9, WorkersFacts DEF MachineCreateKnows, StopsOf
<1>23. StopKnows'
  BY <1>2, <1>4, WorkersFacts DEF StopKnows
<1>24. AddKnows'
  BY <1>1, <1>3, WorkersFacts DEF AddKnows
<1>25. NumbersAreOwn'
  <2>1. \A v \in Machine, k \in MachineSeq \ stale' : Holds(v, k)' => Holds(v, k)
    BY <1>1, <1>2, <1>3, <1>4, WorkersFacts DEF Holds, StopsOf
  <2>2. \A b \in Actor, v \in Machine : stopping'[b].seq \in MachineSeq \ stale' => info'[v] # stopping'[b].seq
    BY <1>1, <1>2, <1>3, <1>4, WorkersFacts DEF NumbersAreOwn, Holds, StopsOf
  <2> QED
    BY <1>1, <1>2, <1>3, <1>4, WorkersFacts, <2>1, <2>2, OwnStays
<1>26. SomebodyCleans'
  BY <1>1, <1>2, <1>3, <1>4, <1>9, WorkersFacts DEF SomebodyCleans, StopsOf
<1>27. MachineRules'
  BY <1>1, <1>3 DEF MachineRules, ForwardId
<1>28. RulesHaveMachine'
  <2>1. \A q \in MachineSeq : Known(q) => Known(q)'
    BY <1>1, <1>2, <1>3, <1>4, WorkersFacts DEF Known
  <2> QED
    BY <1>1, <1>2, <1>3, <1>4, WorkersFacts, <2>1, KnownStays
<1> QED
  BY <1>21, <1>22, <1>23, <1>24, <1>25, <1>26, <1>27, <1>28

\* handleStopped removes the forwards of a machine.
LEMMA StopForwardsIInv ==
  ASSUME KvmIInv, NEW a \in Actor, StopForwards(a)
  PROVE  KvmIInv'
<1> USE DEF KvmIInv
<1>1. /\ UNCHANGED <<vm, info, mounted, vmSequence, vmCreate, events, adding, stale, unmountFailed, given>>
      /\ stopping[a].at = "forwards" /\ stopping[a] \in StopState
  BY DEF StopForwards, KvmTypeOK
<1>2. PICK q \in MachineSeq : q = stopping[a].seq
  BY <1>1, WorkersFacts DEF StopKnows
<1>3. /\ stopping' \in [Actor -> StopState] /\ \A b \in Actor : b # a => stopping'[b] = stopping[b]
      /\ stopping'[a].at = "unmount" /\ stopping'[a].uuid = stopping[a].uuid /\ stopping'[a].seq = NoSeq
  <2>1. PICK t \in StopState : t = stopping[a]
    BY <1>1
  <2>2. PICK n : n = [t EXCEPT !.at = "unmount", !.seq = NoSeq]
    OBVIOUS
  <2>3. n \in StopState /\ n.at = "unmount" /\ n.uuid = t.uuid /\ n.seq = NoSeq
    BY <2>2 DEF StopState
  <2>4. stopping' = [stopping EXCEPT ![a] = n]
    BY <2>1, <2>2 DEF StopForwards, KvmTypeOK
  <2> QED
    BY <2>1, <2>3, <2>4 DEF KvmTypeOK
<1>4. /\ rules' \subseteq rules /\ broken \subseteq broken' /\ \A r \in rules \ rules' : r.ns = ForwardId(q)
      /\ \A r \in rules' : r.ns = ForwardId(q) => r.port \in broken'
  <2>1. DropRules(OfNamespace(ForwardId(q)))
    BY <1>2 DEF StopForwards, RemoveAll
  <2> QED
    BY <2>1, DropFacts DEF OfNamespace
<1>5. \A p, r : ForwardId(p) = ForwardId(r) => p = r
  BY DEF ForwardId
<1>9. \A v : (Pending(v)' <=> Pending(v))
  BY <1>1 DEF Pending
<1>21. KvmTypeOK'
  BY <1>1, <1>3 DEF KvmTypeOK
<1>22. MachineCreateKnows'
  BY <1>1, <1>3, <1>9, WorkersFacts DEF MachineCreateKnows, StopsOf
<1>23. StopKnows'
  BY <1>1, <1>3, WorkersFacts DEF StopKnows
<1>24. AddKnows'
  BY <1>1 DEF AddKnows
<1>25. NumbersAreOwn'
  <2>1. \A v \in Machine, k \in MachineSeq \ stale' : Holds(v, k)' => Holds(v, k)
    BY <1>1, <1>3, WorkersFacts DEF Holds, StopsOf
  <2>2. \A b \in Actor, v \in Machine : stopping'[b].seq \in MachineSeq \ stale' => info'[v] # stopping'[b].seq
    BY <1>1, <1>3, WorkersFacts DEF NumbersAreOwn, Holds, StopsOf
  <2> QED
    BY <1>1, <1>3, WorkersFacts, <2>1, <2>2, OwnStays
<1>26. SomebodyCleans'
  BY <1>1, <1>3, <1>9, WorkersFacts DEF SomebodyCleans, StopsOf
<1>27. MachineRules'
  <2>1. \A v \in Machine : info[v] \in MachineSeq \ stale => info[v] # q
    BY <1>2 DEF NumbersAreOwn
  <2>2. ASSUME NEW v \in Machine, info[v] # NoSeq, info[v] \notin stale, NEW s \in given[v]
        PROVE  \E r \in rules' : r.ns = ForwardId(info[v]) /\ r.port = s.port
    BY <1>4, <1>5, <2>1, <2>2, WorkersFacts DEF MachineRules
  <2> QED
    BY <1>1, <1>4, <2>2 DEF MachineRules, ForwardId
<1>28. RulesHaveMachine'
  <2>1. \A p \in MachineSeq : p # q /\ Known(p) => Known(p)'
    BY <1>1, <1>2, <1>3, WorkersFacts DEF Known
  <2>2. ASSUME NEW r \in rules', r.port \notin broken' PROVE Known(r.ns.id)'
    BY <1>4, <2>1, <2>2 DEF RulesHaveMachine, MachineRules
  <2> QED
    BY <2>2 DEF RulesHaveMachine
<1> QED
  BY <1>21, <1>22, <1>23, <1>24, <1>25, <1>26, <1>27, <1>28

\* handleStopped unmounts the flist of a machine.
LEMMA StopUnmountIInv ==
  ASSUME KvmIInv, NEW a \in Actor, StopUnmount(a)
  PROVE  KvmIInv'
<1> USE DEF KvmIInv
<1>1. /\ UNCHANGED <<vm, info, vmSequence, vmCreate, events, adding, stale, given>> /\ UNCHANGED <<rules, broken>>
      /\ stopping[a].at = "unmount" /\ stopping[a].seq = NoSeq
  BY DEF StopUnmount, forwardVars, StopKnows
<1>2. PICK u \in Machine : u = stopping[a].uuid
  BY <1>1, WorkersFacts DEF StopKnows
<1>3. /\ stopping' \in [Actor -> StopState] /\ \A b \in Actor : b # a => stopping'[b] = stopping[b]
      /\ stopping'[a] = NoStop /\ stopping'[a].at = "none" /\ stopping'[a].uuid = NoSeq /\ stopping'[a].seq = NoSeq
  <2>1. NoStop \in StopState /\ NoStop.at = "none" /\ NoStop.uuid = NoSeq /\ NoStop.seq = NoSeq
    BY DEF NoStop, StopState
  <2> QED
    BY <2>1 DEF StopUnmount, KvmTypeOK
<1>4. /\ mounted' \in [Machine -> BOOLEAN] /\ unmountFailed \subseteq unmountFailed'
      /\ \A v \in Machine : mounted'[v] => mounted[v]
      /\ mounted'[u] => u \in unmountFailed'
  BY <1>2 DEF StopUnmount, KvmTypeOK
<1>9. \A v : (Pending(v)' <=> Pending(v))
  BY <1>1 DEF Pending
<1>21. KvmTypeOK'
  BY <1>1, <1>3, <1>4 DEF KvmTypeOK
<1>22. MachineCreateKnows'
  BY <1>1, <1>3, <1>4, <1>9, WorkersFacts DEF MachineCreateKnows, StopsOf
<1>23. StopKnows'
  BY <1>1, <1>3, WorkersFacts DEF StopKnows
<1>24. AddKnows'
  BY <1>1 DEF AddKnows
<1>25. NumbersAreOwn'
  <2>1. \A v \in Machine, k \in MachineSeq \ stale' : Holds(v, k)' => Holds(v, k)
    BY <1>1, <1>3, WorkersFacts DEF Holds, StopsOf
  <2>2. \A b \in Actor, v \in Machine : stopping'[b].seq \in MachineSeq \ stale' => info'[v] # stopping'[b].seq
    BY <1>1, <1>3, WorkersFacts DEF NumbersAreOwn, Holds, StopsOf
  <2> QED
    BY <1>1, <1>3, WorkersFacts, <2>1, <2>2, OwnStays
<1>26. SomebodyCleans'
  BY <1>1, <1>2, <1>3, <1>4, <1>9, WorkersFacts DEF SomebodyCleans, StopsOf
<1>27. MachineRules'
  BY <1>1 DEF MachineRules, ForwardId
<1>28. RulesHaveMachine'
  <2>1. \A q \in MachineSeq : Known(q) => Known(q)'
    BY <1>1, <1>3, WorkersFacts DEF Known
  <2> QED
    BY <1>1, <1>3, WorkersFacts, <2>1, KnownStays
<1> QED
  BY <1>21, <1>22, <1>23, <1>24, <1>25, <1>26, <1>27, <1>28

\* A portforward-add looks up its machine.
LEMMA AddLookupIInv ==
  ASSUME KvmIInv, NEW u \in Machine, AddLookup(u)
  PROVE  KvmIInv'
<1> USE DEF KvmIInv
<1>1. /\ UNCHANGED <<vm, info, mounted, vmSequence, vmCreate, stopping, events, stale, unmountFailed, given>>
      /\ UNCHANGED <<rules, broken>> /\ vm[u] = "running" /\ info[u] # NoSeq
  BY DEF AddLookup, forwardVars
<1>2. adding' \in [uuid : Machine \cup {NoSeq}, seq : MachineSeq \cup {NoSeq}] /\ adding'.uuid = u /\ adding'.seq = info[u]
  BY WorkersFacts DEF AddLookup
<1>9. \A v : (Pending(v)' <=> Pending(v))
  BY <1>1 DEF Pending
<1>21. KvmTypeOK'
  BY <1>1, <1>2 DEF KvmTypeOK
<1>22. MachineCreateKnows'
  BY <1>1, <1>2, <1>9, WorkersFacts DEF MachineCreateKnows, StopsOf
<1>23. StopKnows'
  BY <1>1 DEF StopKnows
<1>24. AddKnows'
  BY <1>1, <1>2, WorkersFacts DEF AddKnows
<1>25. NumbersAreOwn'
  <2>1. \A v \in Machine, k \in MachineSeq \ stale' : Holds(v, k)' => Holds(v, k)
    BY <1>1, <1>2, WorkersFacts DEF Holds, StopsOf
  <2>2. \A b \in Actor, v \in Machine : stopping'[b].seq \in MachineSeq \ stale' => info'[v] # stopping'[b].seq
    BY <1>1, <1>2, WorkersFacts DEF NumbersAreOwn, Holds, StopsOf
  <2> QED
    BY <1>1, <1>2, WorkersFacts, <2>1, <2>2, OwnStays
<1>26. SomebodyCleans'
  BY <1>1, <1>9 DEF SomebodyCleans, StopsOf
<1>27. MachineRules'
  BY <1>1 DEF MachineRules, ForwardId
<1>28. RulesHaveMachine'
  BY <1>1 DEF RulesHaveMachine, Known
<1> QED
  BY <1>21, <1>22, <1>23, <1>24, <1>25, <1>26, <1>27, <1>28

\* A portforward-add sets its forward, or fails.
LEMMA AddForwardIInv ==
  ASSUME KvmIInv, AddForward
  PROVE  KvmIInv'
<1> USE DEF KvmIInv
<1>1. /\ UNCHANGED <<vm, info, mounted, vmSequence, vmCreate, stopping, events, unmountFailed>>
      /\ adding # NoAdd /\ adding' = NoAdd
  BY DEF AddForward
<1>2. PICK w \in Machine, q \in MachineSeq : w = adding.uuid /\ q = adding.seq
  BY <1>1, WorkersFacts
<1>3. adding' \in [uuid : Machine \cup {NoSeq}, seq : MachineSeq \cup {NoSeq}] /\ adding'.uuid = NoSeq /\ adding'.seq = NoSeq
  BY <1>1 DEF NoAdd
<1>4. /\ stale \subseteq stale' /\ given' \in [Machine -> SUBSET MachineSource]
      /\ \A v \in Machine : v # w => given'[v] = given[v]
  BY <1>2 DEF AddForward, KvmTypeOK
<1>5. MachineRules' /\ RulesHaveMachine'
  <2>1. CASE UNCHANGED <<rules, broken, given, stale>>
    BY <1>1, <2>1 DEF MachineRules, RulesHaveMachine, Known, ForwardId
  <2>2. CASE /\ \E s \in MachineSource, d \in Dest :
                  /\ SetPortForward(ForwardId(q), s, d)
                  /\ given' = [given EXCEPT ![w] = @ \cup {s}]
             /\ stale' = IF info[w] = q THEN stale ELSE stale \cup {q}
    <3>1. PICK s \in MachineSource, d \in Dest :
            SetPortForward(ForwardId(q), s, d) /\ given' = [given EXCEPT ![w] = @ \cup {s}]
      BY <2>2
    <3>2. Known(q)' /\ \A p \in MachineSeq : Known(p) => Known(p)'
      BY <1>1, <1>4, <2>2 DEF Known
    <3>3. s \in Source /\ given'[w] = given[w] \cup {s}
      BY <3>1, KvmAssumption DEF KvmTypeOK
    <3>4. info[w] \in {NoSeq, q}
      BY <1>1, <1>2 DEF AddKnows
    <3> QED
      BY <1>1, <1>4, <2>2, <3>1, <3>2, <3>3, <3>4, SetKeeps
  <2> QED
    BY <1>2, <2>1, <2>2 DEF AddForward, forwardVars
<1>9. \A v : (Pending(v)' <=> Pending(v))
  BY <1>1 DEF Pending
<1>21. KvmTypeOK'
  BY <1>1, <1>3, <1>4 DEF KvmTypeOK
<1>22. MachineCreateKnows'
  BY <1>1, <1>2, <1>3, <1>4, <1>9, WorkersFacts DEF MachineCreateKnows, StopsOf
<1>23. StopKnows'
  BY <1>1 DEF StopKnows
<1>24. AddKnows'
  BY <1>1 DEF AddKnows
<1>25. NumbersAreOwn'
  <2>1. \A v \in Machine, k \in MachineSeq \ stale' : Holds(v, k)' => Holds(v, k)
    BY <1>1, <1>3, <1>4, WorkersFacts DEF Holds, StopsOf
  <2>2. \A b \in Actor, v \in Machine : stopping'[b].seq \in MachineSeq \ stale' => info'[v] # stopping'[b].seq
    BY <1>1, <1>3, <1>4, WorkersFacts DEF NumbersAreOwn, Holds, StopsOf
  <2> QED
    BY <1>1, <1>3, <1>4, WorkersFacts, <2>1, <2>2, OwnStays
<1>26. SomebodyCleans'
  BY <1>1, <1>9 DEF SomebodyCleans, StopsOf
<1>27. MachineRules'
  BY <1>5
<1>28. RulesHaveMachine'
  BY <1>5
<1> QED
  BY <1>21, <1>22, <1>23, <1>24, <1>25, <1>26, <1>27, <1>28

\* A forward of a machine is removed.
LEMMA RemoveForwardIInv ==
  ASSUME KvmIInv, NEW u \in Machine, NEW s \in MachineSource, RemoveForward(u, s)
  PROVE  KvmIInv'
<1> USE DEF KvmIInv
<1>1. /\ UNCHANGED <<vm, info, mounted, vmSequence, vmCreate, stopping, events, adding, stale, unmountFailed>>
      /\ info[u] # NoSeq /\ vm[u] = "running"
  BY DEF RemoveForward
<1>2. PICK q \in MachineSeq : q = info[u]
  BY <1>1, WorkersFacts
<1>3. /\ given' \in [Machine -> SUBSET MachineSource] /\ \A v \in Machine : v # u => given'[v] = given[v]
      /\ \A t \in given'[u] : t \in given[u] /\ t.port # s.port
  BY DEF RemoveForward, KvmTypeOK
<1>4. /\ rules' \subseteq rules /\ broken \subseteq broken'
      /\ \A r \in rules \ rules' : r.ns = ForwardId(q) /\ r.port = s.port
  <2>1. DropRules({r \in OfNamespace(ForwardId(q)) : r.port = s.port})
    BY <1>2 DEF RemoveForward, RemovePortForward
  <2> QED
    BY <2>1, DropFacts DEF OfNamespace
<1>5. \A p, r : ForwardId(p) = ForwardId(r) => p = r
  BY DEF ForwardId
<1>9. \A v : (Pending(v)' <=> Pending(v))
  BY <1>1 DEF Pending
<1>21. KvmTypeOK'
  BY <1>1, <1>3 DEF KvmTypeOK
<1>22. MachineCreateKnows'
  BY <1>1, <1>3, <1>9, WorkersFacts DEF MachineCreateKnows, StopsOf
<1>23. StopKnows'
  BY <1>1 DEF StopKnows
<1>24. AddKnows'
  BY <1>1 DEF AddKnows
<1>25. NumbersAreOwn'
  BY <1>1 DEF NumbersAreOwn, Holds, StopsOf
<1>26. SomebodyCleans'
  BY <1>1, <1>9 DEF SomebodyCleans, StopsOf
<1>27. MachineRules'
  <2>1. ASSUME NEW v \in Machine, info[v] = q, q \notin stale PROVE v = u
    BY <1>2, <2>1 DEF NumbersAreOwn, Holds
  <2>2. ASSUME NEW v \in Machine, info[v] # NoSeq, info[v] \notin stale, NEW t \in given'[v]
        PROVE  \E r \in rules' : r.ns = ForwardId(info[v]) /\ r.port = t.port
    <3>1. PICK r \in rules : r.ns = ForwardId(info[v]) /\ r.port = t.port
      BY <1>3, <2>2 DEF MachineRules
    <3>2. r \in rules'
      BY <1>3, <1>4, <1>5, <2>1, <2>2, <3>1
    <3> QED
      BY <3>1, <3>2
  <2> QED
    BY <1>1, <1>4, <2>2 DEF MachineRules, ForwardId
<1>28. RulesHaveMachine'
  BY <1>1, <1>4 DEF RulesHaveMachine, Known
<1> QED
  BY <1>21, <1>22, <1>23, <1>24, <1>25, <1>26, <1>27, <1>28

\* At the start there is no machine.
LEMMA KvmInitIInv == KvmInit /\ ForwardInit => KvmIInv
<1> SUFFICES ASSUME KvmInit, ForwardInit PROVE KvmIInv
  OBVIOUS
<1> USE DEF KvmInit, ForwardInit
<1>1. NoSeq \notin MachineSeq /\ NoSeq \notin Machine
  BY KvmAssumption DEF MachineSeq
<1>2. NoCreate \in CreateState /\ NoCreate.at = "none" /\ NoCreate.seq = NoSeq
  BY DEF NoCreate, CreateState
<1>3. NoStop \in StopState /\ NoStop.at = "none" /\ NoStop.uuid = NoSeq /\ NoStop.seq = NoSeq
  BY DEF NoStop, StopState
<1>4. NoAdd \in [uuid : Machine \cup {NoSeq}, seq : MachineSeq \cup {NoSeq}] /\ NoAdd.uuid = NoSeq /\ NoAdd.seq = NoSeq
  BY DEF NoAdd
<1>5. \A u : ~Pending(u)
  BY DEF Pending
<1>6. /\ vmCreate \in [Machine -> CreateState] /\ stopping \in [Actor -> StopState]
      /\ \A u \in Machine : vmCreate[u] = NoCreate /\ info[u] = NoSeq /\ ~mounted[u]
      /\ \A a \in Actor : stopping[a] = NoStop
  BY <1>2, <1>3 DEF Actor
<1>7. KvmTypeOK
  <2>1. 0 \in 0 .. (SequenceMod - 1)
    BY KvmAssumption
  <2>2. events \in Seq(Machine)
    OBVIOUS
  <2>3. mounted \in [Machine -> BOOLEAN]
    OBVIOUS
  <2>4. vm \in [Machine -> {"none", "running", "gone"}] /\ info \in [Machine -> MachineSeq \cup {NoSeq}]
        /\ given \in [Machine -> SUBSET MachineSource]
    OBVIOUS
  <2> QED
    BY <1>4, <1>6, <2>1, <2>2, <2>3, <2>4 DEF KvmTypeOK
<1>8. MachineCreateKnows
  BY <1>2, <1>6 DEF MachineCreateKnows
<1>9. StopKnows
  BY <1>3, <1>6 DEF StopKnows
<1>10. AddKnows
  BY DEF AddKnows
<1>11. NumbersAreOwn
  BY <1>1, <1>2, <1>3, <1>4, <1>6 DEF NumbersAreOwn, Holds, StopsOf
<1>12. SomebodyCleans
  BY <1>6 DEF SomebodyCleans
<1>13. MachineRules /\ RulesHaveMachine
  BY <1>6 DEF MachineRules, RulesHaveMachine
<1> QED
  BY <1>7, <1>8, <1>9, <1>10, <1>11, <1>12, <1>13 DEF KvmIInv

\* What the invariant says of the machines.
LEMMA KvmIInvSeparate == KvmIInv => MachinesAreSeparate
<1> SUFFICES ASSUME KvmIInv PROVE MachinesAreSeparate
  OBVIOUS
<1> USE DEF KvmIInv
<1>1. DOMAIN stopping = Actor
  BY DEF KvmTypeOK
<1>2. MachineLeavesNothing
  <2> SUFFICES ASSUME NEW u \in Machine, vm[u] = "gone", Settled(u)
               PROVE  info[u] = NoSeq /\ (mounted[u] => u \in unmountFailed)
    BY DEF MachineLeavesNothing
  <2>1. vmCreate[u].at = "none" /\ ~Pending(u) /\ StopsOf(u) = {}
    BY <1>1 DEF Settled, Pending, StopsOf, NoCreate
  <2> QED
    BY <2>1 DEF SomebodyCleans
<1>3. ForwardHasMachine
  BY <1>1 DEF ForwardHasMachine, RulesHaveMachine, Known
<1>4. ForwardsStay
  BY DEF ForwardsStay, MachineRules, OfNamespace
<1>5. SequenceNotReserved
  <2> SUFFICES ASSUME NEW u \in Machine PROVE info[u] \notin ReservedSeq
    BY DEF SequenceNotReserved
  <2>1. info[u] \in MachineSeq \cup {NoSeq}
    BY DEF KvmTypeOK
  <2>2. ReservedSeq \subseteq Nat /\ NoSeq \notin Nat
    BY KvmAssumption
  <2> QED
    BY <2>1, <2>2 DEF MachineSeq
<1> QED
  BY <1>2, <1>3, <1>4, <1>5 DEF MachinesAreSeparate

\* subsys/kvm/manager.go: whatever interleaving of creates, domains that stop, events
\* and commands on forwards, nothing is left of a machine that is gone but what could
\* not be unmounted, no rule outlives its machine but those nft did not drop, a machine
\* keeps the forwards it was given while its number is its own, and no machine gets a
\* reserved number, also when the counter wraps around.
THEOREM MachinesSeparate == KvmSpec => []MachinesAreSeparate
<1>1. KvmInit /\ ForwardInit => KvmIInv
  BY KvmInitIInv
<1>2. KvmIInv /\ [KvmNext]_machineVars => KvmIInv'
  <2> SUFFICES ASSUME KvmIInv, [KvmNext]_machineVars PROVE KvmIInv'
    OBVIOUS
  <2>1. ASSUME NEW u \in Machine, NEW flist \in BOOLEAN, NEW todo \in {{}} \cup {{s} : s \in MachineSource},
               CreateBegin(u, flist, todo)
        PROVE  KvmIInv'
    <3>1. todo \in SUBSET MachineSource
      OBVIOUS
    <3> QED
      BY <2>1, <3>1, CreateBeginIInv
  <2>2. ASSUME NEW u \in Machine, \/ CreateMount(u) \/ CreateForward(u) \/ CreateNetworkFails(u)
                                  \/ CreateDomain(u) \/ CreateCheck(u)
        PROVE  KvmIInv'
    BY <2>2, CreateMountIInv, CreateForwardIInv, CreateNetworkFailsIInv, CreateDomainIInv, CreateCheckIInv
  <2>3. ASSUME NEW u \in Machine, NEW s \in MachineSource,
               DomainStops(u) \/ AddLookup(u) \/ MigrateIn(u, s) \/ RemoveForward(u, s)
        PROVE  KvmIInv'
    BY <2>3, DomainStopsIInv, AddLookupIInv, MigrateInIInv, RemoveForwardIInv
  <2>4. ASSUME NEW u \in Machine, DomainStops(u) \/ AddLookup(u) PROVE KvmIInv'
    BY <2>4, DomainStopsIInv, AddLookupIInv
  <2>5. ASSUME NEW a \in Machine \cup {"loop"}, StopForget(a) \/ StopForwards(a) \/ StopUnmount(a) PROVE KvmIInv'
    BY <2>5, StopForgetIInv, StopForwardsIInv, StopUnmountIInv DEF Actor
  <2>6. CASE LoopTakes \/ AddForward
    BY <2>6, LoopTakesIInv, AddForwardIInv
  <2>7. CASE UNCHANGED machineVars
    <3>1. /\ UNCHANGED <<vm, info, mounted, vmSequence, vmCreate, stopping, events, adding, stale, unmountFailed, given>>
          /\ UNCHANGED <<rules, broken>>
      BY <2>7 DEF machineVars, kvmVars, forwardVars
    <3> QED
      BY <3>1 DEF KvmIInv, KvmTypeOK, MachineCreateKnows, StopKnows, AddKnows, NumbersAreOwn, Holds, SomebodyCleans,
         MachineRules, RulesHaveMachine, Known, StopsOf, Pending, ForwardId
  <2> QED
    BY <2>1, <2>2, <2>3, <2>4, <2>5, <2>6, <2>7 DEF KvmNext
<1> QED
  BY <1>1, <1>2, KvmIInvSeparate, PTL DEF KvmSpec

-----------------------------------------------------------------------------
(* Cgroups.                                                                *)

\* A command under way.
GroupCommand ==
  [pc : {"exists", "stat", "mkdir", "reset1", "reset2", "reset3", "tasks", "task", "limits", "write1",
         "write2", "report", "rexists", "rtasks", "rmove", "done"},
   op : CommandOp, g : Group, p : Pid, s : Asked, left : SUBSET Pid, swap : Nat,
   made : BOOLEAN, clean : BOOLEAN, res : {"ok", "failed", "not found"}]

\* The types of the variables.
CgroupTypeOK ==
  /\ dir \subseteq Group /\ files \in [Group -> [a : Nat, b : Nat]] /\ live \subseteq Pid
  /\ member \in [Pid -> [Subsystem -> Group \cup {RootGroup}]]
  /\ command \in [Caller -> {NoCommand} \cup GroupCommand]
  /\ kept \in [Group -> [a : Nat, b : Nat]] /\ removed \subseteq Group

\* Where a command can be.
Sensible(m) ==
  /\ m.pc \in {"reset1", "reset2", "reset3"} => m.op = "reset" \/ m.made
  /\ m.pc \in {"limits", "write1", "write2", "report"} => m.op = "spec"
  /\ m.pc = "limits" => m.g[1] = "memory"
  /\ m.pc \in {"rexists", "rtasks", "rmove"} => m.op = "remove"
  /\ m.pc \in {"exists", "stat", "mkdir", "reset1", "reset2", "reset3", "tasks", "task"} => m.op # "remove"
  /\ m.pc = "tasks" => m.op = "tasks"
  /\ m.pc = "task" => m.op \in {"add", "del"}
  /\ m.pc \notin {"idle", "done"} => m.res = "ok"

\* How far an undisturbed memory spec has come.
SpecCame(m) ==
  (m.pc # "idle" /\ m.op = "spec" /\ m.clean /\ m.g[1] = "memory" /\ m.s.a # 0) =>
    /\ m.pc = "write1" => m.g \in dir /\ m.swap = files[m.g].b
    /\ m.pc = "write2" => m.g \in dir /\ IF SwapFirst(m.swap, m.s.a) THEN files[m.g].b = m.s.a + m.s.b
                                         ELSE files[m.g].a = m.s.a
    /\ m.pc = "report" \/ (m.pc = "done" /\ m.res = "ok") => files[m.g] = [a |-> m.s.a, b |-> m.s.a + m.s.b]

\* How far an undisturbed remove has come.
RemoveCame(m) ==
  (m.pc # "idle" /\ m.op = "remove" /\ m.clean) =>
    /\ m.pc = "rtasks" => m.g \in dir
    /\ m.pc = "rmove" => m.g \in dir /\ Members(m.g) \subseteq m.left
    /\ m.pc = "done" => m.res # "failed"

\* Both, of every command.
CommandsCame ==
  \A c \in Caller : Sensible(command[c]) /\ SpecCame(command[c]) /\ RemoveCame(command[c])

\* The kernel keeps every limit below the memsw limit.
LimitsAreOrdered == \A g \in Group : g[1] = "memory" => files[g].a <= files[g].b

\* Limits that are kept are those of a group nobody is changing.
KeptKnows ==
  \A g \in Group : kept[g] # NoLimits =>
    g \in dir /\ files[g] = kept[g] /\ \A d \in Caller : ~Changing(d, g)

\* A removed group is gone, and nobody is about to create it.
RemovedKnows ==
  /\ removed \cap dir = {}
  /\ \A c \in Caller : command[c].pc \in {"stat", "mkdir"} => command[c].g \notin removed

\* The inductive invariant of the cgroups.
CgroupIInv ==
  CgroupTypeOK /\ CommandsCame /\ LimitsAreOrdered /\ KeptKnows /\ RemovedKnows

\* The fields of a command under way.
LEMMA GroupCommandFields ==
  ASSUME CgroupTypeOK, NEW c \in Caller
  PROVE  /\ command[c].pc = "idle" <=> command[c] = NoCommand
         /\ command[c].pc # "idle" => command[c] \in GroupCommand
<1>1. command[c] \in {NoCommand} \cup GroupCommand
  BY DEF CgroupTypeOK
<1>2. \A m \in GroupCommand : m.pc # "idle"
  BY DEF GroupCommand
<1>3. NoCommand.pc = "idle"
  BY DEF NoCommand
<1> QED
  BY <1>1, <1>2, <1>3

\* The groups there are.
LEMMA GroupKinds ==
  \A g \in Group : g[1] \in {"memory", "cpuset"} /\ g # RootGroup /\ (g[1] = "memory" <=> g[1] # "cpuset")
<1> SUFFICES ASSUME NEW g \in Group PROVE g[1] \in {"memory", "cpuset"} /\ g # RootGroup
  BY Zenon
<1>1. g[1] \in {"memory", "cpuset"}
  BY CgroupAssumption DEF Subsystem
<1>2. RootGroup[1] = "root"
  BY DEF RootGroup
<1> QED
  BY <1>1, <1>2

\* A step of c leaves the other commands as they were, but for the mark that they
\* were disturbed.
Undisturbed(c, g, ops) ==
  \A d \in Caller : d # c =>
    LET m == command[d]  n == command'[d] IN
    /\ n.pc = m.pc
    /\ m.pc # "idle" =>
         /\ n.op = m.op /\ n.g = m.g /\ n.s = m.s /\ n.swap = m.swap /\ n.left = m.left
         /\ n.made = m.made /\ n.res = m.res
         /\ n.clean => m.clean /\ ~(m.g = g /\ m.op \in ops)

\* A step of c that disturbs the commands on its group.
LEMMA MovedFacts ==
  ASSUME CgroupTypeOK, NEW c \in Caller, NEW f \in GroupCommand, NEW ops, command' = Moved(c, f, ops)
  PROVE  command' \in [Caller -> {NoCommand} \cup GroupCommand] /\ command'[c] = f /\ Undisturbed(c, f.g, ops)
<1>1. command'[c] = f
  BY DEF Moved
<1>2. ASSUME NEW d \in Caller, d # c
      PROVE  \/ command'[d] = command[d] /\ ~(command[d].pc # "idle" /\ command[d].g = f.g /\ command[d].op \in ops)
             \/ command[d].pc # "idle" /\ command'[d] = [command[d] EXCEPT !.clean = FALSE]
  BY <1>2 DEF Moved, CommandAt
<1>3. ASSUME NEW d \in Caller, d # c
      PROVE  command'[d] \in {NoCommand} \cup GroupCommand
  <2>1. \A m \in GroupCommand : [m EXCEPT !.clean = FALSE] \in GroupCommand
    BY DEF GroupCommand
  <2>2. command[d] \in {NoCommand} \cup GroupCommand
    BY DEF CgroupTypeOK
  <2> QED
    BY <1>2, <1>3, <2>1, <2>2, GroupCommandFields
<1>4. command' \in [Caller -> {NoCommand} \cup GroupCommand]
  BY <1>1, <1>3 DEF Moved
<1>5. ASSUME NEW d \in Caller, d # c, command'[d] = [command[d] EXCEPT !.clean = FALSE], command[d] \in GroupCommand
      PROVE  LET m == command[d]  n == command'[d] IN
             /\ n.pc = m.pc /\ n.op = m.op /\ n.g = m.g /\ n.s = m.s /\ n.swap = m.swap /\ n.left = m.left
             /\ n.made = m.made /\ n.res = m.res /\ n.clean = FALSE
  BY <1>5 DEF GroupCommand
<1>6. Undisturbed(c, f.g, ops)
  BY <1>2, <1>5, GroupCommandFields DEF Undisturbed
<1> QED
  BY <1>1, <1>4, <1>6

\* A step of c that disturbs nobody.
LEMMA ExceptFacts ==
  ASSUME CgroupTypeOK, NEW c \in Caller, NEW f \in {NoCommand} \cup GroupCommand, command' = [command EXCEPT ![c] = f]
  PROVE  command' \in [Caller -> {NoCommand} \cup GroupCommand] /\ command'[c] = f
         /\ \A g : Undisturbed(c, g, {})
BY DEF CgroupTypeOK, Undisturbed

\* What a step of c has to show for the invariant to stay.
LEMMA CallerStep ==
  ASSUME CgroupIInv, NEW c \in Caller, NEW f, command'[c] = f, NEW g \in Group, NEW ops, Undisturbed(c, g, ops),
         CgroupTypeOK', LimitsAreOrdered', KeptKnows', RemovedKnows',
         Sensible(f), SpecCame(f)', RemoveCame(f)',
         \A h \in Group : h # g => files'[h] = files[h] /\ (h \in dir' <=> h \in dir),
         \/ files'[g] = files[g] /\ (g \in dir' <=> g \in dir)
         \/ "spec" \in ops /\ ("remove" \in ops \/ g \in dir'),
         \A h \in Group : Members(h)' \subseteq Members(h) \/ (h = g /\ "remove" \in ops)
  PROVE  CgroupIInv'
<1> USE DEF CgroupIInv
<1>1. ASSUME NEW d \in Caller, d # c PROVE Sensible(command'[d])
  BY <1>1 DEF CommandsCame, Sensible, Undisturbed
<1>2. ASSUME NEW d \in Caller, d # c PROVE SpecCame(command[d])'
  <2> SUFFICES ASSUME command'[d].pc # "idle", command'[d].op = "spec", command'[d].clean PROVE SpecCame(command[d])'
    BY DEF SpecCame
  <2>1. /\ command[d].pc # "idle" /\ command[d].op = "spec" /\ command[d].clean /\ command[d].g \in Group
        /\ ~(command[d].g = g /\ "spec" \in ops)
    <3>1. /\ command[d].pc # "idle" /\ command[d].op = "spec" /\ command[d].clean
          /\ ~(command[d].g = g /\ "spec" \in ops)
      BY <1>2 DEF Undisturbed
    <3>2. command[d] \in GroupCommand
      BY <3>1, GroupCommandFields
    <3>3. command[d].g \in Group
      BY <3>2 DEF GroupCommand
    <3> QED
      BY <3>1, <3>3
  <2>2. files'[command[d].g] = files[command[d].g] /\ (command[d].g \in dir' <=> command[d].g \in dir)
    BY <2>1
  <2>3. SpecCame(command[d])
    BY DEF CommandsCame
  <2> QED
    BY <1>2, <2>1, <2>2, <2>3 DEF SpecCame, Undisturbed, SwapFirst
<1>3. ASSUME NEW d \in Caller, d # c PROVE RemoveCame(command[d])'
  <2> SUFFICES ASSUME command'[d].pc # "idle", command'[d].op = "remove", command'[d].clean PROVE RemoveCame(command[d])'
    BY DEF RemoveCame
  <2>1. /\ command[d].pc # "idle" /\ command[d].op = "remove" /\ command[d].clean /\ command[d].g \in Group
        /\ ~(command[d].g = g /\ "remove" \in ops)
    <3>1. /\ command[d].pc # "idle" /\ command[d].op = "remove" /\ command[d].clean
          /\ ~(command[d].g = g /\ "remove" \in ops)
      BY <1>3 DEF Undisturbed
    <3>2. command[d] \in GroupCommand
      BY <3>1, GroupCommandFields
    <3>3. command[d].g \in Group
      BY <3>2 DEF GroupCommand
    <3> QED
      BY <3>1, <3>3
  <2>2. ASSUME NEW h \in Group, h = command[d].g
        PROVE  /\ h \in dir => h \in dir'
               /\ Members(h)' \subseteq Members(h) /\ command'[d].g = h
    BY <1>3, <2>1, <2>2 DEF Undisturbed
  <2>3. RemoveCame(command[d])
    BY DEF CommandsCame
  <2> QED
    BY <1>3, <2>1, <2>2, <2>3 DEF RemoveCame, Undisturbed, Members
<1>4. CommandsCame'
  BY <1>1, <1>2, <1>3 DEF CommandsCame
<1> QED
  BY <1>4

\* A command that may change the limits of its group.
Changes(m) == m.pc \notin {"idle", "done"} /\ (m.op \in {"reset", "spec", "remove"} \/ m.made)

\* Changing, by the fields of the command.
LEMMA ChangingIs == \A d \in Caller : \A g : Changing(d, g) <=> Changes(command[d]) /\ command[d].g = g
BY DEF Changing, Changes, CommandAt

\* Limits stay kept while the group stays as it is and c does not turn to it.
LEMMA KeptStays ==
  ASSUME CgroupIInv, NEW c \in Caller, NEW f, command'[c] = f, NEW g, NEW ops, Undisturbed(c, g, ops),
         \A h \in Group : kept'[h] # NoLimits => kept'[h] = kept[h] /\ h \in dir' /\ files'[h] = files[h],
         \A h \in Group : Changes(f) /\ f.g = h => kept'[h] = NoLimits
  PROVE  KeptKnows'
<1> SUFFICES ASSUME NEW h \in Group, kept'[h] # NoLimits PROVE h \in dir' /\ files'[h] = kept'[h] /\ \A d \in Caller : ~Changing(d, h)'
  BY DEF KeptKnows
<1>1. h \in dir' /\ files'[h] = kept'[h] /\ \A d \in Caller : ~(Changes(command[d]) /\ command[d].g = h)
  BY ChangingIs DEF CgroupIInv, KeptKnows
<1>2. ASSUME NEW d \in Caller PROVE ~(Changes(command'[d]) /\ command'[d].g = h)
  <2>1. CASE d = c
    BY <2>1
  <2>2. CASE d # c
    BY <1>1, <2>2 DEF Undisturbed, Changes
  <2> QED
    BY <2>1, <2>2
<1> QED
  BY <1>1, <1>2 DEF Changing, Changes, CommandAt

\* A step that changes nothing but the command of c, which is about its group as before.
LEMMA PlainStep ==
  ASSUME CgroupIInv, NEW c \in Caller, command[c] \in GroupCommand, NEW f,
         command' \in [Caller -> {NoCommand} \cup GroupCommand], command'[c] = f, NEW ops,
         Undisturbed(c, command[c].g, ops), UNCHANGED <<dir, files, live, member, kept, removed>>,
         Sensible(f), SpecCame(f)', RemoveCame(f)',
         Changes(f) => Changes(command[c]) /\ f.g = command[c].g,
         f.pc \in {"stat", "mkdir"} => f.g \notin removed
  PROVE  CgroupIInv'
<1> USE DEF CgroupIInv
<1>1. CgroupTypeOK' /\ LimitsAreOrdered'
  BY DEF CgroupTypeOK, LimitsAreOrdered
<1>2. RemovedKnows'
  BY DEF RemovedKnows, Undisturbed
<1>3. \A h \in Group : Changes(command[c]) /\ command[c].g = h => kept[h] = NoLimits
  BY ChangingIs DEF KeptKnows
<1>4. \A h \in Group : kept[h] # NoLimits => h \in dir
  BY DEF KeptKnows
<1>5. KeptKnows'
  BY <1>3, <1>4, KeptStays
<1>6. command[c].g \in Group
  BY DEF GroupCommand
<1>7. \A h \in Group : Members(h)' \subseteq Members(h)
  BY DEF Members
<1> QED
  BY <1>1, <1>2, <1>5, <1>6, <1>7, CallerStep

\* Where a command goes when it has its group.
LEMMA AfterGetKinds ==
  ASSUME NEW m \in GroupCommand, m.op # "remove", NEW pc, pc = AfterGet(m.op, m.g)
  PROVE  /\ pc \in {"done", "reset1", "tasks", "task", "limits", "write1"}
         /\ pc = "reset1" => m.op = "reset"
         /\ pc \in {"limits", "write1"} => m.op = "spec"
         /\ pc = "limits" => m.g[1] = "memory"
         /\ pc = "write1" => m.g[1] # "memory"
         /\ pc = "tasks" => m.op = "tasks"
         /\ pc = "task" => m.op \in {"add", "del"}
         /\ pc = "done" => m.op # "spec"
<1>1. m.op \in CommandOp /\ m.op \in {"ensure", "reset", "tasks", "add", "del", "spec"}
  BY DEF GroupCommand, CommandOp
<1> QED
  BY <1>1 DEF AfterGet

\* A command finds that its group is there, or ends with not found.
LEMMA LookExistsIInv == ASSUME CgroupIInv, NEW c \in Caller, LookExists(c) PROVE CgroupIInv'
<1>1. command[c].pc = "exists" /\ UNCHANGED <<dir, files, live, member, kept, removed>>
  BY DEF LookExists, CommandAt
<1>2. PICK m \in GroupCommand : m = command[c]
  BY <1>1, GroupCommandFields DEF CgroupIInv
<1>3. m.pc = "exists" /\ m.op # "remove" /\ m.res = "ok"
  BY <1>1, <1>2 DEF CgroupIInv, CommandsCame, Sensible
<1>4. CASE m.g \in dir /\ CommandTo(c, "stat")
  <2>1. PICK f : f = [m EXCEPT !.pc = "stat"]
    OBVIOUS
  <2>2. f \in GroupCommand /\ f.pc = "stat" /\ f.op = m.op /\ f.g = m.g /\ f.made = m.made /\ f.res = m.res
    BY <2>1 DEF GroupCommand
  <2>3. command' = Moved(c, f, {})
    BY <1>2, <1>4, <2>1 DEF CommandTo
  <2>4. Sensible(f) /\ SpecCame(f)' /\ RemoveCame(f)' /\ (Changes(f) => Changes(m))
    BY <1>3, <2>2 DEF Sensible, SpecCame, RemoveCame, Changes
  <2>5. m.g \notin removed
    BY <1>4 DEF CgroupIInv, RemovedKnows
  <2> QED
    BY <1>1, <1>2, <2>2, <2>3, <2>4, <2>5, MovedFacts, PlainStep DEF CgroupIInv
<1>5. CASE Ends(c, "not found")
  <2>1. PICK f : f = [m EXCEPT !.pc = "done", !.res = "not found"]
    OBVIOUS
  <2>2. f \in GroupCommand /\ f.pc = "done" /\ f.op = m.op /\ f.g = m.g /\ f.res = "not found"
    BY <2>1 DEF GroupCommand
  <2>3. command' = Moved(c, f, {})
    BY <1>2, <1>5, <2>1 DEF Ends
  <2>4. Sensible(f) /\ SpecCame(f)' /\ RemoveCame(f)' /\ ~Changes(f)
    BY <1>3, <2>2 DEF Sensible, SpecCame, RemoveCame, Changes
  <2> QED
    BY <1>1, <1>2, <2>2, <2>3, <2>4, MovedFacts, PlainStep DEF CgroupIInv
<1> QED
  BY <1>2, <1>4, <1>5 DEF LookExists

\* A command arrives.
LEMMA BeginIInv == ASSUME CgroupIInv, NEW c \in Caller, Begin(c) PROVE CgroupIInv'
<1> USE DEF CgroupIInv
<1>1. PICK g \in Group, op \in CommandOp, p \in Pid, s \in Asked :
        /\ command' = [command EXCEPT ![c] =
            [pc |-> IF op = "remove" THEN "rexists" ELSE IF Looks(op) THEN "exists" ELSE "stat",
             op |-> op, g |-> g, p |-> p, s |-> s, left |-> {}, swap |-> 0,
             made |-> FALSE, clean |-> TRUE, res |-> "ok"]]
        /\ kept' = IF op \in {"reset", "spec", "remove"} THEN [kept EXCEPT ![g] = NoLimits] ELSE kept
        /\ removed' = IF op = "ensure" THEN removed \ {g} ELSE removed
  BY DEF Begin
<1>2. UNCHANGED <<dir, files, live, member>>
  BY DEF Begin
<1>3. PICK f : f = [pc |-> IF op = "remove" THEN "rexists" ELSE IF Looks(op) THEN "exists" ELSE "stat",
                    op |-> op, g |-> g, p |-> p, s |-> s, left |-> {}, swap |-> 0,
                    made |-> FALSE, clean |-> TRUE, res |-> "ok"]
  OBVIOUS
<1>4. f \in GroupCommand /\ f.op = op /\ f.g = g /\ f.made = FALSE /\ f.res = "ok"
      /\ f.pc = IF op = "remove" THEN "rexists" ELSE IF Looks(op) THEN "exists" ELSE "stat"
  BY <1>3 DEF GroupCommand
<1>5. command' \in [Caller -> {NoCommand} \cup GroupCommand] /\ command'[c] = f /\ Undisturbed(c, g, {})
  BY <1>1, <1>3, <1>4, ExceptFacts
<1>6. CgroupTypeOK' /\ LimitsAreOrdered'
  BY <1>1, <1>2, <1>5 DEF CgroupTypeOK, LimitsAreOrdered, NoLimits
<1>7. \A h \in Group : kept'[h] # NoLimits => kept'[h] = kept[h] /\ kept[h] # NoLimits
  BY <1>1 DEF CgroupTypeOK
<1>8. \A h \in Group : kept'[h] # NoLimits => kept'[h] = kept[h] /\ h \in dir' /\ files'[h] = files[h]
  BY <1>2, <1>7 DEF KeptKnows
<1>9. \A h \in Group : Changes(f) /\ f.g = h => kept'[h] = NoLimits
  BY <1>1, <1>4 DEF Changes, CgroupTypeOK
<1>10. KeptKnows'
  BY <1>5, <1>8, <1>9, KeptStays
<1>11. f.pc \in {"stat", "mkdir"} => g \notin removed'
  BY <1>1, <1>4 DEF Looks, CommandOp
<1>12. RemovedKnows'
  BY <1>1, <1>2, <1>4, <1>5, <1>11 DEF RemovedKnows, Undisturbed
<1>13. Sensible(f) /\ SpecCame(f)' /\ RemoveCame(f)'
  BY <1>4 DEF Sensible, SpecCame, RemoveCame, CommandOp
<1>14. \A h \in Group : Members(h)' \subseteq Members(h)
  BY <1>2 DEF Members
<1> QED
  BY <1>2, <1>5, <1>6, <1>10, <1>12, <1>13, <1>14, CallerStep

\* A group is looked for.
LEMMA GetGroupStatIInv == ASSUME CgroupIInv, NEW c \in Caller, GetGroupStat(c) PROVE CgroupIInv'
<1>1. command[c].pc = "stat" /\ UNCHANGED <<dir, files, live, member, kept, removed>>
  BY DEF GetGroupStat, CommandAt
<1>2. PICK m \in GroupCommand : m = command[c]
  BY <1>1, GroupCommandFields DEF CgroupIInv
<1>3. m.pc = "stat" /\ m.op # "remove" /\ m.res = "ok" /\ m.g \notin removed
  BY <1>1, <1>2 DEF CgroupIInv, CommandsCame, Sensible, RemovedKnows
<1>4. PICK pc : pc = IF m.g \in dir THEN AfterGet(m.op, m.g) ELSE "mkdir"
  OBVIOUS
<1>5. PICK f : f = [m EXCEPT !.pc = pc]
  OBVIOUS
<1>6. /\ pc \in {"done", "reset1", "tasks", "task", "limits", "write1", "mkdir"}
      /\ pc = "reset1" => m.op = "reset"
      /\ pc \in {"limits", "write1"} => m.op = "spec"
      /\ pc = "limits" => m.g[1] = "memory"
      /\ pc = "write1" => m.g[1] # "memory"
      /\ pc = "tasks" => m.op = "tasks"
      /\ pc = "task" => m.op \in {"add", "del"}
      /\ pc = "done" => m.op # "spec"
  BY <1>3, <1>4, AfterGetKinds
<1>7. f \in GroupCommand /\ f.pc = pc /\ f.op = m.op /\ f.g = m.g /\ f.made = m.made /\ f.res = m.res
  BY <1>5, <1>6 DEF GroupCommand
<1>8. command' = Moved(c, f, {})
  BY <1>2, <1>4, <1>5 DEF GetGroupStat, CommandTo, StatFinds
<1>9. Sensible(f) /\ SpecCame(f)' /\ RemoveCame(f)' /\ (Changes(f) => Changes(m))
  BY <1>3, <1>6, <1>7 DEF Sensible, SpecCame, RemoveCame, Changes
<1> QED
  BY <1>1, <1>2, <1>3, <1>7, <1>8, <1>9, MovedFacts, PlainStep DEF CgroupIInv

\* A group is made.
LEMMA GetGroupMkdirIInv == ASSUME CgroupIInv, NEW c \in Caller, GetGroupMkdir(c) PROVE CgroupIInv'
<1> USE DEF CgroupIInv
<1>1. command[c].pc = "mkdir" /\ UNCHANGED <<live, member, kept, removed>>
  BY DEF GetGroupMkdir, CommandAt
<1>2. PICK m \in GroupCommand : m = command[c]
  BY <1>1, GroupCommandFields
<1>3. m.pc = "mkdir" /\ m.op # "remove" /\ m.res = "ok" /\ m.g \notin removed /\ m.g \in Group
  BY <1>1, <1>2 DEF CommandsCame, Sensible, RemovedKnows, GroupCommand
<1>4. CASE /\ m.g \notin dir
           /\ dir' = dir \cup {m.g} /\ files' = [files EXCEPT ![m.g] = Fresh(m.g)]
           /\ command' = Moved(c, [command[c] EXCEPT !.pc = "reset1", !.made = TRUE],
                               {"remove", "spec", "reset"})
  <2>1. PICK f : f = [m EXCEPT !.pc = "reset1", !.made = TRUE]
    OBVIOUS
  <2>2. f \in GroupCommand /\ f.pc = "reset1" /\ f.op = m.op /\ f.g = m.g /\ f.made = TRUE /\ f.res = m.res
    BY <2>1 DEF GroupCommand
  <2>3. command' = Moved(c, f, {"remove", "spec", "reset"})
    BY <1>2, <1>4, <2>1
  <2>4. /\ command' \in [Caller -> {NoCommand} \cup GroupCommand] /\ command'[c] = f
        /\ Undisturbed(c, m.g, {"remove", "spec", "reset"})
    BY <2>2, <2>3, MovedFacts
  <2>5. Sensible(f) /\ SpecCame(f)' /\ RemoveCame(f)'
    BY <1>3, <2>2 DEF Sensible, SpecCame, RemoveCame
  <2>6. Fresh(m.g) \in [a : Nat, b : Nat] /\ (m.g[1] = "memory" => Fresh(m.g).a <= Fresh(m.g).b)
    BY CgroupAssumption DEF Fresh
  <2>7. CgroupTypeOK'
    BY <1>1, <1>3, <1>4, <2>4, <2>6 DEF CgroupTypeOK
  <2>8. LimitsAreOrdered'
    BY <1>3, <1>4, <2>6 DEF CgroupTypeOK, LimitsAreOrdered
  <2>9. RemovedKnows'
    BY <1>1, <1>3, <1>4, <2>2, <2>4 DEF RemovedKnows, Undisturbed
  <2>10. \A h \in Group : h # m.g => files'[h] = files[h] /\ (h \in dir' <=> h \in dir)
    BY <1>4 DEF CgroupTypeOK
  <2>11. \A h \in Group : kept[h] # NoLimits => h \in dir /\ h # m.g
    BY <1>4 DEF KeptKnows
  <2>12. KeptKnows'
    BY <1>1, <2>2, <2>4, <2>10, <2>11, KeptStays
  <2>13. \A h \in Group : Members(h)' \subseteq Members(h)
    BY <1>1 DEF Members
  <2>14. m.g \in dir'
    BY <1>4
  <2> QED
    BY <1>3, <2>4, <2>5, <2>7, <2>8, <2>9, <2>10, <2>12, <2>13, <2>14, CallerStep
<1>5. CASE Ends(c, "failed") /\ UNCHANGED <<dir, files>>
  <2>1. PICK f : f = [m EXCEPT !.pc = "done", !.res = "failed"]
    OBVIOUS
  <2>2. f \in GroupCommand /\ f.pc = "done" /\ f.op = m.op /\ f.g = m.g /\ f.res = "failed"
    BY <2>1 DEF GroupCommand
  <2>3. command' = Moved(c, f, {})
    BY <1>2, <1>5, <2>1 DEF Ends
  <2>4. Sensible(f) /\ SpecCame(f)' /\ RemoveCame(f)' /\ ~Changes(f)
    BY <1>3, <2>2 DEF Sensible, SpecCame, RemoveCame, Changes
  <2> QED
    BY <1>1, <1>2, <1>5, <2>2, <2>3, <2>4, MovedFacts, PlainStep
<1> QED
  BY <1>2, <1>4, <1>5 DEF GetGroupMkdir

\* A command that goes on at pc, and the settings after a write.
OnAt(m, pc) == [m EXCEPT !.pc = pc]
Refused(m, pc) == [m EXCEPT !.pc = pc, !.clean = FALSE]
Written(g, field, v) == [files EXCEPT ![g] = IF field = "a" THEN [@ EXCEPT !.a = v] ELSE [@ EXCEPT !.b = v]]

\* The fields of a command whose write was refused.
LEMMA RefusedFields ==
  ASSUME NEW m \in GroupCommand, NEW pc \in {"reset2", "reset3", "write2", "report"}
  PROVE  \E e \in GroupCommand : /\ e = Refused(m, pc) /\ e.pc = pc /\ e.op = m.op /\ e.g = m.g
                                 /\ e.made = m.made /\ e.res = m.res /\ ~e.clean
<1>1. PICK e : e = Refused(m, pc)
  OBVIOUS
<1>2. /\ e \in GroupCommand /\ e.pc = pc /\ e.op = m.op /\ e.g = m.g
      /\ e.made = m.made /\ e.res = m.res /\ ~e.clean
  BY <1>1 DEF GroupCommand, Refused
<1> QED
  BY <1>1, <1>2

\* One write to a setting of a group that c may change.
LEMMA WriteIInv ==
  ASSUME CgroupIInv, NEW c \in Caller, NEW m \in GroupCommand, m = command[c], Changes(m), m.op # "remove",
         NEW field \in {"a", "b"}, NEW v \in Nat, NEW pc \in {"reset2", "reset3", "write2", "report"}, NEW refuse,
         Write(c, field, v, pc, refuse), UNCHANGED <<dir, live, member, kept, removed>>,
         NEW f, f = OnAt(m, pc), Sensible(f),
         ~Accepts(m.g, field, v) /\ UNCHANGED files => SpecCame(f)',
         Accepts(m.g, field, v) /\ files' = Written(m.g, field, v) => SpecCame(f)'
  PROVE  CgroupIInv'
<1> USE DEF CgroupIInv
<1>1. /\ f \in GroupCommand /\ f.pc = pc /\ f.op = m.op /\ f.g = m.g /\ f.made = m.made /\ f.res = m.res
      /\ f.clean = m.clean /\ m.g \in Group
  BY ZenonT(30) DEF GroupCommand, OnAt
<1>2. RemoveCame(f)' /\ Changes(f)
  BY <1>1 DEF RemoveCame, Changes
<1>3. CASE /\ Accepts(m.g, field, v)
           /\ files' = Written(m.g, field, v)
           /\ command' = Moved(c, [command[c] EXCEPT !.pc = pc], {"spec", "reset"})
  <2>1. command' = Moved(c, f, {"spec", "reset"})
    BY <1>3 DEF OnAt
  <2>2. /\ command' \in [Caller -> {NoCommand} \cup GroupCommand] /\ command'[c] = f
        /\ Undisturbed(c, m.g, {"spec", "reset"})
    BY <1>1, <2>1, MovedFacts
  <2>3. SpecCame(f)'
    BY <1>3
  <2>4. /\ files[m.g] \in [a : Nat, b : Nat]
        /\ files' = [files EXCEPT ![m.g] = IF field = "a" THEN [files[m.g] EXCEPT !.a = v]
                                           ELSE [files[m.g] EXCEPT !.b = v]]
    BY <1>1, <1>3 DEF CgroupTypeOK, Written
  <2>5. /\ files'[m.g] = IF field = "a" THEN [files[m.g] EXCEPT !.a = v] ELSE [files[m.g] EXCEPT !.b = v]
        /\ \A h \in Group : h # m.g => files'[h] = files[h]
    BY <1>1, <2>4 DEF CgroupTypeOK
  <2>6. files'[m.g] \in [a : Nat, b : Nat] /\ (m.g[1] = "memory" => files'[m.g].a <= files'[m.g].b)
    BY <1>1, <1>3, <2>4, <2>5 DEF Accepts, LimitsAreOrdered
  <2>7. CgroupTypeOK'
    BY <2>2, <2>4, <2>5, <2>6 DEF CgroupTypeOK
  <2>8. LimitsAreOrdered'
    BY <2>5, <2>6 DEF LimitsAreOrdered
  <2>9. RemovedKnows'
    BY <1>1, <2>2 DEF RemovedKnows, Undisturbed
  <2>10. \A h \in Group : kept[h] # NoLimits => h \in dir /\ h # m.g
    BY ChangingIs DEF KeptKnows
  <2>11. KeptKnows'
    BY <1>1, <2>2, <2>5, <2>10, KeptStays
  <2>12. \A h \in Group : Members(h)' \subseteq Members(h)
    BY DEF Members
  <2>13. m.g \in dir'
    BY <1>3 DEF Accepts
  <2> QED
    BY <1>1, <1>2, <2>2, <2>3, <2>5, <2>7, <2>8, <2>9, <2>11, <2>12, <2>13, CallerStep
<1>4. CASE ~Accepts(m.g, field, v) /\ CommandTo(c, pc) /\ UNCHANGED files
  <2>1. command' = Moved(c, f, {})
    BY <1>4 DEF CommandTo, OnAt
  <2>2. SpecCame(f)'
    BY <1>4
  <2> QED
    BY <1>1, <1>2, <1>4, <2>1, <2>2, MovedFacts, PlainStep
<1>5. CASE /\ command' = [command EXCEPT ![c] = [@ EXCEPT !.pc = pc, !.clean = FALSE]]
           /\ UNCHANGED files
  <2>1. PICK e \in GroupCommand : /\ e = Refused(m, pc) /\ e.pc = pc /\ e.op = m.op /\ e.g = m.g
                                  /\ e.made = m.made /\ e.res = m.res /\ ~e.clean
    BY RefusedFields
  <2>3. command' = [command EXCEPT ![c] = e]
    BY <1>5, <2>1 DEF CgroupTypeOK, Refused
  <2>4. /\ command' \in [Caller -> {NoCommand} \cup GroupCommand] /\ command'[c] = e
        /\ Undisturbed(c, m.g, {})
    BY <2>1, <2>3, ExceptFacts
  <2>5. Sensible(e) /\ SpecCame(e)' /\ RemoveCame(e)' /\ Changes(e)
    BY <1>1, <2>1 DEF Sensible, SpecCame, RemoveCame, Changes
  <2> QED
    BY <1>5, <2>1, <2>4, <2>5, PlainStep
<1> QED
  BY <1>3, <1>4, <1>5 DEF Write, Written

\* The limits of a group are reset.
LEMMA ResetIInv == ASSUME CgroupIInv, NEW c \in Caller, Reset(c) PROVE CgroupIInv'
<1> USE DEF CgroupIInv
<1>1. command[c].pc \in {"reset1", "reset2", "reset3"} /\ UNCHANGED <<dir, live, member, kept, removed>>
  BY DEF Reset, CommandAt
<1>2. PICK m \in GroupCommand : m = command[c]
  BY <1>1, GroupCommandFields
<1>3. m.pc \in {"reset1", "reset2", "reset3"} /\ m.op # "remove" /\ m.res = "ok" /\ Changes(m)
      /\ (m.op = "reset" \/ m.made)
  BY <1>1, <1>2 DEF CommandsCame, Sensible, Changes
<1>4. PICK first : first = IF m.g[1] = "memory" THEN "b" ELSE "a"
  OBVIOUS
<1>5. ASSUME NEW pc \in {"reset2", "reset3"}, NEW field \in {"a", "b"}, Write(c, field, Unlimited, pc, FALSE)
      PROVE  CgroupIInv'
  <2>1. PICK f : f = OnAt(m, pc)
    OBVIOUS
  <2>2. f.pc = pc /\ f.op = m.op /\ f.made = m.made /\ f.res = m.res
    BY <2>1 DEF GroupCommand, OnAt
  <2>3. Sensible(f) /\ SpecCame(f)'
    BY <1>3, <2>2 DEF Sensible, SpecCame
  <2> QED
    BY <1>1, <1>2, <1>3, <1>5, <2>1, <2>3, CgroupAssumption, WriteIInv
<1>6. CASE m.pc = "reset3" /\ UNCHANGED files /\ m.made
           /\ command' = [command EXCEPT ![c] = [@ EXCEPT !.made = FALSE,
                                                !.pc = AfterGet(command[c].op, command[c].g)]]
  <2>1. PICK pc : pc = AfterGet(m.op, m.g)
    OBVIOUS
  <2>2. PICK f : f = [m EXCEPT !.made = FALSE, !.pc = pc]
    OBVIOUS
  <2>3. /\ pc \in {"done", "reset1", "tasks", "task", "limits", "write1"}
        /\ pc = "reset1" => m.op = "reset"
        /\ pc \in {"limits", "write1"} => m.op = "spec"
        /\ pc = "limits" => m.g[1] = "memory"
        /\ pc = "write1" => m.g[1] # "memory"
        /\ pc = "tasks" => m.op = "tasks"
        /\ pc = "task" => m.op \in {"add", "del"}
        /\ pc = "done" => m.op # "spec"
    BY <1>3, <2>1, AfterGetKinds
  <2>4. f \in GroupCommand /\ f.pc = pc /\ f.op = m.op /\ f.g = m.g /\ f.made = FALSE /\ f.res = m.res
    BY <2>2, <2>3 DEF GroupCommand
  <2>5. command' = [command EXCEPT ![c] = f]
    BY <1>2, <1>6, <2>1, <2>2 DEF CgroupTypeOK
  <2>6. Sensible(f) /\ SpecCame(f)' /\ RemoveCame(f)' /\ f.pc \notin {"stat", "mkdir"}
    BY <1>3, <2>3, <2>4 DEF Sensible, SpecCame, RemoveCame
  <2>7. /\ command' \in [Caller -> {NoCommand} \cup GroupCommand] /\ command'[c] = f
        /\ Undisturbed(c, m.g, {})
    BY <2>4, <2>5, ExceptFacts
  <2> QED
    BY <1>1, <1>2, <1>3, <1>6, <2>4, <2>6, <2>7, PlainStep
<1>7. CASE m.pc = "reset3" /\ UNCHANGED files /\ ~m.made /\ Ends(c, "ok")
  <2>1. PICK f : f = [m EXCEPT !.pc = "done", !.res = "ok"]
    OBVIOUS
  <2>2. f \in GroupCommand /\ f.pc = "done" /\ f.op = m.op /\ f.g = m.g /\ f.res = "ok"
    BY <2>1 DEF GroupCommand
  <2>3. command' = Moved(c, f, {})
    BY <1>2, <1>7, <2>1 DEF Ends
  <2>4. Sensible(f) /\ SpecCame(f)' /\ RemoveCame(f)' /\ ~Changes(f)
    BY <1>3, <1>7, <2>2 DEF Sensible, SpecCame, RemoveCame, Changes
  <2> QED
    BY <1>1, <1>2, <1>7, <2>2, <2>3, <2>4, MovedFacts, PlainStep
<1> QED
  BY <1>2, <1>4, <1>5, <1>6, <1>7 DEF Reset, CommandAt

\* The tasks of a group are listed.
LEMMA TasksIInv == ASSUME CgroupIInv, NEW c \in Caller, Tasks(c) PROVE CgroupIInv'
<1>1. command[c].pc = "tasks" /\ UNCHANGED <<dir, files, live, member, kept, removed>>
  BY DEF Tasks, CommandAt
<1>2. PICK m \in GroupCommand : m = command[c]
  BY <1>1, GroupCommandFields DEF CgroupIInv
<1>3. m.op = "tasks"
  BY <1>1, <1>2 DEF CgroupIInv, CommandsCame, Sensible
<1>4. PICK f : f = [m EXCEPT !.pc = "done", !.res = IF m.g \in dir THEN "ok" ELSE "failed"]
  OBVIOUS
<1>5. f \in GroupCommand /\ f.pc = "done" /\ f.op = m.op /\ f.g = m.g
  BY <1>4 DEF GroupCommand
<1>6. command' = Moved(c, f, {})
  BY <1>2, <1>4 DEF Tasks, Ends
<1>7. Sensible(f) /\ SpecCame(f)' /\ RemoveCame(f)' /\ ~Changes(f)
  BY <1>3, <1>5 DEF Sensible, SpecCame, RemoveCame, Changes
<1> QED
  BY <1>1, <1>2, <1>5, <1>6, <1>7, MovedFacts, PlainStep DEF CgroupIInv

\* A task is moved into a group or out of it.
LEMMA TaskAddRemoveIInv == ASSUME CgroupIInv, NEW c \in Caller, TaskAddRemove(c) PROVE CgroupIInv'
<1> USE DEF CgroupIInv
<1>1. command[c].pc = "task" /\ UNCHANGED <<dir, files, live, kept, removed>>
  BY DEF TaskAddRemove, CommandAt
<1>2. PICK m \in GroupCommand : m = command[c]
  BY <1>1, GroupCommandFields
<1>3. m.op \in {"add", "del"} /\ m.g \in Group /\ m.p \in Pid
  BY <1>1, <1>2 DEF CommandsCame, Sensible, GroupCommand
<1>4. PICK to : to = IF m.op = "add" THEN m.g ELSE RootGroup
  OBVIOUS
<1>5. CASE /\ member' = [member EXCEPT ![m.p][m.g[1]] = to]
           /\ command' = Moved(c, [command[c] EXCEPT !.pc = "done"], IF m.op = "add" THEN {"remove"} ELSE {})
  <2>1. PICK f : f = [m EXCEPT !.pc = "done"]
    OBVIOUS
  <2>2. f \in GroupCommand /\ f.pc = "done" /\ f.op = m.op /\ f.g = m.g /\ f.res = m.res
    BY <2>1 DEF GroupCommand
  <2>3. PICK ops : ops = IF m.op = "add" THEN {"remove"} ELSE {}
    OBVIOUS
  <2>4. /\ command' \in [Caller -> {NoCommand} \cup GroupCommand] /\ command'[c] = f
        /\ Undisturbed(c, m.g, ops)
    <3>1. command' = Moved(c, f, ops)
      BY <1>2, <1>5, <2>1, <2>3
    <3> QED
      BY <2>2, <3>1, MovedFacts
  <2>5. Sensible(f) /\ SpecCame(f)' /\ RemoveCame(f)' /\ ~Changes(f)
    BY <1>3, <2>2 DEF Sensible, SpecCame, RemoveCame, Changes
  <2>6. m.g[1] \in Subsystem /\ to \in Group \cup {RootGroup}
    BY <1>3, <1>4, GroupKinds DEF Subsystem
  <2>7. /\ member' \in [Pid -> [Subsystem -> Group \cup {RootGroup}]]
        /\ member'[m.p][m.g[1]] = to
        /\ \A q \in Pid, s \in Subsystem : q # m.p \/ s # m.g[1] => member'[q][s] = member[q][s]
    BY <1>3, <1>5, <2>6 DEF CgroupTypeOK
  <2>8. CgroupTypeOK' /\ LimitsAreOrdered'
    BY <1>1, <2>4, <2>7 DEF CgroupTypeOK, LimitsAreOrdered
  <2>9. \A h \in Group : kept[h] # NoLimits => h \in dir
    BY DEF KeptKnows
  <2>10. KeptKnows'
    BY <1>1, <2>4, <2>5, <2>9, KeptStays
  <2>11. RemovedKnows'
    BY <1>1, <2>2, <2>4 DEF RemovedKnows, Undisturbed
  <2>12. ASSUME NEW h \in Group, NEW q \in Pid, member'[q][h[1]] = h, h # m.g \/ m.op # "add"
         PROVE  member[q][h[1]] = h
    <3>1. h[1] \in Subsystem /\ h # RootGroup
      BY GroupKinds DEF Subsystem
    <3>2. q # m.p \/ h[1] # m.g[1]
      BY <1>3, <1>4, <2>7, <2>12, <3>1
    <3> QED
      BY <2>7, <2>12, <3>1, <3>2
  <2>13. \A h \in Group : Members(h)' \subseteq Members(h) \/ (h = m.g /\ "remove" \in ops)
    BY <1>1, <2>3, <2>12 DEF Members, CgroupTypeOK
  <2> QED
    BY <1>1, <1>3, <2>4, <2>5, <2>8, <2>10, <2>11, <2>13, CallerStep
<1>6. CASE Ends(c, "failed") /\ UNCHANGED member
  <2>1. PICK f : f = [m EXCEPT !.pc = "done", !.res = "failed"]
    OBVIOUS
  <2>2. f \in GroupCommand /\ f.pc = "done" /\ f.op = m.op /\ f.g = m.g /\ f.res = "failed"
    BY <2>1 DEF GroupCommand
  <2>3. command' = Moved(c, f, {})
    BY <1>2, <1>6, <2>1 DEF Ends
  <2>4. Sensible(f) /\ SpecCame(f)' /\ RemoveCame(f)' /\ ~Changes(f)
    BY <1>3, <2>2 DEF Sensible, SpecCame, RemoveCame, Changes
  <2> QED
    BY <1>1, <1>2, <1>6, <2>2, <2>3, <2>4, MovedFacts, PlainStep
<1> QED
  BY <1>2, <1>4, <1>5, <1>6 DEF TaskAddRemove

\* Limit reads the memsw limit.
LEMMA ReadLimitsIInv == ASSUME CgroupIInv, NEW c \in Caller, ReadLimits(c) PROVE CgroupIInv'
<1> USE DEF CgroupIInv
<1>1. command[c].pc = "limits" /\ UNCHANGED <<dir, files, live, member, kept, removed>>
  BY DEF ReadLimits, CommandAt
<1>2. PICK m \in GroupCommand : m = command[c]
  BY <1>1, GroupCommandFields
<1>3. m.pc = "limits" /\ m.op = "spec" /\ m.res = "ok" /\ m.g \in Group /\ Changes(m)
  BY <1>1, <1>2 DEF CommandsCame, Sensible, GroupCommand, Changes
<1>4. ASSUME NEW res \in {"ok", "failed"}, Ends(c, res), res = "failed" \/ m.s.a = 0
      PROVE  CgroupIInv'
  <2>1. PICK f : f = [m EXCEPT !.pc = "done", !.res = res]
    OBVIOUS
  <2>2. f \in GroupCommand /\ f.pc = "done" /\ f.op = m.op /\ f.g = m.g /\ f.res = res /\ f.s = m.s
    BY <2>1 DEF GroupCommand
  <2>3. command' = Moved(c, f, {})
    BY <1>2, <1>4, <2>1 DEF Ends
  <2>4. Sensible(f) /\ SpecCame(f)' /\ RemoveCame(f)' /\ ~Changes(f)
    BY <1>3, <1>4, <2>2 DEF Sensible, SpecCame, RemoveCame, Changes
  <2> QED
    BY <1>1, <1>2, <2>2, <2>3, <2>4, MovedFacts, PlainStep
<1>5. CASE /\ m.g \in dir
           /\ command' = [command EXCEPT ![c] = [@ EXCEPT !.pc = "write1", !.swap = files[m.g].b]]
  <2>1. PICK f : f = [m EXCEPT !.pc = "write1", !.swap = files[m.g].b]
    OBVIOUS
  <2>2. files[m.g].b \in Nat
    BY <1>3 DEF CgroupTypeOK
  <2>3. /\ f \in GroupCommand /\ f.pc = "write1" /\ f.op = m.op /\ f.g = m.g /\ f.res = m.res /\ f.s = m.s
        /\ f.swap = files[m.g].b
    BY <2>1, <2>2 DEF GroupCommand
  <2>4. command' = [command EXCEPT ![c] = f]
    BY <1>2, <1>5, <2>1 DEF CgroupTypeOK
  <2>5. /\ command' \in [Caller -> {NoCommand} \cup GroupCommand] /\ command'[c] = f
        /\ Undisturbed(c, m.g, {})
    BY <2>3, <2>4, ExceptFacts
  <2>6. Sensible(f) /\ SpecCame(f)' /\ RemoveCame(f)' /\ f.pc \notin {"stat", "mkdir"}
    BY <1>1, <1>3, <1>5, <2>3 DEF Sensible, SpecCame, RemoveCame
  <2> QED
    BY <1>1, <1>2, <1>3, <2>3, <2>5, <2>6, PlainStep
<1>6. \/ Ends(c, "ok") /\ m.s.a = 0
      \/ Ends(c, "failed")
      \/ m.g \in dir /\ command' = [command EXCEPT ![c] = [@ EXCEPT !.pc = "write1", !.swap = files[m.g].b]]
  BY <1>2 DEF ReadLimits
<1> QED
  BY <1>4, <1>5, <1>6

\* A memory spec writes its two limits in the order in which the kernel takes both.
LEMMA LimitWriteIInv ==
  ASSUME CgroupIInv, NEW c \in Caller, LimitWrite(c), UNCHANGED <<dir, live, member, kept, removed>>
  PROVE  CgroupIInv'
<1> USE DEF CgroupIInv
<1>1. command[c].pc \in {"write1", "write2"} /\ command[c].g[1] = "memory"
  BY DEF LimitWrite, CommandAt
<1>2. PICK m \in GroupCommand : m = command[c]
  BY <1>1, GroupCommandFields
<1>3. /\ m.pc \in {"write1", "write2"} /\ m.op = "spec" /\ m.g \in Group /\ m.g[1] = "memory" /\ m.s \in Asked
      /\ m.swap \in Nat /\ m.res = "ok" /\ Changes(m) /\ SpecCame(m)
  BY <1>1, <1>2 DEF CommandsCame, Sensible, GroupCommand, Changes
<1>4. m.s.a \in Nat /\ m.s.b \in Nat /\ m.s.a + m.s.b \in Nat
  BY <1>3, CgroupAssumption
<1>5. files[m.g] \in [a : Nat, b : Nat] /\ files[m.g].a <= files[m.g].b
  BY <1>3 DEF CgroupTypeOK, LimitsAreOrdered
<1>6. ASSUME NEW field \in {"a", "b"}, NEW v \in Nat, v = IF field = "a" THEN m.s.a ELSE m.s.a + m.s.b,
             files' = Written(m.g, field, v)
      PROVE  files'[m.g] = IF field = "a" THEN [files[m.g] EXCEPT !.a = v] ELSE [files[m.g] EXCEPT !.b = v]
  BY <1>3, <1>6 DEF Written, CgroupTypeOK
<1>7. ASSUME NEW field \in {"a", "b"}, NEW v \in Nat, v = IF field = "a" THEN m.s.a ELSE m.s.a + m.s.b,
             NEW pc \in {"write2", "report"}, Write(c, field, v, pc, TRUE),
             pc = "write2" => m.pc = "write1" /\ (field = "b" <=> SwapFirst(m.swap, m.s.a)),
             pc = "report" => m.pc = "write2" /\ (field = "a" <=> SwapFirst(m.swap, m.s.a))
      PROVE  CgroupIInv'
  <2>1. PICK f : f = OnAt(m, pc)
    OBVIOUS
  <2>2. /\ f.pc = pc /\ f.op = m.op /\ f.made = m.made /\ f.res = m.res /\ f.g = m.g /\ f.s = m.s
        /\ f.swap = m.swap /\ f.clean = m.clean
    BY <2>1 DEF GroupCommand, OnAt
  <2>3. Sensible(f)
    BY <1>3, <2>2 DEF Sensible
  <2>4. SUFFICES ASSUME m.clean, m.s.a # 0
                 PROVE  /\ Accepts(m.g, field, v)
                        /\ files' = Written(m.g, field, v) => SpecCame(f)'
    <3>1. ~(m.clean /\ m.s.a # 0) => SpecCame(f)'
      BY <2>2 DEF SpecCame
    <3>2. \/ SpecCame(f)'
          \/ Accepts(m.g, field, v) /\ (files' = Written(m.g, field, v) => SpecCame(f)')
      BY <3>1, <2>4
    <3>3. ~Accepts(m.g, field, v) /\ UNCHANGED files => SpecCame(f)'
      BY <3>2
    <3>4. Accepts(m.g, field, v) /\ files' = Written(m.g, field, v) => SpecCame(f)'
      BY <3>2
    <3>5. Write(c, field, v, pc, TRUE)
      BY <1>7
    <3>6. Changes(m) /\ m.op # "remove"
      BY <1>3
    <3>7. pc \in {"reset2", "reset3", "write2", "report"}
      OBVIOUS
    <3> HIDE DEF CgroupIInv
    <3> QED
      BY <1>2, <2>1, <2>3, <3>3, <3>4, <3>5, <3>6, <3>7, WriteIInv
  <2>5. CASE pc = "write2"
    <3>1. m.pc = "write1" /\ m.g \in dir /\ m.swap = files[m.g].b
      BY <1>3, <1>7, <2>4, <2>5 DEF SpecCame
    <3>2. Accepts(m.g, field, v)
      BY <1>3, <1>4, <1>5, <1>7, <2>5, <3>1 DEF Accepts, SwapFirst
    <3>3. ASSUME files' = Written(m.g, field, v) PROVE SpecCame(f)'
      <4>1. files'[m.g] = IF field = "a" THEN [files[m.g] EXCEPT !.a = v] ELSE [files[m.g] EXCEPT !.b = v]
        BY <1>6, <1>7, <3>3
      <4>2. IF SwapFirst(m.swap, m.s.a) THEN files'[m.g].b = m.s.a + m.s.b ELSE files'[m.g].a = m.s.a
        BY <1>5, <1>7, <2>5, <4>1
      <4> QED
        BY <2>2, <2>5, <3>1, <4>2 DEF SpecCame
    <3> QED
      BY <3>2, <3>3
  <2>6. CASE pc = "report"
    <3>1. /\ m.pc = "write2" /\ m.g \in dir
          /\ IF SwapFirst(m.swap, m.s.a) THEN files[m.g].b = m.s.a + m.s.b ELSE files[m.g].a = m.s.a
      BY <1>3, <1>7, <2>4, <2>6 DEF SpecCame
    <3>2. Accepts(m.g, field, v)
      BY <1>3, <1>4, <1>5, <1>7, <2>6, <3>1 DEF Accepts
    <3>3. ASSUME files' = Written(m.g, field, v) PROVE SpecCame(f)'
      <4>1. files'[m.g] = IF field = "a" THEN [files[m.g] EXCEPT !.a = v] ELSE [files[m.g] EXCEPT !.b = v]
        BY <1>6, <1>7, <3>3
      <4>2. files'[m.g] = [a |-> m.s.a, b |-> m.s.a + m.s.b]
        BY <1>5, <1>7, <2>6, <3>1, <4>1
      <4> QED
        BY <2>2, <2>6, <4>2 DEF SpecCame
    <3> QED
      BY <3>2, <3>3
  <2> QED
    BY <2>5, <2>6
<1>8. PICK first \in {"a", "b"} : first = IF SwapFirst(m.swap, m.s.a) THEN "b" ELSE "a"
  OBVIOUS
<1>9. PICK second \in {"a", "b"} : second = IF SwapFirst(m.swap, m.s.a) THEN "a" ELSE "b"
  OBVIOUS
<1>10. \/ m.pc = "write1" /\ Write(c, first, IF first = "a" THEN m.s.a ELSE m.s.a + m.s.b, "write2", TRUE)
       \/ m.pc = "write2" /\ Write(c, second, IF second = "a" THEN m.s.a ELSE m.s.a + m.s.b, "report", TRUE)
  BY <1>2, <1>8, <1>9 DEF LimitWrite, CommandAt
<1> QED
  BY <1>4, <1>7, <1>8, <1>9, <1>10

\* A cpuset spec writes the settings that are given.
LEMMA CpusetWriteIInv ==
  ASSUME CgroupIInv, NEW c \in Caller, CpusetWrite(c), UNCHANGED <<dir, live, member, kept, removed>>
  PROVE  CgroupIInv'
<1> USE DEF CgroupIInv
<1>1. command[c].pc \in {"write1", "write2"} /\ command[c].g[1] = "cpuset"
  BY DEF CpusetWrite, CommandAt
<1>2. PICK m \in GroupCommand : m = command[c]
  BY <1>1, GroupCommandFields
<1>3. /\ m.pc \in {"write1", "write2"} /\ m.op = "spec" /\ m.g[1] # "memory" /\ m.s \in Asked
      /\ m.res = "ok" /\ Changes(m)
  BY <1>1, <1>2 DEF CommandsCame, Sensible, GroupCommand, Changes
<1>4. m.s.a \in Nat /\ m.s.b \in Nat
  BY <1>3, CgroupAssumption
<1>5. ASSUME NEW field \in {"a", "b"}, NEW v \in Nat, NEW pc \in {"write2", "report"},
             \/ CommandTo(c, pc) /\ UNCHANGED files
             \/ Write(c, field, v, pc, FALSE)
             \/ Ends(c, "failed") /\ UNCHANGED files
      PROVE  CgroupIInv'
  <2>1. PICK f : f = OnAt(m, pc)
    OBVIOUS
  <2>2. /\ f \in GroupCommand /\ f.pc = pc /\ f.op = m.op /\ f.made = m.made /\ f.res = m.res /\ f.g = m.g
    BY <2>1 DEF GroupCommand, OnAt
  <2>3. Sensible(f) /\ SpecCame(f)' /\ RemoveCame(f)' /\ Changes(f)
    BY <1>3, <2>2 DEF Sensible, SpecCame, RemoveCame, Changes
  <2>4. CASE CommandTo(c, pc) /\ UNCHANGED files
    <3>1. command' = Moved(c, f, {})
      BY <1>2, <2>1, <2>4 DEF CommandTo, OnAt
    <3> QED
      BY <1>2, <1>3, <2>2, <2>3, <2>4, <3>1, MovedFacts, PlainStep
  <2>5. CASE Write(c, field, v, pc, FALSE)
    <3>1. m.op # "remove"
      BY <1>3
    <3>2. pc \in {"reset2", "reset3", "write2", "report"}
      OBVIOUS
    <3> HIDE DEF CgroupIInv
    <3> QED
      BY <1>2, <1>3, <2>1, <2>3, <2>5, <3>1, <3>2, WriteIInv
  <2>6. CASE Ends(c, "failed") /\ UNCHANGED files
    <3>1. PICK e : e = [m EXCEPT !.pc = "done", !.res = "failed"]
      OBVIOUS
    <3>2. e \in GroupCommand /\ e.pc = "done" /\ e.op = m.op /\ e.g = m.g /\ e.res = "failed"
      BY <3>1 DEF GroupCommand
    <3>3. command' = Moved(c, e, {})
      BY <1>2, <2>6, <3>1 DEF Ends
    <3>4. Sensible(e) /\ SpecCame(e)' /\ RemoveCame(e)' /\ ~Changes(e)
      BY <1>3, <3>2 DEF Sensible, SpecCame, RemoveCame, Changes
    <3> QED
      BY <1>2, <2>6, <3>2, <3>3, <3>4, MovedFacts, PlainStep
  <2> QED
    BY <1>5, <2>4, <2>5, <2>6
<1>6. \/ CommandTo(c, "write2") /\ UNCHANGED files
      \/ Write(c, "a", m.s.a, "write2", FALSE)
      \/ CommandTo(c, "report") /\ UNCHANGED files
      \/ Write(c, "b", m.s.b, "report", FALSE)
      \/ Ends(c, "failed") /\ UNCHANGED files
  BY <1>2 DEF CpusetWrite
<1> QED
  BY <1>4, <1>5, <1>6

\* A spec is answered, and its limits are kept if nobody is changing them.
LEMMA ReportIInv == ASSUME CgroupIInv, NEW c \in Caller, Report(c) PROVE CgroupIInv'
<1> USE DEF CgroupIInv
<1>1. command[c].pc = "report" /\ UNCHANGED <<dir, files, live, member, removed>>
  BY DEF Report, CommandAt
<1>2. PICK m \in GroupCommand : m = command[c]
  BY <1>1, GroupCommandFields
<1>3. m.pc = "report" /\ m.op = "spec" /\ m.g \in Group /\ SpecCame(m)
  BY <1>1, <1>2 DEF CommandsCame, Sensible, GroupCommand
<1>4. PICK f : f = [m EXCEPT !.pc = "done", !.res = "ok"]
  OBVIOUS
<1>5. /\ f \in GroupCommand /\ f.pc = "done" /\ f.op = m.op /\ f.g = m.g /\ f.s = m.s /\ f.clean = m.clean
      /\ f.swap = m.swap
  BY <1>4 DEF GroupCommand
<1>6. command' = Moved(c, f, {})
  BY <1>2, <1>4 DEF Report, Ends
<1>7. /\ command' \in [Caller -> {NoCommand} \cup GroupCommand] /\ command'[c] = f
      /\ Undisturbed(c, m.g, {})
  BY <1>5, <1>6, MovedFacts
<1>8. Sensible(f) /\ SpecCame(f)' /\ RemoveCame(f)' /\ ~Changes(f)
  BY <1>1, <1>3, <1>5 DEF Sensible, SpecCame, RemoveCame, Changes
<1>9. \/ kept' = kept
      \/ /\ kept' = [kept EXCEPT ![m.g] = files[m.g]] /\ m.g \in dir
         /\ \A d \in Caller \ {c} : ~Changing(d, m.g)
  BY <1>2 DEF Report
<1>10. CgroupTypeOK' /\ LimitsAreOrdered'
  BY <1>1, <1>3, <1>7, <1>9 DEF CgroupTypeOK, LimitsAreOrdered
<1>11. RemovedKnows'
  BY <1>1, <1>5, <1>7 DEF RemovedKnows, Undisturbed
<1>12. KeptKnows'
  <2> SUFFICES ASSUME NEW h \in Group, kept'[h] # NoLimits
               PROVE  h \in dir' /\ files'[h] = kept'[h] /\ \A d \in Caller : ~Changing(d, h)'
    BY DEF KeptKnows
  <2>1. /\ h \in dir' /\ files'[h] = kept'[h]
        /\ \A d \in Caller : d # c => ~(Changes(command[d]) /\ command[d].g = h)
    <3>1. CASE kept'[h] = kept[h]
      BY <1>1, <3>1, ChangingIs DEF KeptKnows
    <3>2. CASE kept'[h] # kept[h]
      <4>1. h = m.g /\ kept'[h] = files[h] /\ m.g \in dir /\ \A d \in Caller \ {c} : ~Changing(d, m.g)
        BY <1>3, <1>9, <3>2 DEF CgroupTypeOK
      <4> QED
        BY <1>1, <4>1, ChangingIs
    <3> QED
      BY <3>1, <3>2
  <2>2. ASSUME NEW d \in Caller PROVE ~(Changes(command'[d]) /\ command'[d].g = h)
    <3>1. CASE d = c
      BY <1>7, <1>8, <3>1
    <3>2. CASE d # c
      BY <1>7, <2>1, <3>2 DEF Undisturbed, Changes
    <3> QED
      BY <3>1, <3>2
  <2> QED
    BY <2>1, <2>2 DEF Changing, Changes, CommandAt
<1>13. \A h \in Group : Members(h)' \subseteq Members(h)
  BY <1>1 DEF Members
<1> QED
  BY <1>1, <1>3, <1>7, <1>8, <1>10, <1>11, <1>12, <1>13, CallerStep

\* A remove looks for the group and reads its members.
LEMMA RemoveTasksIInv == ASSUME CgroupIInv, NEW c \in Caller, RemoveTasks(c) PROVE CgroupIInv'
<1> USE DEF CgroupIInv
<1>1. command[c].pc \in {"rexists", "rtasks"} /\ UNCHANGED <<dir, files, live, member, kept, removed>>
  BY DEF RemoveTasks, CommandAt
<1>2. PICK m \in GroupCommand : m = command[c]
  BY <1>1, GroupCommandFields
<1>3. m.pc \in {"rexists", "rtasks"} /\ m.op = "remove" /\ m.res = "ok" /\ Changes(m) /\ RemoveCame(m)
  BY <1>1, <1>2 DEF CommandsCame, Sensible, Changes
<1>4. CASE m.g \in dir /\ CommandTo(c, "rtasks")
  <2>1. PICK f : f = [m EXCEPT !.pc = "rtasks"]
    OBVIOUS
  <2>2. f \in GroupCommand /\ f.pc = "rtasks" /\ f.op = m.op /\ f.g = m.g /\ f.res = m.res
    BY <2>1 DEF GroupCommand
  <2>3. command' = Moved(c, f, {})
    BY <1>2, <1>4, <2>1 DEF CommandTo
  <2>4. Sensible(f) /\ SpecCame(f)' /\ RemoveCame(f)'
    BY <1>1, <1>3, <1>4, <2>2 DEF Sensible, SpecCame, RemoveCame
  <2> QED
    BY <1>1, <1>2, <1>3, <2>2, <2>3, <2>4, MovedFacts, PlainStep
<1>5. ASSUME NEW res \in {"ok", "failed"}, Ends(c, res), res = "failed" => m.pc = "rtasks" /\ m.g \notin dir
      PROVE  CgroupIInv'
  <2>1. PICK f : f = [m EXCEPT !.pc = "done", !.res = res]
    OBVIOUS
  <2>2. f \in GroupCommand /\ f.pc = "done" /\ f.op = m.op /\ f.g = m.g /\ f.res = res /\ f.clean = m.clean
    BY <2>1 DEF GroupCommand
  <2>3. command' = Moved(c, f, {})
    BY <1>2, <1>5, <2>1 DEF Ends
  <2>4. Sensible(f) /\ SpecCame(f)' /\ RemoveCame(f)' /\ ~Changes(f)
    BY <1>3, <1>5, <2>2 DEF Sensible, SpecCame, RemoveCame, Changes
  <2> QED
    BY <1>1, <1>2, <2>2, <2>3, <2>4, MovedFacts, PlainStep
<1>6. CASE /\ m.g \in dir
           /\ command' = [command EXCEPT ![c] = [@ EXCEPT !.pc = "rmove", !.clean = TRUE, !.left = Members(m.g)]]
  <2>1. PICK f : f = [m EXCEPT !.pc = "rmove", !.clean = TRUE, !.left = Members(m.g)]
    OBVIOUS
  <2>2. Members(m.g) \subseteq Pid
    BY DEF Members, CgroupTypeOK
  <2>3. /\ f \in GroupCommand /\ f.pc = "rmove" /\ f.op = m.op /\ f.g = m.g /\ f.res = m.res
        /\ f.left = Members(m.g)
    BY <2>1, <2>2 DEF GroupCommand
  <2>4. command' = [command EXCEPT ![c] = f]
    BY <1>2, <1>6, <2>1 DEF CgroupTypeOK
  <2>5. /\ command' \in [Caller -> {NoCommand} \cup GroupCommand] /\ command'[c] = f
        /\ Undisturbed(c, m.g, {})
    BY <2>3, <2>4, ExceptFacts
  <2>6. Members(m.g)' \subseteq f.left
    BY <1>1, <2>3 DEF Members
  <2>7. RemoveCame(f)'
    BY <1>1, <1>6, <2>3, <2>6 DEF RemoveCame, Members
  <2>8. Sensible(f) /\ SpecCame(f)' /\ f.pc \notin {"stat", "mkdir"}
    BY <1>3, <2>3 DEF Sensible, SpecCame
  <2> QED
    BY <1>1, <1>2, <1>3, <2>3, <2>5, <2>7, <2>8, PlainStep
<1> QED
  BY <1>2, <1>4, <1>5, <1>6 DEF RemoveTasks, CommandAt

\* A member is moved to the root.
LEMMA RemoveMoveIInv == ASSUME CgroupIInv, NEW c \in Caller, RemoveMove(c) PROVE CgroupIInv'
<1> USE DEF CgroupIInv
<1>1. command[c].pc = "rmove" /\ UNCHANGED <<dir, files, live, kept, removed>>
  BY DEF RemoveMove, CommandAt
<1>2. PICK m \in GroupCommand : m = command[c]
  BY <1>1, GroupCommandFields
<1>3. m.pc = "rmove" /\ m.op = "remove" /\ m.res = "ok" /\ Changes(m) /\ RemoveCame(m) /\ m.g \in Group
      /\ m.left \subseteq Pid
  BY <1>1, <1>2 DEF CommandsCame, Sensible, Changes, GroupCommand
<1>4. PICK p \in m.left :
        /\ member' = IF p \in live THEN [member EXCEPT ![p][m.g[1]] = RootGroup] ELSE member
        /\ command' = [command EXCEPT ![c] = [command[c] EXCEPT !.left = m.left \ {p}]]
  <2>1. PICK p \in command[c].left :
          /\ member' = IF p \in live THEN [member EXCEPT ![p][command[c].g[1]] = RootGroup] ELSE member
          /\ command' = [command EXCEPT ![c].left = Left(@, p)]
    BY DEF RemoveMove
  <2>2. command' = [command EXCEPT ![c] = [command[c] EXCEPT !.left = command[c].left \ {p}]]
    BY <2>1 DEF CgroupTypeOK, Left
  <2> QED
    BY <1>2, <2>1, <2>2
<1>5. PICK f : f = [m EXCEPT !.left = m.left \ {p}]
  OBVIOUS
<1>6. /\ f \in GroupCommand /\ f.pc = "rmove" /\ f.op = m.op /\ f.g = m.g /\ f.res = m.res /\ f.clean = m.clean
      /\ f.left = m.left \ {p} /\ f.made = m.made
  BY <1>3, <1>5 DEF GroupCommand
<1>7. command' = [command EXCEPT ![c] = f]
  BY <1>2, <1>4, <1>5
<1>8. /\ command' \in [Caller -> {NoCommand} \cup GroupCommand] /\ command'[c] = f
      /\ Undisturbed(c, m.g, {})
  BY <1>6, <1>7, ExceptFacts
<1>9. m.g[1] \in Subsystem /\ p \in Pid
  BY <1>3, GroupKinds DEF Subsystem
<1>10. /\ member' \in [Pid -> [Subsystem -> Group \cup {RootGroup}]]
       /\ p \in live => member'[p][m.g[1]] = RootGroup
       /\ \A q \in Pid, s \in Subsystem : member'[q][s] \in {RootGroup, member[q][s]}
  BY <1>4, <1>9 DEF CgroupTypeOK
<1>11. CgroupTypeOK' /\ LimitsAreOrdered'
  BY <1>1, <1>8, <1>10 DEF CgroupTypeOK, LimitsAreOrdered
<1>12. RemovedKnows'
  BY <1>1, <1>6, <1>8 DEF RemovedKnows, Undisturbed
<1>13. \A h \in Group : kept[h] # NoLimits => h \in dir /\ h # m.g
  BY <1>2, <1>3, ChangingIs DEF KeptKnows
<1>14. KeptKnows'
  BY <1>1, <1>6, <1>8, <1>13, KeptStays
<1>15. \A h \in Group : h[1] \in Subsystem /\ h # RootGroup
  BY GroupKinds DEF Subsystem
<1>16. \A h \in Group : Members(h)' \subseteq Members(h)
  BY <1>1, <1>10, <1>15 DEF Members, CgroupTypeOK
<1>17. p \notin Members(m.g)'
  BY <1>1, <1>3, <1>10, <1>15 DEF Members
<1>18. Members(m.g)' \subseteq Members(m.g)
  BY <1>3, <1>16
<1>19. RemoveCame(f)'
  <2>1. m.clean => m.g \in dir' /\ Members(m.g)' \subseteq f.left
    BY <1>1, <1>3, <1>6, <1>17, <1>18 DEF RemoveCame
  <2> QED
    BY <1>6, <2>1 DEF RemoveCame, Members
<1>20. Sensible(f) /\ SpecCame(f)'
  BY <1>3, <1>6 DEF Sensible, SpecCame
<1> QED
  BY <1>1, <1>3, <1>8, <1>11, <1>12, <1>14, <1>16, <1>19, <1>20, CallerStep

\* The directory of a group goes.
LEMMA RemoveDirIInv == ASSUME CgroupIInv, NEW c \in Caller, RemoveDir(c) PROVE CgroupIInv'
<1> USE DEF CgroupIInv
<1>1. command[c].pc = "rmove" /\ UNCHANGED <<files, live, member, kept>>
  BY DEF RemoveDir, CommandAt
<1>2. PICK m \in GroupCommand : m = command[c]
  BY <1>1, GroupCommandFields
<1>3. m.pc = "rmove" /\ m.op = "remove" /\ m.res = "ok" /\ Changes(m) /\ RemoveCame(m) /\ m.g \in Group
      /\ m.left = {}
  BY <1>1, <1>2 DEF CommandsCame, Sensible, Changes, GroupCommand, RemoveDir
<1>4. CASE /\ dir' = dir \ {m.g}
           /\ command' = Moved(c, [command[c] EXCEPT !.pc = "done"], {"remove", "spec", "reset"})
           /\ removed' = IF \E d \in Caller : command[d].pc \in {"stat", "mkdir"} /\ command[d].g = m.g
                         THEN removed ELSE removed \cup {m.g}
  <2>1. PICK f : f = [m EXCEPT !.pc = "done"]
    OBVIOUS
  <2>2. f \in GroupCommand /\ f.pc = "done" /\ f.op = m.op /\ f.g = m.g /\ f.res = m.res
    BY <2>1 DEF GroupCommand
  <2>3. command' = Moved(c, f, {"remove", "spec", "reset"})
    BY <1>2, <1>4, <2>1
  <2>4. /\ command' \in [Caller -> {NoCommand} \cup GroupCommand] /\ command'[c] = f
        /\ Undisturbed(c, m.g, {"remove", "spec", "reset"})
    BY <2>2, <2>3, MovedFacts
  <2>5. Sensible(f) /\ SpecCame(f)' /\ RemoveCame(f)' /\ ~Changes(f)
    BY <1>3, <2>2 DEF Sensible, SpecCame, RemoveCame, Changes
  <2>6. CgroupTypeOK' /\ LimitsAreOrdered'
    BY <1>1, <1>3, <1>4, <2>4 DEF CgroupTypeOK, LimitsAreOrdered
  <2>7. \A h \in Group : kept[h] # NoLimits => h \in dir /\ h # m.g
    BY <1>2, <1>3, ChangingIs DEF KeptKnows
  <2>8. \A h \in Group : h # m.g => (h \in dir' <=> h \in dir)
    BY <1>4
  <2>9. KeptKnows'
    BY <1>1, <2>4, <2>5, <2>7, <2>8, KeptStays
  <2>10. RemovedKnows'
    <3>1. removed' \cap dir' = {}
      BY <1>4 DEF RemovedKnows
    <3>2. ASSUME NEW d \in Caller, command'[d].pc \in {"stat", "mkdir"} PROVE command'[d].g \notin removed'
      <4>1. d # c
        BY <2>2, <2>4, <3>2
      <4>2. command[d].pc \in {"stat", "mkdir"} /\ command'[d].g = command[d].g
        BY <2>4, <3>2, <4>1 DEF Undisturbed
      <4> QED
        BY <1>4, <4>2 DEF RemovedKnows
    <3> QED
      BY <3>1, <3>2 DEF RemovedKnows
  <2>11. \A h \in Group : Members(h)' \subseteq Members(h)
    BY <1>1 DEF Members
  <2> QED
    BY <1>1, <1>3, <2>4, <2>5, <2>6, <2>8, <2>9, <2>10, <2>11, CallerStep
<1>5. CASE ~(m.g \in dir /\ Members(m.g) = {}) /\ Ends(c, "failed") /\ UNCHANGED <<dir, removed>>
  <2>1. PICK f : f = [m EXCEPT !.pc = "done", !.res = "failed"]
    OBVIOUS
  <2>2. f \in GroupCommand /\ f.pc = "done" /\ f.op = m.op /\ f.g = m.g /\ f.res = "failed" /\ f.clean = m.clean
    BY <2>1 DEF GroupCommand
  <2>3. command' = Moved(c, f, {})
    BY <1>2, <1>5, <2>1 DEF Ends
  <2>4. ~m.clean
    BY <1>3, <1>5 DEF RemoveCame
  <2>5. Sensible(f) /\ SpecCame(f)' /\ RemoveCame(f)' /\ ~Changes(f)
    BY <1>3, <2>2, <2>4 DEF Sensible, SpecCame, RemoveCame, Changes
  <2> QED
    BY <1>1, <1>2, <1>5, <2>2, <2>3, <2>5, MovedFacts, PlainStep
<1> QED
  BY <1>2, <1>4, <1>5 DEF RemoveDir

\* A command is answered.
LEMMA AnswerIInv == ASSUME CgroupIInv, NEW c \in Caller, Answer(c) PROVE CgroupIInv'
<1> USE DEF CgroupIInv
<1>1. /\ command[c].pc = "done" /\ command' = [command EXCEPT ![c] = NoCommand]
      /\ UNCHANGED <<dir, files, live, member, kept, removed>>
  BY DEF Answer, CommandAt
<1>2. command[c] \in GroupCommand
  BY <1>1, GroupCommandFields
<1>3. PICK f : f = NoCommand
  OBVIOUS
<1>4. f.pc = "idle"
  BY <1>3 DEF NoCommand
<1>5. /\ command' \in [Caller -> {NoCommand} \cup GroupCommand] /\ command'[c] = f
      /\ Undisturbed(c, command[c].g, {})
  BY <1>1, <1>3, ExceptFacts
<1>6. Sensible(f) /\ SpecCame(f)' /\ RemoveCame(f)' /\ ~Changes(f)
  BY <1>4 DEF Sensible, SpecCame, RemoveCame, Changes
<1> QED
  BY <1>1, <1>2, <1>4, <1>5, <1>6, PlainStep

\* A step of no caller: commands may be marked as disturbed, and processes come and go.
LEMMA TaskStep ==
  ASSUME CgroupIInv, UNCHANGED <<dir, files, kept, removed>>, CgroupTypeOK',
         \A c \in Caller :
           LET m == command[c]  n == command'[c] IN
           /\ n.pc = m.pc
           /\ m.pc # "idle" =>
                /\ n.op = m.op /\ n.g = m.g /\ n.s = m.s /\ n.swap = m.swap /\ n.left = m.left
                /\ n.made = m.made /\ n.res = m.res
                /\ n.clean => m.clean /\ (m.pc = "rmove" => \A h \in Group : h = m.g => Members(h)' \subseteq Members(h))
  PROVE  CgroupIInv'
<1> USE DEF CgroupIInv
<1>1. LimitsAreOrdered' /\ RemovedKnows'
  BY DEF LimitsAreOrdered, RemovedKnows
<1>2. \A d \in Caller : \A g : (Changes(command[d]) /\ command[d].g = g) <=> (Changes(command'[d]) /\ command'[d].g = g)
  BY DEF Changes
<1>3. KeptKnows'
  <2> SUFFICES ASSUME NEW h \in Group, kept'[h] # NoLimits
               PROVE  h \in dir' /\ files'[h] = kept'[h] /\ \A d \in Caller : ~Changing(d, h)'
    BY DEF KeptKnows
  <2>1. h \in dir' /\ files'[h] = kept'[h] /\ \A d \in Caller : ~(Changes(command[d]) /\ command[d].g = h)
    BY ChangingIs DEF KeptKnows
  <2>2. \A d \in Caller : ~(Changes(command'[d]) /\ command'[d].g = h)
    BY <1>2, <2>1
  <2> QED
    BY <2>1, <2>2 DEF Changing, Changes, CommandAt
<1>4. ASSUME NEW d \in Caller PROVE Sensible(command'[d]) /\ SpecCame(command[d])'
  BY DEF CommandsCame, Sensible, SpecCame, SwapFirst
<1>5. ASSUME NEW d \in Caller PROVE RemoveCame(command[d])'
  <2> SUFFICES ASSUME command'[d].pc # "idle", command'[d].op = "remove", command'[d].clean PROVE RemoveCame(command[d])'
    BY DEF RemoveCame
  <2>1. /\ RemoveCame(command[d]) /\ command[d].pc # "idle" /\ command[d].op = "remove" /\ command[d].clean
        /\ command'[d].g = command[d].g /\ command'[d].pc = command[d].pc /\ command'[d].left = command[d].left
        /\ command'[d].res = command[d].res
    BY DEF CommandsCame
  <2>2. command[d] \in GroupCommand
    BY <2>1, GroupCommandFields
  <2>3. PICK h \in Group : h = command[d].g
    BY <2>2 DEF GroupCommand
  <2>4. command[d].pc = "rmove" => Members(h)' \subseteq Members(h)
    BY <2>1, <2>3
  <2> QED
    BY <2>1, <2>3, <2>4 DEF RemoveCame, Members
<1> QED
  BY <1>1, <1>3, <1>4, <1>5 DEF CommandsCame

\* A member of a group forks: a remove that has read the members may miss the child.
LEMMA TaskForksIInv == ASSUME CgroupIInv, TaskForks PROVE CgroupIInv'
<1>1. PICK p \in live, q \in Pid \ live :
        /\ live' = live \cup {q} /\ member' = [member EXCEPT ![q] = member[p]]
        /\ command' = [c \in Caller |->
             IF CommandAt(c, "rmove") /\ \E s \in Subsystem : member[p][s] = command[c].g
             THEN [command[c] EXCEPT !.clean = FALSE] ELSE command[c]]
  BY DEF TaskForks
<1>2. UNCHANGED <<dir, files, kept, removed>>
  BY DEF TaskForks
<1>3. CgroupTypeOK
  BY DEF CgroupIInv
<1>4. ASSUME NEW c \in Caller
      PROVE  \/ /\ command'[c] = command[c]
                /\ command[c].pc = "rmove" => \A s \in Subsystem : member[p][s] # command[c].g
             \/ command[c].pc = "rmove" /\ command'[c] = [command[c] EXCEPT !.clean = FALSE]
  BY <1>1 DEF CommandAt
<1>5. \A m \in GroupCommand :
        LET n == [m EXCEPT !.clean = FALSE] IN
        /\ n \in GroupCommand /\ n.pc = m.pc /\ n.op = m.op /\ n.g = m.g /\ n.s = m.s /\ n.swap = m.swap
        /\ n.left = m.left /\ n.made = m.made /\ n.res = m.res /\ ~n.clean
  BY DEF GroupCommand
<1>6. ASSUME NEW c \in Caller PROVE command'[c] \in {NoCommand} \cup GroupCommand
  <2>1. command[c] \in {NoCommand} \cup GroupCommand
    BY <1>3 DEF CgroupTypeOK
  <2> QED
    BY <1>3, <1>4, <1>5, <2>1, GroupCommandFields
<1>7. CgroupTypeOK'
  <2>1. command' \in [Caller -> {NoCommand} \cup GroupCommand]
    BY <1>1, <1>6
  <2>2. live' \subseteq Pid /\ member' \in [Pid -> [Subsystem -> Group \cup {RootGroup}]]
    BY <1>1, <1>3 DEF CgroupTypeOK
  <2> QED
    BY <1>2, <1>3, <2>1, <2>2 DEF CgroupTypeOK
<1>8. ASSUME NEW h \in Group, \A s \in Subsystem : member[p][s] # h
      PROVE  Members(h)' \subseteq Members(h)
  <2>1. h[1] \in Subsystem
    BY GroupKinds DEF Subsystem
  <2> QED
    BY <1>1, <1>3, <1>8, <2>1 DEF Members, CgroupTypeOK
<1>9. ASSUME NEW c \in Caller
      PROVE  LET m == command[c]  n == command'[c] IN
             /\ n.pc = m.pc
             /\ m.pc # "idle" =>
                  /\ n.op = m.op /\ n.g = m.g /\ n.s = m.s /\ n.swap = m.swap /\ n.left = m.left
                  /\ n.made = m.made /\ n.res = m.res
                  /\ n.clean => m.clean /\ (m.pc = "rmove" => \A h \in Group : h = m.g => Members(h)' \subseteq Members(h))
  <2>1. CASE /\ command'[c] = command[c]
             /\ command[c].pc = "rmove" => \A s \in Subsystem : member[p][s] # command[c].g
    BY <1>8, <2>1
  <2>2. CASE command[c].pc = "rmove" /\ command'[c] = [command[c] EXCEPT !.clean = FALSE]
    <3>1. command[c] \in GroupCommand
      BY <1>3, <2>2, GroupCommandFields
    <3> QED
      BY <1>5, <2>2, <3>1
  <2> QED
    BY <1>4, <2>1, <2>2
<1> QED
  BY <1>2, <1>7, <1>9, TaskStep

\* A process exits.
LEMMA TaskExitsIInv == ASSUME CgroupIInv, TaskExits PROVE CgroupIInv'
<1>1. PICK p \in live : /\ live' = live \ {p}
                        /\ member' = [member EXCEPT ![p] = [s \in Subsystem |-> RootGroup]]
  BY DEF TaskExits
<1>2. UNCHANGED <<dir, files, command, kept, removed>>
  BY DEF TaskExits
<1>3. CgroupTypeOK
  BY DEF CgroupIInv
<1>4. live' \subseteq Pid /\ member' \in [Pid -> [Subsystem -> Group \cup {RootGroup}]]
  BY <1>1, <1>3 DEF CgroupTypeOK
<1>5. CgroupTypeOK'
  BY <1>2, <1>3, <1>4 DEF CgroupTypeOK
<1>6. \A h \in Group : Members(h)' \subseteq Members(h)
  BY <1>1, <1>3 DEF Members, CgroupTypeOK
<1> QED
  BY <1>2, <1>5, <1>6, TaskStep

\* The empty state is one of the invariant.
LEMMA CgroupInitIInv == CgroupInit => CgroupIInv
<1> SUFFICES ASSUME CgroupInit PROVE CgroupIInv
  OBVIOUS
<1> USE DEF CgroupInit
<1>1. ASSUME NEW g \in Group PROVE Fresh(g) \in [a : Nat, b : Nat] /\ (g[1] = "memory" => Fresh(g).a <= Fresh(g).b)
  BY CgroupAssumption DEF Fresh
<1>2. \A c \in Caller : command[c].pc = "idle"
  BY DEF NoCommand
<1>3. CgroupTypeOK
  <2>1. live \subseteq Pid
    BY CgroupAssumption
  <2>2. member \in [Pid -> [Subsystem -> Group \cup {RootGroup}]]
    OBVIOUS
  <2>3. files \in [Group -> [a : Nat, b : Nat]] /\ kept \in [Group -> [a : Nat, b : Nat]]
    BY <1>1 DEF NoLimits
  <2> QED
    BY <2>1, <2>2, <2>3 DEF CgroupTypeOK
<1>4. CommandsCame
  BY <1>2 DEF CommandsCame, Sensible, SpecCame, RemoveCame
<1>5. LimitsAreOrdered
  BY <1>1 DEF LimitsAreOrdered
<1>6. KeptKnows /\ RemovedKnows
  BY DEF KeptKnows, RemovedKnows
<1> QED
  BY <1>3, <1>4, <1>5, <1>6 DEF CgroupIInv

\* What the invariant says of the limits.
LEMMA CgroupIInvLimits == CgroupIInv => LimitsAreKept
<1> SUFFICES ASSUME CgroupIInv PROVE LimitsAreKept
  OBVIOUS
<1> USE DEF CgroupIInv
<1>1. LimitIsSet
  BY DEF LimitIsSet, CommandAt, CommandsCame, SpecCame
<1>2. LimitStays /\ RemovedStaysRemoved
  BY DEF LimitStays, RemovedStaysRemoved, KeptKnows, RemovedKnows
<1>3. RemoveFailsOnlyByNewTask
  BY DEF RemoveFailsOnlyByNewTask, CommandAt, CommandsCame, RemoveCame
<1> QED
  BY <1>1, <1>2, <1>3 DEF LimitsAreKept

\* cgroups/memory.go, cgroups/manager.go: whatever limits a memory group had and
\* whoever runs next to it, a memory spec that nobody disturbs ends with exactly the
\* limits it asked for, these stay until the next spec, reset or remove of the group,
\* a removed group stays away, and a remove fails only by a task that joined.
THEOREM LimitsKept == CgroupSpec => []LimitsAreKept
<1>1. CgroupInit => CgroupIInv
  BY CgroupInitIInv
<1>2. CgroupIInv /\ [CgroupNext]_cgroupVars => CgroupIInv'
  <2> SUFFICES ASSUME CgroupIInv, [CgroupNext]_cgroupVars PROVE CgroupIInv'
    OBVIOUS
  <2>1. CASE TaskForks
    BY <2>1, TaskForksIInv
  <2>2. CASE TaskExits
    BY <2>2, TaskExitsIInv
  <2>3. ASSUME NEW c \in Caller, Begin(c) \/ CgroupStep(c) PROVE CgroupIInv'
    <3>1. CASE Begin(c)
      BY <3>1, BeginIInv
    <3>2. CASE LookExists(c) \/ GetGroupStat(c) \/ GetGroupMkdir(c) \/ Reset(c)
      BY <3>2, LookExistsIInv, GetGroupStatIInv, GetGroupMkdirIInv, ResetIInv
    <3>3. CASE Tasks(c) \/ TaskAddRemove(c) \/ ReadLimits(c)
      BY <3>3, TasksIInv, TaskAddRemoveIInv, ReadLimitsIInv
    <3>4. CASE WriteSpec(c)
      BY <3>4, LimitWriteIInv, CpusetWriteIInv DEF WriteSpec
    <3>5. CASE Report(c) \/ RemoveTasks(c) \/ RemoveMove(c)
      BY <3>5, ReportIInv, RemoveTasksIInv, RemoveMoveIInv
    <3>6. CASE RemoveDir(c) \/ Answer(c)
      BY <3>6, RemoveDirIInv, AnswerIInv
    <3> QED
      BY <2>3, <3>1, <3>2, <3>3, <3>4, <3>5, <3>6 DEF CgroupStep
  <2>4. CASE UNCHANGED cgroupVars
    <3>1. UNCHANGED <<dir, files, live, member, command, kept, removed>>
      BY <2>4 DEF cgroupVars
    <3>2. CgroupTypeOK'
      BY <3>1 DEF CgroupIInv, CgroupTypeOK
    <3>3. \A h \in Group : Members(h)' \subseteq Members(h)
      BY <3>1 DEF Members
    <3> QED
      BY <3>1, <3>2, <3>3, TaskStep
  <2> QED
    BY <2>1, <2>2, <2>3, <2>4 DEF CgroupNext
<1>3. CgroupIInv => LimitsAreKept
  BY CgroupIInvLimits
<1> QED
  BY <1>1, <1>2, <1>3, PTL DEF CgroupSpec
===============================================================================
