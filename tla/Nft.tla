--------------------------------- MODULE Nft ---------------------------------
(***************************************************************************)
(* The firewall (base/nft) and the commands that open and close ports      *)
(* (apps/core0/builtin/nft.go).                                            *)
(*                                                                         *)
(* The ruleset is the kernel's; each call of nft is one step under a lock, *)
(* but a command makes several calls and takes no lock of its own, so the  *)
(* commands of different jobs interleave between their calls.              *)
(***************************************************************************)
EXTENDS Naturals, FiniteSets, FiniteSetsExt

CONSTANTS
  Client,     \* jobs that run commands
  OpenPort,   \* ports that commands open and close
  MaxHandle,  \* bound: handles nft may assign
  None

ASSUME NftAssumption == MaxHandle \in Nat /\ None \notin Client

VARIABLES
  ruleset,    \* rules: [handle, chain, expr, by]; `by' is history: who added it
  lastHandle, \* the last handle the kernel assigned; it assigns none twice
  portCmd,    \* what each client's command is doing
  closed      \* history: ports closed by a drop that nothing interfered with

kernelRules == <<ruleset, lastHandle>>
nftVars == <<kernelRules, portCmd, closed>>

Idle == [op |-> "idle"]

-----------------------------------------------------------------------------
(* Rules and filters. A filter is <<"chain", c>> (TableFilter and          *)
(* ChainFilter) or an expression of the rule: a match of a payload         *)
(* (IntMatchFilter, NetworkMatchFilter), of a meta key (MetaMatchFilter),  *)
(* or a mangle of the mark (MarkFilter).                                   *)

TableMatch(f, r)   == f = <<"chain", r.chain>>
PayloadMatch(f, r) == f[1] = "match" /\ f \in r.expr
MetaMatch(f, r)    == f[1] = "meta" /\ f \in r.expr

FilterMatch(f, r) == TableMatch(f, r) \/ PayloadMatch(f, r) \/ MetaMatch(f, r)

AndMatch(filters, r) == filters # {} /\ \A f \in filters : FilterMatch(f, r)

\* Find: the rules that match one of the filters. renderRule makes the text of
\* each of them and fails for an expression it does not know, which the rules of
\* this program do not have.
Find(ands) == {r \in ruleset : \E filters \in ands : AndMatch(filters, r)}

\* Apply: nft -f adds the rules of a file; the kernel numbers them.
Apply(chain, expr, by) ==
  /\ lastHandle < MaxHandle
  /\ lastHandle' = lastHandle + 1
  /\ ruleset' = ruleset \cup {[handle |-> lastHandle', chain |-> chain, expr |-> expr, by |-> by]}

\* nftInit (setNFT): what the chains hold after boot.
BaseExpr == {<<"match", "ct state", "established">>, <<"match", "iifname", "lo">>,
             <<"match", "iifname", "vxbackend">>, <<"match", "ip protocol", "icmp">>}

NftInit ==
  /\ ruleset = {[handle |-> 0, chain |-> "filter/input", expr |-> {e}, by |-> <<"boot", 0>>] : e \in BaseExpr}
  /\ lastHandle = 0
  /\ portCmd = [c \in Client |-> Idle]
  /\ closed = {}

-----------------------------------------------------------------------------
(* nft.open_port and nft.drop_port.                                        *)

\* The rules openPort, dropPort and ruleExists look for.
MatchesOf(p) == Find({{<<"chain", "filter/input">>, <<"match", "tcp dport", p>>}})

\* Port.getRule: the interface and the subnet are further matches of the rule.
PortExpr(p) == {<<"match", "tcp dport", p>>, <<"verdict", "accept">>}

\* openPort finds a rule and refuses, or goes on.
OpenFind(c, p) ==
  /\ portCmd[c] = Idle /\ MatchesOf(p) = {}
  /\ portCmd' = [portCmd EXCEPT ![c] = [op |-> "open", port |-> p]]
  /\ UNCHANGED <<kernelRules, closed>>

\* openPort applies its rule; drops of the port that are under way have looked
\* before it.
OpenApply(c) ==
  /\ portCmd[c].op = "open"
  /\ LET p == portCmd[c].port IN
       /\ Apply("filter/input", PortExpr(p), <<"port", p>>)
       /\ portCmd' = [d \in Client |->
            IF d = c THEN Idle
            ELSE IF portCmd[d].op = "drop" /\ portCmd[d].port = p
                 THEN [portCmd[d] EXCEPT !.alone = FALSE] ELSE portCmd[d]]
       /\ closed' = closed \ {p}

\* nft fails: the command ends.
OpenFails(c) ==
  /\ portCmd[c].op = "open"
  /\ portCmd' = [portCmd EXCEPT ![c] = Idle]
  /\ UNCHANGED <<kernelRules, closed>>

DropFind(c, p) ==
  /\ portCmd[c] = Idle
  /\ portCmd' = [portCmd EXCEPT ![c] =
       [op |-> "drop", port |-> p, todo |-> {r.handle : r \in MatchesOf(p)}, alone |-> TRUE]]
  /\ UNCHANGED <<kernelRules, closed>>

\* Drop deletes the next rule by its handle.
DropOne(c) ==
  /\ portCmd[c].op = "drop" /\ portCmd[c].todo # {}
  /\ LET h == Min(portCmd[c].todo) IN
       /\ \E r \in ruleset : r.handle = h
       /\ ruleset' = {r \in ruleset : r.handle # h}
       /\ portCmd' = [portCmd EXCEPT ![c].todo = @ \ {h}]
  /\ UNCHANGED <<lastHandle, closed>>

\* nft fails, as it does if the rule is gone, and dropPort gives up.
DropFails(c) ==
  /\ portCmd[c].op = "drop" /\ portCmd[c].todo # {}
  /\ portCmd' = [portCmd EXCEPT ![c] = Idle]
  /\ UNCHANGED <<kernelRules, closed>>

DropDone(c) ==
  /\ portCmd[c].op = "drop" /\ portCmd[c].todo = {}
  /\ portCmd' = [portCmd EXCEPT ![c] = Idle]
  /\ closed' = IF portCmd[c].alone THEN closed \cup {portCmd[c].port} ELSE closed
  /\ UNCHANGED kernelRules

PortNext ==
  \E c \in Client :
    \/ \E p \in OpenPort : OpenFind(c, p) \/ DropFind(c, p)
    \/ OpenApply(c) \/ OpenFails(c) \/ DropOne(c) \/ DropFails(c) \/ DropDone(c)

-----------------------------------------------------------------------------
(* Properties.                                                             *)

\* Two commands that open a port at once both find no rule and both add one; a
\* drop that succeeds deletes them all, so that the port is closed unless
\* somebody was opening it meanwhile.
DropCloses == \A p \in closed : \A r \in ruleset : r.by # <<"port", p>>

\* The rules of boot, which let in replies and the traffic of the node itself,
\* survive every command.
BootRulesStay == {r.expr : r \in {q \in ruleset : q.by = <<"boot", 0>>}} = {{e} : e \in BaseExpr}
=============================================================================
