------------------------------- MODULE Conditions -------------------------------
(***************************************************************************)
(* The conditions of startup services (base/settings/condition.go): the    *)
(* parser of expressions such as `and(zerotier, not(debug))' and their     *)
(* evaluation against the kernel's parameters.                             *)
(*                                                                         *)
(* A text is a sequence of tokens, each a word, a parenthesis, a comma or a*)
(* space; positions count tokens from 1. Two words never touch: they would *)
(* be one.                                                                 *)
(***************************************************************************)
EXTENDS Naturals, Sequences, SequencesExt, FiniteSets, FiniteSetsExt

CONSTANTS
  Letters,   \* tokens of the arbitrary texts
  MaxTokens, \* bound: their length
  Params     \* the sets of parameters evaluated against

Builtin == {"true", "false", "and", "or", "not"}
Word == Builtin \cup {"a", "b"}

ASSUME ConditionAssumption ==
  /\ Letters \subseteq Word \cup {"(", ")", ",", " "} /\ MaxTokens \in Nat
  /\ \A p \in Params : p \subseteq {"a", "b"}

VARIABLES
  text,    \* a condition in a configuration
  parsed   \* <<>>, or the outcome of GetExpression: [exp, err]

conditionVars == <<text, parsed>>

\* An expression is [op, args]; an argument that is missing is nil.
Nil == [op |-> "nil", args |-> <<>>]
Leaf(w) == [op |-> w, args |-> <<>>]

-----------------------------------------------------------------------------
(* Mutants: bugs this code could have, each caught by a property below.    *)

\* or returns at its first argument, as and does.
DecidesFirst(op) == "no"

-----------------------------------------------------------------------------
(* getOne and GetExpression.                                               *)

NonSpace(t, from) == {i \in from .. Len(t) : t[i] # " "}

\* The first position that is no space; the one given if there is none.
Forward(t, from) == IF NonSpace(t, from) = {} THEN from ELSE Min(NonSpace(t, from))

\* strings.IndexFunc and its -1.
ForwardOrBack(t, from) == IF NonSpace(t, from) = {} THEN from - 1 ELSE Min(NonSpace(t, from))

\* true, false and the words of users have no use for arguments.
Built(w, args, next, t) ==
  [exp |-> [op |-> w, args |-> IF w \in {"and", "or", "not"} THEN args ELSE <<>>],
   next |-> next, err |-> IF next > Len(t) THEN "EOL" ELSE "none"]

RECURSIVE GetOne(_, _), GetArgs(_, _, _)

\* The arguments after the separator at `sep'. When a comma has nothing but
\* spaces after it, the next separator found is that comma: the loop of the code
\* does not end.
GetArgs(t, sep, args) ==
  LET sub  == GetOne(t, sep + 1)
      next == ForwardOrBack(t, sub.next)
      all  == Append(args, sub.exp)
  IN  IF sub.err # "none" THEN [args |-> all, next |-> sub.next, err |-> sub.err]
      ELSE IF t[next] = ")" THEN [args |-> all, next |-> next + 1, err |-> "none"]
      ELSE IF t[next] # "," THEN [args |-> all, next |-> next, err |-> "expecting , or )"]
      ELSE IF next = sep THEN [args |-> all, next |-> next, err |-> "loops"]
      ELSE GetArgs(t, next, all)

GetOne(t, from) ==
  LET at   == Forward(t, from)
      next == Forward(t, at + 1)
      args == GetArgs(t, next, <<>>)
  IN  IF at > Len(t) \/ (at <= Len(t) /\ t[at] \notin Word)
      THEN [exp |-> Nil, next |-> at, err |-> "none"]
      ELSE IF ~(next < Len(t) /\ t[next] = "(") THEN Built(t[at], <<>>, next, t)
      ELSE IF args.err # "none" THEN [exp |-> Nil, next |-> args.next, err |-> args.err]
      ELSE Built(t[at], args.args, args.next, t)

GetExpression(t) ==
  LET one == GetOne(t, 1) IN
  IF t = <<>> THEN [exp |-> Leaf("true"), err |-> "none"]
  ELSE IF one.err = "EOL" /\ one.exp # Nil THEN [exp |-> one.exp, err |-> "none"]
  ELSE IF one.err = "loops" THEN [exp |-> Nil, err |-> "loops"]
  ELSE [exp |-> Nil, err |-> "syntax"]

-----------------------------------------------------------------------------
(* Examine: yes, no, or the panic of a nil argument.                       *)

\* What decides the loop of and and or before its end.
Decides(op) == IF op = "and" THEN "no" ELSE "yes"
Negated(v) == CASE v = "yes" -> "no" [] v = "no" -> "yes" [] OTHER -> v

NotOf(vs) == IF Len(vs) = 1 THEN Negated(vs[1]) ELSE "no"

RECURSIVE Examine(_, _)
Examine(e, in) ==
  LET vs == [i \in DOMAIN e.args |-> Examine(e.args[i], in)]
      stops == {i \in DOMAIN vs : vs[i] \in {Decides(e.op), "panic"}}
  IN  CASE e.op = "nil" -> "panic"
        [] e.op = "true" -> "yes"
        [] e.op = "false" -> "no"
        [] e.op \in {"and", "or"} ->
             IF stops = {} THEN Negated(Decides(e.op)) ELSE vs[Min(stops)]
        [] e.op = "not" -> NotOf(vs)
        [] OTHER -> IF e.op \in in THEN "yes" ELSE "no"

-----------------------------------------------------------------------------
(* Expressions as people write them, and arbitrary texts.                  *)

Leaves == {Leaf(w) : w \in {"true", "false", "a", "b"}}
Nodes(sub) == {[op |-> o, args |-> <<x, y>>] : o \in {"and", "or"}, x \in sub, y \in sub}
              \cup {[op |-> "not", args |-> <<x>>] : x \in sub}
Small == Nodes({Leaf("a"), Leaf("true")}) \cup Leaves
Trees == Small \cup Nodes(Small)

\* A tree in the notation of the configuration, with a space where `sp' is <<" ">>.
RECURSIVE Written(_, _)
Written(e, sp) ==
  IF e.args = <<>> THEN <<e.op>>
  ELSE <<e.op>> \o sp \o <<"(">> \o sp \o Written(e.args[1], sp)
       \o (IF Len(e.args) = 1 THEN <<>> ELSE sp \o <<",">> \o sp \o Written(e.args[2], sp))
       \o sp \o <<")">>

TextOfTrees == {Written(e, sp) : e \in Trees, sp \in {<<>>, <<" ">>}}
Arbitrary == {t \in SeqOf(Letters, MaxTokens) :
                \A i \in 1 .. Len(t) - 1 : ~(t[i] \in Word /\ t[i + 1] \in Word)}

ConditionInit == text \in TextOfTrees \cup Arbitrary /\ parsed = <<>>

Parse ==
  /\ parsed = <<>>
  /\ parsed' = <<GetExpression(text)>>
  /\ UNCHANGED text

ConditionNext == Parse

-----------------------------------------------------------------------------
(* The reference: a grammar, and the meaning of a tree.                    *)

RECURSIVE IsExp(_), IsArgs(_)
IsExp(s) == \/ Len(s) = 1 /\ s[1] \in Word
            \/ Len(s) >= 3 /\ s[1] \in Word /\ s[2] = "(" /\ Last(s) = ")"
               /\ IsArgs(SubSeq(s, 3, Len(s) - 1))
IsArgs(s) == \/ s = <<>> \/ IsExp(s)
             \/ \E k \in DOMAIN s : /\ s[k] = ","
                                    /\ SubSeq(s, 1, k - 1) = <<>> \/ IsExp(SubSeq(s, 1, k - 1))
                                    /\ IsArgs(SubSeq(s, k + 1, Len(s)))

Dense(t) == SelectSeq(t, LAMBDA c : c # " ")

RECURSIVE Holds(_, _)
Holds(e, in) ==
  CASE e.op = "true" -> TRUE [] e.op = "false" -> FALSE
    [] e.op = "and" -> Holds(e.args[1], in) /\ Holds(e.args[2], in)
    [] e.op = "or" -> Holds(e.args[1], in) \/ Holds(e.args[2], in)
    [] e.op = "not" -> ~Holds(e.args[1], in)
    [] OTHER -> e.op \in in

Accepted == parsed # <<>> /\ parsed[1].err = "none"
Outcome(in) == Examine(parsed[1].exp, in)

-----------------------------------------------------------------------------
(* Properties.                                                             *)

\* The parser accepts the expressions of the grammar, with spaces anywhere but
\* at the end, and nothing else; and the empty text.  It ends, unless the text
\* breaks off after a comma between parentheses: then it loops, and its list of
\* arguments grows for ever (getOne).
ParsesGrammar ==
  parsed # <<>> =>
    /\ Accepted <=> text = <<>> \/ (Last(text) # " " /\ IsExp(Dense(text)))
    /\ parsed[1].err = "loops" => Last(Dense(text)) = ","

\* An expression with all its arguments means what it says, for all parameters.
EvaluatesAsWritten ==
  parsed # <<>> => \A e \in Trees : text \in {Written(e, <<>>), Written(e, <<" ">>)} =>
    Accepted /\ \A in \in Params : Outcome(in) = "yes" <=> Holds(e, in)

\* The evaluation panics only on a text with an argument left out: `and()' and
\* `or(a,)' are accepted, with nil among the arguments.
PanicsOnlyOnMissing ==
  Accepted => \A in \in Params : Outcome(in) = "panic" =>
    \E i \in 1 .. Len(Dense(text)) - 1 :
      Dense(text)[i] \in {"(", ","} /\ Dense(text)[i + 1] \in {",", ")"}

\* Conditions are read by the grammar and mean what is written, as far as they
\* are complete.
ConditionsAsWritten == ParsesGrammar /\ EvaluatesAsWritten /\ PanicsOnlyOnMissing
=============================================================================
