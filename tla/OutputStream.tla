------------------------------ MODULE OutputStream ------------------------------
(***************************************************************************)
(* The parser of a process's output (base/pm/stream/input.go): a reader    *)
(* takes chunks from a pipe as they come and splits them into messages, the*)
(* single-line ones `8::text', the multi-line ones `20:::text\n:::\n', and *)
(* plain text of the level of the pipe.                                    *)
(*                                                                         *)
(* Bytes are of four kinds: text x, digit d, colon c, newline n; a level is*)
(* the number of its digits. Offsets are those of the code, from 0.        *)
(***************************************************************************)
EXTENDS Naturals, Sequences, SequencesExt, FiniteSets, FiniteSetsExt

CONSTANTS
  Sendable, \* messages a process may print: [kind, text]
  MaxSent,  \* bound: messages printed
  MaxReads  \* bound: chunks they are read in

ASSUME StreamAssumption ==
  /\ MaxSent \in Nat /\ MaxReads \in Nat
  /\ \A m \in Sendable : m.kind \in {"plain", "line", "multi"} /\ m.text \in Seq({"x", "n"})

VARIABLES
  pipe,   \* bytes written and not read: [b, at], `at' saying where in its message
  sent,   \* history: the messages written
  multi,  \* consumerImpl.multi: <<>> for nil, or <<text>>
  out,    \* the messages handed on: [level, text]
  clean,  \* history: every read so far was a clean one
  reads   \* their number

streamVars == <<pipe, sent, multi, out, clean, reads>>

StreamInit == pipe = <<>> /\ sent = <<>> /\ multi = <<>> /\ out = <<>> /\ clean = TRUE /\ reads = 0

Term == <<"n", "c", "c", "c", "n">>
Level(m) == CASE m.kind = "plain" -> 0 [] m.kind = "line" -> 1 [] m.kind = "multi" -> 2

-----------------------------------------------------------------------------
(* Offsets.                                                                *)

Slice(b, from, to) == SubSeq(b, from + 1, to)
Rest(b, from) == SubSeq(b, from + 1, Len(b))

\* newLineOrEOF, on the bytes from offset i: the offset of the newline, or the
\* length if there is none or if it is the last byte.
NewLineOrEOF(b, i) ==
  LET r == Rest(b, i)
      at == {k \in DOMAIN r : r[k] = "n"}
      n == IF at = {} THEN Len(r) - 1 ELSE Min(at) - 1
  IN  IF r = <<>> THEN 0 ELSE IF n + 1 = Len(r) THEN n + 1 ELSE n

\* headerPattern at offset i: digits, and two or three colons.
Run(r, c) == Min({k \in 1 .. Len(r) + 1 : k = Len(r) + 1 \/ r[k] # c}) - 1
HeaderAt(b, i) ==
  LET r == Rest(b, i)
      digits == Run(r, "d")
      colons == Min({3, Run(Rest(r, digits), "c")})
  IN  [found |-> digits > 0 /\ colons > 1, level |-> digits, multiline |-> colons = 3,
       length |-> digits + colons]

\* strings.Index of the terminator.
TermAt(b) ==
  LET at == {k \in 0 .. Len(b) - Len(Term) : Slice(b, k, k + Len(Term)) = Term}
  IN  IF at = {} THEN Len(b) ELSE Min(at)
HasTerm(b) == TermAt(b) < Len(b)

-----------------------------------------------------------------------------
(* Mutants: bugs this code could have, each caught by a property below.    *)

\* process does not hand on the text in front of a header.
FlushNot(b, start, i, acc) == acc

-----------------------------------------------------------------------------
(* process.                                                                *)

Flush(b, start, i, acc) ==
  IF i > start THEN Append(acc, [level |-> 0, text |-> Slice(b, start, i)]) ELSE acc

\* The loop of process from offset i, with the text from start not handed on
\* yet. After a multi-line message the loop's i++ skips one byte.
RECURSIVE Scan(_, _, _, _)
Scan(b, i, start, acc) ==
  IF i >= Len(b)
  THEN [out |-> Flush(b, start, Len(b), acc), multi |-> <<>>]
  ELSE LET h == HeaderAt(b, i)
           before == Flush(b, start, i, acc)
           j == i + h.length
           e == j + NewLineOrEOF(b, j)
           t == j + TermAt(Rest(b, j))
       IN  IF ~h.found THEN Scan(b, i + NewLineOrEOF(b, i) + 1, start, acc)
           ELSE IF ~h.multiline
           THEN Scan(b, e + 1, e + 1,
                     Append(before, [level |-> h.level,
                                     text |-> Slice(b, j, IF e = Len(b) THEN e ELSE e + 1)]))
           ELSE IF HasTerm(Rest(b, j))
           THEN Scan(b, t + Len(Term) + 1, t + Len(Term),
                     Append(before, [level |-> h.level, text |-> Slice(b, j, t)]))
           ELSE [out |-> before, multi |-> <<Rest(b, j)>>]

\* The terminator right at the start of a chunk, its newline in the one before.
StartsWithTerm(text, b) ==
  text # <<>> /\ Last(text) = "n" /\ Len(b) >= 4 /\ Slice(b, 0, 4) = Rest(Term, 1)

\* The multi-line message in progress is of level 2 (multiLevel).
Process(b) ==
  IF multi = <<>> THEN Scan(b, 0, 0, <<>>)
  ELSE LET done(text) == <<[level |-> 2, text |-> text]>> IN
       IF StartsWithTerm(multi[1], b) THEN Scan(Rest(b, 4), 0, 0, done(multi[1]))
       ELSE IF HasTerm(b)
       THEN Scan(Rest(b, TermAt(b) + Len(Term)), 0, 0, done(multi[1] \o Slice(b, 0, TermAt(b))))
       ELSE [out |-> <<>>, multi |-> <<multi[1] \o b>>]

-----------------------------------------------------------------------------
(* The process writes messages, the reader takes what there is.            *)

Tag(s, t) == [i \in DOMAIN s |-> [b |-> s[i], at |-> t]]
First(s, t) == [i \in DOMAIN s |-> IF i = 1 THEN [s[i] EXCEPT !.at = t] ELSE s[i]]

\* `at' is cut where a read may end in front of the byte, first or plain at the
\* first byte of a message, and end at the last byte of a terminator.
Encode(m) ==
  CASE m.kind = "plain" -> First(Tag(m.text, "in"), "plain")
    [] m.kind = "line"  -> First(Tag(<<"d", "c", "c">> \o m.text, "in"), "first")
    [] m.kind = "multi" -> First(Tag(<<"d", "d", "c", "c", "c">>, "in"), "first")
                           \o Tag(m.text, "cut") \o Tag(<<"n", "c">>, "cut")
                           \o Tag(<<"c", "c">>, "in") \o Tag(<<"n">>, "end")

Write(m) ==
  /\ Len(sent) < MaxSent
  /\ sent' = Append(sent, m)
  /\ pipe' = pipe \o Encode(m)
  /\ UNCHANGED <<multi, out, clean, reads>>

\* A read that ends where a message does, or within the text of a multi-line
\* message, and that has no header after a multi-line message.
CleanRead(k) ==
  /\ k < Len(pipe) => pipe[k + 1].at # "in" /\ pipe[k + 1].at # "end"
  /\ \A i \in 1 .. k - 1 : pipe[i].at = "end" => pipe[i + 1].at = "plain"

Read(k) ==
  /\ k \in 1 .. Len(pipe) /\ reads < MaxReads /\ reads' = reads + 1
  /\ LET p == Process([i \in 1 .. k |-> pipe[i].b]) IN
     out' = out \o p.out /\ multi' = p.multi
  /\ pipe' = SubSeq(pipe, k + 1, Len(pipe))
  /\ clean' = (clean /\ CleanRead(k))
  /\ UNCHANGED sent

StreamNext == (\E m \in Sendable : Write(m)) \/ \E k \in 1 .. Len(pipe) : Read(k)

-----------------------------------------------------------------------------
(* Properties.                                                             *)

\* Neighbouring plain texts may be joined or split, and a multi-line message may
\* keep the newline of its terminator.
Strip(m) == IF m.level = 2 /\ m.text # <<>> /\ Last(m.text) = "n" THEN [m EXCEPT !.text = Front(@)]
            ELSE m
Joined(s) ==
  FoldLeft(LAMBDA acc, m :
             IF m.level = 0 /\ acc # <<>> /\ Last(acc).level = 0
             THEN Append(Front(acc), [level |-> 0, text |-> Last(acc).text \o m.text])
             ELSE Append(acc, Strip(m)),
           <<>>, s)
AsMessages(s) == [i \in DOMAIN s |-> [level |-> Level(s[i]), text |-> s[i].text]]

\* If every read was clean, the messages come out as they were printed, each at
\* its level, wherever reads divide a multi-line message.
CleanReadsAsPrinted == clean /\ pipe = <<>> => Joined(out) = Joined(AsMessages(sent))
=============================================================================
