------------------------- MODULE MCAnalysisPipeline -------------------------
(* Instances of AnalysisPipeline for TLC. *)
EXTENDS AnalysisPipeline

Mail(n) == <<"email", n>>
Word(n) == <<"word", n>>
Blank1 == <<"blank", 0>>
Label == <<"address:", 0>>
Token(n) == <<"[EMAIL]", n>>

\* A number is given by its digits, and 10 for a dash.
Digits(seq) == [i \in 1 .. Len(seq) |-> IF seq[i] = 10 THEN <<"dash", 0>> ELSE <<"digit", seq[i]>>]

Mobile == Digits(<<0, 1, 0, 10, 1, 2, 3, 4, 10, 5, 6, 7, 8>>)
\* Ends behind the account number that is found in it: a phone begins in it, too.
Overlapped == Digits(<<9, 9, 9, 10, 0, 1, 0, 10, 1, 2, 3, 4, 10, 5, 6, 7, 8>>)
\* What follows the phone is found as a postal code once that is masked.
Followed == Mobile \o Digits(<<1, 2, 3, 4, 5>>)

At(head, cells) == [indent |-> 0, head |-> head, cells |-> cells, crlf |-> FALSE]
Indented(line, n) == [line EXCEPT !.indent = n]
Crlf(line) == [line EXCEPT !.crlf = TRUE]

\* Lines of uploaded texts: values next to, inside and after each other, tokens
\* the text already has, lines that are too long for one or both of the limits.
FirstLines ==
  {At("none", <<Word(1)>>), At("titled", <<>>), At("numbered", <<Word(1)>>), At("preamble", <<>>),
   At("article", <<Mail(1), Blank1, Mail(2)>>), At("article", <<Token(1), Mail(1)>>)}

OtherLines ==
  {At("none", <<Label, Mail(1), Blank1, Word(2)>>), Indented(At("none", <<Label, Token(2), Word(2), Label, Word(1)>>), 1),
   At("none", <<<<"path", 0>>>>)}

LongLines ==
  {At("article", Overlapped), At("article", Followed), At("article", Mobile \o <<Blank1>> \o Mobile),
   At("article", <<Word(1), Word(2), Word(3), Word(4), Word(5), Word(6), Label, Word(7)>>),
   At("article", <<Word(1), Word(2), Blank1>> \o Digits(<<1, 2, 3, 4, 5, 6>>)),
   At("article", <<Word(1), Word(2), Word(3), Word(4), Blank1>> \o Digits(<<1, 2, 3, 4, 5, 6>>))}

Paragraphs ==
  {<<l>> : l \in FirstLines \cup LongLines} \cup {<<l, m>> : l \in FirstLines, m \in OtherLines}

Texts == {[kind |-> "text", parts |-> <<p>>] : p \in Paragraphs}
  \cup {[kind |-> "text", parts |-> <<<<At("article", <<Mail(1), Blank1, Mail(2)>>)>>, <<l>>>>] :
          l \in {At("none", <<Word(1)>>), At("numbered", <<>>), At("preamble", <<>>)}}

\* Lines of confirmed pages.
Empty == At("none", <<>>)

PageLines ==
  {Empty, At("none", <<Word(1)>>), At("titled", <<>>), Indented(At("article", <<Word(1)>>), 2),
   At("numbered", <<Mail(1)>>)}

Pages == ({<<l>> : l \in PageLines} \cup {<<l, m>> : l \in PageLines, m \in PageLines}
          \cup {<<Crlf(l), m>> : l \in {Indented(Empty, 1), At("titled", <<>>)}, m \in PageLines})
           \ {<<Empty>>, <<Empty, Empty>>, <<Crlf(Indented(Empty, 1)), Empty>>}

Extractions == {[kind |-> "extraction", parts |-> <<p>>] : p \in Pages}
  \cup {[kind |-> "extraction", parts |-> <<<<Empty, At("none", <<Word(1)>>)>>, <<l>>>>] :
          l \in PageLines \ {Empty}}
  \cup {[kind |-> "extraction", parts |-> <<<<At("titled", <<>>)>>, <<At("none", <<Word(1)>>), l>>>>] :
          l \in PageLines}

AllDocuments == Texts \cup Extractions

Good ==
  [old |-> FALSE, echoes |-> TRUE, found |-> TRUE, selects |-> "candidate", asks |-> TRUE,
   cites |-> "candidate", expert |-> "no", allowed |-> TRUE, fact |-> "candidate", personal |-> FALSE,
   summary |-> [parts |-> {{"refund", "certain", "negated"}, {}}, mixed |-> FALSE]]

\* A good answer, one without any citation, one in the old form, and what must be
\* refused, one thing at a time.
Answers ==
  {Good, [Good EXCEPT !.asks = FALSE, !.cites = "none", !.fact = "absent"],
   [Good EXCEPT !.old = TRUE], [Good EXCEPT !.old = TRUE, !.cites = "other"],
   [Good EXCEPT !.old = TRUE, !.cites = "none"],
   [Good EXCEPT !.echoes = FALSE], [Good EXCEPT !.found = FALSE], [Good EXCEPT !.selects = "none"],
   [Good EXCEPT !.cites = "other"], [Good EXCEPT !.expert = "no_reasons"],
   [Good EXCEPT !.expert = "unexplained"], [Good EXCEPT !.allowed = FALSE],
   [Good EXCEPT !.fact = "none"], [Good EXCEPT !.fact = "other"], [Good EXCEPT !.personal = TRUE],
   [Good EXCEPT !.summary.mixed = TRUE],
   [Good EXCEPT !.summary.parts = {{"illegality", "certain"}, {"negated"}}],
   [Good EXCEPT !.summary.parts = {{"lawsuit", "winning", "certain"}}]}
=============================================================================
