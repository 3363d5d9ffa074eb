------------------------------- MODULE Cells -------------------------------
(***************************************************************************)
(* Texts as the splitter and the masking see them: sequences of cells       *)
(* <<kind, n>>.  What the patterns count, digits, dashes and blanks, is a    *)
(* cell of its own; words, e-mail addresses, labels, the markers at the head *)
(* of a line and mask tokens are cells as a whole.                           *)
(***************************************************************************)
EXTENDS Integers, Sequences, FiniteSets

\* <<"digit", 7>> is the digit 7, <<"[EMAIL]", 2>> the token [EMAIL_2]; a piece is
\* what a cut leaves of a token.
Kinds == {"word", "blank", "digit", "dash", "email", "path", "number",
          "address:", "account:", "return", "end", "piece",
          "article", "titled", "numbered", "preamble",
          "[ADDRESS]", "[BIZ_NO]", "[PHONE]", "[RRN]", "[EMAIL]", "[ACCOUNT]",
          "[CARD_NO]", "[POSTAL_CODE]"}

Cell == Kinds \X Nat  \* a kind, and which one of it

LineEnd == <<"end", 0>>

Return == <<"return", 0>>  \* the carriage return before a line end

Blanks(n) == [i \in 1 .. n |-> <<"blank", 0>>]

\* Texts as the lines of one text.
JoinLines(texts) ==
  LET Upto[n \in 0 .. Len(texts)] ==
        IF n = 0 THEN <<>> ELSE IF n = 1 THEN texts[1]
        ELSE Upto[n - 1] \o <<LineEnd>> \o texts[n] IN
  Upto[Len(texts)]

-----------------------------------------------------------------------------
(* Numbers in order, and what stands at them.                              *)

\* The place of n among the numbers in S.
Rank(S, n) == Cardinality({m \in S : m <= n})

Nth(S, k) == CHOOSE n \in S : Rank(S, n) = k

\* The members of seq at the places in S.
Pick(seq, S) == [k \in 1 .. Cardinality(S) |-> seq[Nth(S, k)]]
=============================================================================
