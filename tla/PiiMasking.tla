----------------------------- MODULE PiiMasking -----------------------------
(***************************************************************************)
(* Detection and masking of personal data in a text                         *)
(* (services/pii_masking.py).                                               *)
(*                                                                          *)
(* Kept of the patterns are those that can find parts of the same digits,    *)
(* the e-mail addresses, whose local part takes in the digits before them,   *)
(* and the labels: an address, up to the next label or the end of the line   *)
(* (as are names and dates of birth), and an account number within such a    *)
(* value.  Left out are addresses of the internet protocol, passports,       *)
(* driving licences and queries of a URL.  An e-mail address does not stand   *)
(* directly after another one or a path, and no text begins with a byte      *)
(* order mark.                                                               *)
(***************************************************************************)
EXTENDS Cells, FiniteSetsExt, Functions

\* The types, each with the prefix of its tokens, and which of two types has
\* priority for the same span: by the table of priorities, and where that does not
\* tell, by the order of detection.
Types == {"address", "business", "phone", "national", "email", "account", "card", "postal"}

Prefix == [address |-> "[ADDRESS]", business |-> "[BIZ_NO]", phone |-> "[PHONE]",
           national |-> "[RRN]", email |-> "[EMAIL]", account |-> "[ACCOUNT]",
           card |-> "[CARD_NO]", postal |-> "[POSTAL_CODE]"]

Priority == [address |-> 8, business |-> 7, phone |-> 6, national |-> 5, email |-> 4,
             account |-> 3, card |-> 2, postal |-> 1]

IsToken(cell) == \E t \in Types : cell[1] = Prefix[t]

\* normalize_text: a line ends with one character.
Normalized(text) == Pick(text, {i \in DOMAIN text : text[i] # Return})

\* A span is a set of neighbouring cells, given by its first and its last.
Overlap(a, b) == a.first <= b.last /\ b.first <= a.last

Value(text, span) == SubSeq(text, span.first, span.last)

Preexisting(text) ==
  {[first |-> i, last |-> i] : i \in {j \in DOMAIN text : IsToken(text[j])}}

-----------------------------------------------------------------------------
(* Numbers.                                                                *)

\* The patterns for numbers; that for mobile phones finds phones as well.
Patterns == (Types \ {"address", "email"}) \cup {"mobile"}

Type(pattern) == IF pattern = "mobile" THEN "phone" ELSE pattern

\* How what a pattern finds is written: how long, and where the dashes are between
\* the digits.
Shapes(pattern) ==
  CASE pattern = "business" -> {[length |-> 12, dashes |-> {4, 7}]}
    [] pattern = "mobile" -> {[length |-> 13, dashes |-> {4, 9}]}
    [] pattern = "phone" -> {[length |-> b + 9, dashes |-> {4, b + 5}] : b \in 3 .. 4}
    [] pattern = "national" -> {[length |-> 14, dashes |-> {7}]}
    [] pattern = "account" ->
         {[length |-> a + b + 6, dashes |-> {a + 1, a + b + 2}] : a \in 3 .. 6, b \in 3 .. 4}
    [] pattern = "card" -> {[length |-> 19, dashes |-> {5, 10, 15}]}
    [] pattern = "postal" -> {[length |-> 5, dashes |-> {}]}

Written(text, i, shape) ==
  /\ i + shape.length - 1 <= Len(text)
  /\ \A k \in 1 .. shape.length :
       text[i + k - 1][1] = IF k \in shape.dashes THEN "dash" ELSE "digit"

\* Cells that end, and that begin, with a word character: a label ends with a colon.
WordKinds == {"word", "digit", "email", "path", "number"}

EndsWord(text, i) == i \in DOMAIN text /\ text[i][1] \in WordKinds

BeginsWord(text, i) == i \in DOMAIN text /\ text[i][1] \in WordKinds \cup {"address:", "account:"}

\* \b at both ends of the cells from i to j.
Bounded(text, i, j) == ~EndsWord(text, i - 1) /\ ~BeginsWord(text, j + 1)

\* The three digits it starts with.
IsMobile(text, i) == <<text[i][2], text[i + 1][2], text[i + 2][2]>> = <<0, 1, 0>>

IsAreaCode(text, i) ==
  /\ text[i][2] = 0
  /\ \/ text[i + 1][2] = 1 /\ text[i + 2][2] \in {0, 1, 6, 7, 8, 9}
     \/ text[i + 1][2] \in 2 .. 9

\* Mobile phones are found inside other numbers, too.
Accepted(text, pattern, i, j) ==
  CASE pattern = "mobile" -> IsMobile(text, i)
    [] pattern = "phone" -> Bounded(text, i, j) /\ IsAreaCode(text, i)
    [] OTHER -> Bounded(text, i, j)

Matches(text, pattern) ==
  UNION {{[first |-> i, last |-> i + s.length - 1, type |-> Type(pattern)] :
            i \in {j \in DOMAIN text : Written(text, j, s) /\ Accepted(text, pattern, j, j + s.length - 1)}} :
         s \in Shapes(pattern)}

\* re.finditer: from left to right, each match behind the one before.
Found(matches, length) ==
  LET resume[i \in 0 .. length] ==  \* where the search is once i is behind it
        IF i = 0 THEN 1
        ELSE LET here == {m \in matches : m.first = i}
                 before == resume[i - 1] IN
             IF here # {} /\ before <= i THEN (CHOOSE m \in here : TRUE).last + 1 ELSE before IN
  {m \in matches : resume[m.first - 1] <= m.first}

-----------------------------------------------------------------------------
(* Candidates, and which of them are kept.                                 *)

NumberCandidates(text) ==
  UNION {Found(Matches(text, p), Len(text)) : p \in Patterns}

\* With the digits and dashes before it.
EmailCandidates(text) ==
  {[first |-> Min({k \in 1 .. i : \A j \in k .. i - 1 : text[j][1] \in {"digit", "dash"}}),
    last |-> i, type |-> "email"] : i \in {j \in DOMAIN text : text[j][1] = "email"}}

\* The cells, without blanks, after the label at i: up to the next label or the
\* end of the line.
Labelled(text, i) ==
  {k \in i + 1 .. Len(text) :
     /\ text[k][1] # "blank"
     /\ \A j \in i + 1 .. k : text[j][1] \notin {"address:", "account:", "end"}}

Labels(text, kind) == {i \in DOMAIN text : text[i][1] = kind /\ Labelled(text, i) # {}}

\* The value of a label from its first to its last cell, but not when that is
\* just a token.
AddressCandidates(text) ==
  {c \in {[first |-> Min(Labelled(text, i)), last |-> Max(Labelled(text, i)), type |-> "address"] :
            i \in Labels(text, "address:")} : ~(c.first = c.last /\ IsToken(text[c.first]))}

\* The first account number in the value of a label: what is around the value does
\* not count.
AccountCandidates(text) ==
  UNION {LET first == Min(Labelled(text, i))
             matches == Matches(SubSeq(text, first, Max(Labelled(text, i))), "account") IN
         {[m EXCEPT !.first = @ + first - 1, !.last = @ + first - 1] :
            m \in {n \in matches : \A o \in matches : n.first <= o.first}} :
         i \in Labels(text, "account:")}

\* Where a starts first, is longer, or has priority.
Precedes(a, b) ==
  \/ a.first < b.first
  \/ a.first = b.first /\ a.last > b.last
  \/ a.first = b.first /\ a.last = b.last /\ Priority[a.type] > Priority[b.type]

AllCandidates(text) ==
  NumberCandidates(text) \cup EmailCandidates(text) \cup AddressCandidates(text) \cup AccountCandidates(text)

Protected(text, c) == \E token \in Preexisting(text) : Overlap(c, token)

\* A wrong version: tokens of the text are not protected.
SlipResolve(text) ==
  LET candidates == AllCandidates(text) IN
  CHOOSE S \in SUBSET candidates : \A c \in candidates :
    c \in S <=> ~\E s \in S : Precedes(s, c) /\ Overlap(s, c)

\* Candidates in that order, without those that overlap a token or one that is
\* already selected: what such a one has beyond the other is not masked.
Resolve(text) ==
  LET candidates == AllCandidates(text) IN
  CHOOSE S \in SUBSET candidates : \A c \in candidates :
    c \in S <=> ~Protected(text, c) /\ ~\E s \in S : Precedes(s, c) /\ Overlap(s, c)

-----------------------------------------------------------------------------
(* Tokens.                                                                 *)

Highest(text, type) ==
  Max({0} \cup {text[i][2] : i \in {j \in DOMAIN text : text[j][1] = Prefix[type]}})

\* Where the value of entity e appears first.
FirstOf(text, entities, e) ==
  Min({d.first : d \in {x \in entities : x.type = e.type /\ Value(text, x) = Value(text, e)}})

\* The values of a type, by where they appear first.
ValuesOf(text, entities, type) ==
  {FirstOf(text, entities, d) : d \in {x \in entities : x.type = type}}

\* A wrong version: the number of a type is not increased.
SlipNumber(text, entities, e) == Highest(text, e.type) + 1

\* The number of entity e: values of its type are numbered as they first appear,
\* after the highest number that the text already uses.
Number(text, entities, e) ==
  Highest(text, e.type) + Rank(ValuesOf(text, entities, e.type), FirstOf(text, entities, e))

Entity(text, entities, e) ==
  [first |-> e.first, last |-> e.last, type |-> e.type,
   token |-> <<Prefix[e.type], Number(text, entities, e)>>]

DetectEntities(text) == LET resolved == Resolve(text) IN {Entity(text, resolved, e) : e \in resolved}

\* The text with each entity replaced by its token.
MaskText(text, entities) ==
  LET kept == {i \in DOMAIN text : ~\E e \in entities : e.first < i /\ i <= e.last} IN
  Pick([i \in DOMAIN text |->
          IF \E e \in entities : e.first = i THEN (CHOOSE e \in entities : e.first = i).token
                                             ELSE text[i]], kept)

\* token_collision_avoided: no new token has a number the text uses, and every
\* token of the text is still there.
CollisionAvoided(text, entities) ==
  LET masked == MaskText(text, entities) IN
  /\ \A e \in entities : e.token[2] > Highest(text, e.type)
  /\ \A token \in Preexisting(text) : text[token.first] \in Range(masked)

-----------------------------------------------------------------------------

\* What masking guarantees of a text.  Whatever a pattern finds in it overlaps a
\* token the text already had, or begins inside what is replaced: only the end of
\* a value can stay, where it overlaps another one.  What is replaced does not
\* overlap; two places have the same token exactly when they had the same value;
\* and no such token was in the text before.
SoundMasking(text) ==
  LET entities == DetectEntities(text) IN
  /\ \A c \in AllCandidates(text) :
       Protected(text, c) \/ \E e \in entities : e.first <= c.first /\ c.first <= e.last
  /\ \A d, e \in entities :
       /\ d # e => ~Overlap(d, e)
       /\ d.token = e.token <=> d.type = e.type /\ Value(text, d) = Value(text, e)
  /\ \A e \in entities : e.token \notin Range(text)
=============================================================================
