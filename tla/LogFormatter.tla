--------------------------- MODULE LogFormatter ---------------------------
(***************************************************************************)
(* LogFormatter::Init of primo/log/Logger.cpp: the pattern of a formatter  *)
(* is cut into literal text and items such as %m or %d{%H:%M}.  A pattern  *)
(* is a sequence of characters, and positions start at 1.                  *)
(***************************************************************************)
EXTENDS Naturals, SequencesExt

\* S_FormatItems
ItemNames == {"m", "p", "r", "c", "t", "n", "d", "f", "l", "T", "F", "N"}

Letters == ItemNames \cup {"q"}       \* isalpha; "q" stands for the other letters

Text(s)      == [kind |-> "text", of |-> s, fmt |-> <<>>]
Item(s, fmt) == [kind |-> "item", of |-> s, fmt |-> fmt]

RECURSIVE Scan(_, _, _, _)

\* The inner loop, from position n behind a % at i.  open is the position of
\* the brace it has passed (iFmtBegin), or 0.
Scan(p, i, n, s) ==
  IF n > Len(p) THEN [s EXCEPT !.n = n]
  ELSE IF s.open = 0 /\ p[n] \notin Letters \cup {"{", "}"}
       THEN [s EXCEPT !.n = n, !.str = SubSeq(p, i + 1, n - 1)]
  ELSE IF s.open = 0 /\ p[n] = "{"
       THEN Scan(p, i, n + 1, [s EXCEPT !.open = n, !.str = SubSeq(p, i + 1, n - 1)])
  ELSE IF s.open # 0 /\ p[n] = "}"
       THEN [s EXCEPT !.n = n + 1, !.open = 0, !.fmt = SubSeq(p, s.open + 1, n - 1)]
  ELSE Scan(p, i, n + 1, IF n = Len(p) /\ s.str = <<>>
                         THEN [s EXCEPT !.str = SubSeq(p, i + 1, Len(p))] ELSE s)

\* Where the scan of an item ends: its position when the loop is left.
Scanned(p, i) == Scan(p, i, i + 1, [n |-> i + 1, open |-> 0, str |-> <<>>, fmt |-> <<>>])

\* vec.push_back of the literal text, if there is any
Flush(nstr) == IF nstr = <<>> THEN <<>> ELSE <<Text(nstr)>>

\* BUG: goes on behind the character that ended the item.
BugResumed(s) == s.n + 1

\* i = n - 1, then ++i
Resumed(s) == s.n

RECURSIVE Cut(_, _, _)

\* The outer loop, from position i with the literal text nstr so far.  An item
\* whose brace is not closed makes a "<<pattern_error>>" and is read again as text.
Cut(p, i, nstr) ==
  IF i > Len(p) THEN Flush(nstr)
  ELSE IF p[i] # "%" THEN Cut(p, i + 1, Append(nstr, p[i]))
  ELSE IF i < Len(p) /\ p[i + 1] = "%" THEN Cut(p, i + 1, Append(nstr, "%"))
  ELSE LET s == Scanned(p, i) IN
       IF s.open = 0
       THEN Flush(nstr) \o <<Item(s.str, s.fmt)>> \o Cut(p, Resumed(s), <<>>)
       ELSE <<[kind |-> "error", of |-> <<>>, fmt |-> <<>>]>> \o Cut(p, i + 1, nstr)

\* mItems, before an unknown item is replaced by its error text
Parse(p) == Cut(p, 1, <<>>)

\* bError
IsError(its) == \E i \in DOMAIN its :
                  \/ its[i].kind = "error"
                  \/ its[i].kind = "item" /\ its[i].of \notin {<<c>> : c \in ItemNames}

----------------------------------------------------------------------------
(* What a pattern means, as a grammar *)

\* The texts an item is written as: empty braces may be left out.
Spellings(it) ==
  LET braces == <<"{">> \o it.fmt \o <<"}">> IN
  IF it.kind = "text" THEN {it.of}
  ELSE {<<"%">> \o it.of \o b : b \in IF it.fmt = <<>> THEN {<<>>, braces} ELSE {braces}}

RECURSIVE SpelledBy(_, _)

\* Is p the items' texts one behind the other?
SpelledBy(p, its) ==
  IF its = <<>> THEN p = <<>>
  ELSE \E s \in Spellings(Head(its)) :
         IsPrefix(s, p) /\ SpelledBy(SubSeq(p, Len(s) + 1, Len(p)), Tail(its))

\* The pieces a pattern may begin with: text up to the next %, or a known item
\* which its braces or the character behind it end.
FirstPieces(p) ==
  LET pre(n)  == SubSeq(p, 1, n)
      ends(n) == n = Len(p) \/ p[n + 1] \notin Letters \cup {"{", "}"}
  IN  {[len |-> n, piece |-> Text(pre(n))] : n \in
         {n \in 1..Len(p) : /\ "%" \notin Range(pre(n))
                            /\ n = Len(p) \/ p[n + 1] = "%"}}
      \cup
      {[len |-> n, piece |-> Item(<<p[2]>>, SubSeq(p, 4, n - 1))] : n \in
         {n \in 2..Len(p) : /\ p[1] = "%" /\ p[2] \in ItemNames
                            /\ \/ n = 2 /\ ends(2)
                               \/ n > 3 /\ p[3] = "{" /\ p[n] = "}"
                                  /\ "}" \notin Range(SubSeq(p, 3, n - 1))}}

RECURSIVE Readings(_)

\* The ways to read all of p as such pieces.
Readings(p) ==
  IF p = <<>> THEN {<<>>}
  ELSE UNION {{<<f.piece>> \o r : r \in Readings(SubSeq(p, f.len + 1, Len(p)))} :
                f \in FirstPieces(p)}
=============================================================================
