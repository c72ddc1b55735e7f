------------------------------ MODULE Subjects -------------------------------
(***************************************************************************)
(* Subjects and wildcards (server/sublist.go).  A subject is a sequence of *)
(* one-character strings; "." separates its tokens, "*" stands for one     *)
(* token and ">" for one or more at the end.                               *)
(***************************************************************************)
EXTENDS Integers, Sequences, FiniteSetsExt

SeqExt == INSTANCE SequencesExt

pwc == <<"*">>
fwc == <<">">>

\* The tokens of a subject; empty ones are kept.
Tokens(s) ==
  LET cuts == SeqExt!SetToSortSeq({0, Len(s) + 1} \cup {i \in 1 .. Len(s) : s[i] = "."}, <)
  IN  [i \in 1 .. Len(cuts) - 1 |-> SubSeq(s, cuts[i] + 1, cuts[i + 1] - 1)]

\* The key under which Insert, Remove and matchLevel find a token in a level:
\* the first character decides.
Key(t) == IF t[1] \in {"*", ">"} THEN <<t[1]>> ELSE t

\* How many tokens Insert and Remove follow before they report an invalid
\* subject: up to an empty token or one behind a token that starts with ">".
ValidPrefix(s) ==
  LET toks == Tokens(s)
      bad == {i \in 1 .. Len(toks) :
                toks[i] = <<>> \/ (i > 1 /\ toks[i - 1] # <<>> /\ toks[i - 1][1] = ">")}
  IN  IF bad = {} THEN Len(toks) ELSE Min(bad) - 1

InsertValid(s) == ValidPrefix(s) = Len(Tokens(s))

\* The path of nodes Insert follows or creates.
Path(s) == [i \in 1 .. ValidPrefix(s) |-> Key(Tokens(s)[i])]

\* No empty token, and nothing behind a token ">".
IsValidSubject(s) ==
  LET toks == Tokens(s)
  IN  /\ s # <<>>
      /\ \A i \in 1 .. Len(toks) : toks[i] # <<>> /\ (toks[i] = fwc => i = Len(toks))

IsValidLiteralSubject(s) ==
  \A i \in 1 .. Len(Tokens(s)) : Tokens(s)[i] \notin {<<>>, pwc, fwc}

\* Where matchLiteral goes on in literal after a "*" met at position li.
SkipToken(literal, li) ==
  Min({Len(literal) + 1} \cup {i \in li .. Len(literal) : literal[i] = "."})

\* Mutant: the end of subject is taken for the end of literal.
matchLiteral_Prefix(literal, subject) ==
  LET from[i \in 1 .. Len(subject) + 1, li \in 1 .. Len(literal) + 1] ==
        IF i > Len(subject) THEN TRUE
        ELSE IF li > Len(literal) THEN FALSE
        ELSE IF subject[i] = "*" THEN from[i + 1, SkipToken(literal, li)]
        ELSE IF subject[i] = ">" THEN TRUE
        ELSE subject[i] = literal[li] /\ from[i + 1, li + 1]
  IN  from[1, 1]

\* Does subject, character by character, match literal?  Decides which entries
\* of the cache an Insert or a Remove concerns.
matchLiteral(literal, subject) ==
  LET from[i \in 1 .. Len(subject) + 1, li \in 1 .. Len(literal) + 1] ==
        IF i > Len(subject) THEN li > Len(literal)
        ELSE IF li > Len(literal) THEN FALSE
        ELSE IF subject[i] = "*" THEN from[i + 1, SkipToken(literal, li)]
        ELSE IF subject[i] = ">" THEN TRUE
        ELSE subject[i] = literal[li] /\ from[i + 1, li + 1]
  IN  from[1, 1]

-----------------------------------------------------------------------------
(* The meaning of wildcards, stated without an algorithm. *)

Matches(toks, path) ==
  LET n == Len(path)
      Fits(i) == path[i] \in {pwc, toks[i]}
  IN  IF path[n] = fwc
      THEN Len(toks) >= n /\ \A i \in 1 .. n - 1 : Fits(i)
      ELSE Len(toks) = n /\ \A i \in 1 .. n : Fits(i)

\* Wildcards are whole tokens.
WholeWildcards(s) ==
  \A i \in 1 .. Len(Tokens(s)) : LET t == Tokens(s)[i]
    IN  Len(t) > 1 => \A j \in 1 .. Len(t) : t[j] \notin {"*", ">"}
=============================================================================
