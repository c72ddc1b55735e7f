----------------------------- MODULE MCSublist -------------------------------
(* Instances of Sublist for TLC, and the matchers of Subjects against each      *)
(* other on every subject and literal of bounded length.                        *)
EXTENDS Sublist

CONSTANTS s1, s2, s3, s4, grp, p1,
          MaxSubject, MaxLiteral  \* bounds on the numbers of characters

\* "a.b", "a.c", "a.*", "a.>" and "b..a"
lit_ab == <<"a", ".", "b">>
lit_ac == <<"a", ".", "c">>
a_star == <<"a", ".", "*">>
a_full == <<"a", ".", ">">>
b_bad == <<"b", ".", ".", "a">>

Four == {s1, s2, s3, s4}
Literals == {lit_ab, lit_ac}

\* A queue group at one node, a normal and an invalid subscription.
MixedSubject == s1 :> a_star @@ s2 :> a_star @@ s3 :> a_full @@ s4 :> b_bad
MixedQueue == s1 :> grp @@ s2 :> grp @@ s3 :> NoQueue @@ s4 :> NoQueue

\* A queue group at three nodes.
AliasSubject == s1 :> a_full @@ s2 :> a_full @@ s3 :> lit_ab @@ s4 :> lit_ac
AliasQueue == [s \in Four |-> grp]

\* The members of the group at one node are alike.
Symmetry == Permutations({s1, s2})

-----------------------------------------------------------------------------
(* The runs also compare the matchers: a behaviour either starts with a pair   *)
(* of a literal and a subject in probe, and stays there, or with NoProbe, and   *)
(* is one of Sublist.                                                           *)

VARIABLE probe

NoProbe == [literal |-> <<>>, subject |-> <<>>]

AllLiterals == UNION {[1 .. n -> {"a", "b", "."}] : n \in 1 .. MaxLiteral}
AllSubjects == UNION {[1 .. n -> {"a", "*", ">", "."}] : n \in 1 .. MaxSubject}

MCInit == Init /\ probe \in {NoProbe} \cup [literal : AllLiterals, subject : AllSubjects]

MCNext == probe = NoProbe /\ Next /\ UNCHANGED probe

MCSpec == MCInit /\ [][MCNext]_<<vars, probe>>

\* On valid subjects whose wildcards are whole tokens the cache layer
\* (matchLiteral) and the trie (Path) agree on what a subscription matches, and
\* both agree with the meaning of wildcards.
LiteralAgreesWithTrie ==
  LET literal == probe.literal
      sub == probe.subject
  IN  probe # NoProbe /\ IsValidLiteralSubject(literal) /\ IsValidSubject(sub) /\ WholeWildcards(sub) =>
        /\ InsertValid(sub)
        /\ matchLiteral(literal, sub) = Matches(Tokens(literal), Path(sub))

\* What Insert accepts is a valid subject (IsValidSubject), whatever characters
\* its tokens are made of.
InsertedIsValid ==
  probe # NoProbe /\ InsertValid(probe.subject) => IsValidSubject(probe.subject)

\* The checks and matchers of subjects in sublist.go agree with one another.
MatchersAgree == LiteralAgreesWithTrie /\ InsertedIsValid
=============================================================================
