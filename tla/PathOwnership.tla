--------------------------- MODULE PathOwnership ----------------------------
(***************************************************************************)
(* The comparison of PathPatterns against the files the patterns stand     *)
(* for: a literal path owns itself and everything below, "*" stands for    *)
(* any name, "**" for any path.                                            *)
(***************************************************************************)
EXTENDS PathPatterns, Naturals

CONSTANTS
  Names,       \* the symbols names are made of
  MaxPattern,  \* bound: the longest pattern
  MaxPath      \* bound: the longest path

ASSUME PathOwnershipAssumption ==
  MaxPattern \in Nat /\ MaxPath \in Nat /\ MaxPattern <= MaxPath

\* No empty segment, as after filepath.Clean.
Clean(p) ==
  /\ p # <<>> /\ Head(p) # "/" /\ Last(p) # "/"
  /\ \A i \in 1..Len(p) - 1 : ~(p[i] = "/" /\ p[i + 1] = "/")

Paths == {p \in SeqOf(Names \cup {"/"}, MaxPath) : Clean(p)}
Patterns == {p \in SeqOf(Names \cup {"/", "*"}, MaxPattern) : Clean(p)}

DoubleStar(p, i) == i < Len(p) /\ p[i] = "*" /\ p[i + 1] = "*"

\* The positions of path from where it matches the pattern from i on, if rest
\* has those for what follows in the pattern.
MatchFrom(pattern, path, rest, i) ==
  LET End == Len(path) + 1
      \* "**/" may also stand for nothing.
      after == IF DoubleStar(pattern, i)
               THEN rest[i + 2] \cup
                      IF i + 2 <= Len(pattern) /\ pattern[i + 2] = "/" THEN rest[i + 3] ELSE {}
               ELSE rest[i + 1]
  IN CASE i > Len(pattern) -> {End}
       [] DoubleStar(pattern, i) -> {j \in 1..End : \E k \in after : j <= k}
       [] i <= Len(pattern) /\ pattern[i] = "*" /\ ~DoubleStar(pattern, i) ->
            {j \in 1..End : \E k \in after : j <= k /\ \A n \in j..k - 1 : path[n] # "/"}
       [] OTHER -> {j \in 1..Len(path) : path[j] = pattern[i] /\ j + 1 \in after}

Matches(pattern, path) ==
  LET match[i \in 1..Len(pattern) + 1] == MatchFrom(pattern, path, match, i)
  IN 1 \in match[1]

\* The paths that match, and everything below them.
Owned == [p \in Patterns |->
  {x \in Paths : \E n \in 1..Len(x) :
     (n = Len(x) \/ x[n + 1] = "/") /\ Matches(p, SubSeq(x, 1, n))}]

VARIABLES left, right   \* the patterns compared; <<>> before they are chosen

NothingCompared == left = <<>> /\ right = <<>>
ChooseLeft == left = <<>> /\ left' \in Patterns /\ UNCHANGED right
Compare == left # <<>> /\ right = <<>> /\ right' \in Patterns /\ UNCHANGED left

\* Two patterns that own a file in common overlap for the batch analysis, so
\* two tasks that may write the same file are never batched.  Without globs the
\* analysis is exact: siblings like "a" and "ab" may be batched.
OverlapMeetsOwnership ==
  right # <<>> =>
    LET common == Owned[left] \cap Owned[right] # {}
        overlap == PatternsOverlap(left, right)
    IN /\ common => overlap
       /\ ~HasGlob(left) /\ ~HasGlob(right) /\ overlap => common
=============================================================================
