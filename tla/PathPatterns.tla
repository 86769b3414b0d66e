---------------------------- MODULE PathPatterns ----------------------------
(***************************************************************************)
(* When do two path patterns of a plan (owns_paths, owned_paths,           *)
(* provides_contracts) concern the same files?  pathPatternsOverlap in     *)
(* internal/plan/plan.go compares text, so a pattern here is the sequence  *)
(* of its symbols: names, "/" and "*".  The globs "?" and "[" behave as    *)
(* "*" does: they end the literal prefix.  Patterns are in the form        *)
(* normalizePathPattern leaves them in, and never empty.                   *)
(***************************************************************************)
EXTENDS Sequences, SequencesExt

\* isUniversalPathPattern, hasPathGlob
Universal == {<<"*">>, <<"*", "*">>, <<"*", "*", "/", "*">>}
HasGlob(p) == "*" \in ToSet(p)

\* literalPathPrefix: what comes before the first glob.
LiteralPrefix(p) ==
  IF HasGlob(p) THEN SubSeq(p, 1, SelectInSeq(p, LAMBDA x : x = "*") - 1) ELSE p

\* pathContainsOrEquals
PathContains(parent, child) ==
  parent = child \/ IsPrefix(parent \o <<"/">>, child)

\* A directory is compared in one direction only.
BugPatternsOverlap(l, r) ==
  IF l = r \/ l \in Universal \/ r \in Universal THEN TRUE
  ELSE IF ~HasGlob(l) /\ ~HasGlob(r) THEN PathContains(l, r)
  ELSE \/ LiteralPrefix(l) = <<>> \/ LiteralPrefix(r) = <<>>
       \/ IsPrefix(LiteralPrefix(l), LiteralPrefix(r))
       \/ IsPrefix(LiteralPrefix(r), LiteralPrefix(l))

\* pathPatternsOverlap
PatternsOverlap(l, r) ==
  IF l = r \/ l \in Universal \/ r \in Universal THEN TRUE
  ELSE IF ~HasGlob(l) /\ ~HasGlob(r) THEN PathContains(l, r) \/ PathContains(r, l)
  ELSE \/ LiteralPrefix(l) = <<>> \/ LiteralPrefix(r) = <<>>
       \/ IsPrefix(LiteralPrefix(l), LiteralPrefix(r))
       \/ IsPrefix(LiteralPrefix(r), LiteralPrefix(l))

\* firstOverlappingPattern: some pattern of one list overlaps one of the other.
Overlap(left, right) == \E l \in left, r \in right : PatternsOverlap(l, r)
=============================================================================
