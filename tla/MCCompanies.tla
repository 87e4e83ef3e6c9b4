----------------------------- MODULE MCCompanies -----------------------------
(* Small instances of Companies for TLC.                                   *)
EXTENDS Companies, TLC

CONSTANTS s1, s2, s3, p1, p2, p3

ThreeSites == {s1, s2, s3}
ThreePairs == {p1, p2, p3}

\* The empty text; one that two names and, as the site's url, one pair contain.
TwoSearches == {Names \cup Pairs \cup {Blank}, {1, 3, p1}}

SiteSymmetry == Permutations(Ids) \cup Permutations({p2, p3})
=============================================================================
