----------------------------- MODULE MCReleases -----------------------------
(* Small instances of Releases for TLC.                                    *)
EXTENDS Releases, TLC

CONSTANTS i1, i2, i3, kirima, main, depot, arm64, arm7

ThreeIds == {i1, i2, i3}
OneUrl == {kirima}
TwoPrefixes == {main, depot}
OneVersion == {"3.2.31"}
TwoAbis == {arm64, arm7}

\* The bodies that give both company fields or neither.  What they leave out
\* is missing, or blank where nothing is given: an empty form.
WholeScopes == {p \in Payload : /\ LeftOut(p.url) <=> LeftOut(p.prefix)
                                /\ \/ Blank \notin {p.url, p.prefix, p.abi}
                                   \/ {p.url, p.prefix, p.abi} = {Blank}}
Alike == Permutations(Ids) \cup Permutations(Prefixes) \cup Permutations(Abis)
=============================================================================
