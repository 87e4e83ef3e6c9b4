---------------------------- MODULE MCApkLibrary ----------------------------
(* Small instances of ApkLibrary for TLC.                                  *)
EXTENDS ApkLibrary, TLC

CONSTANTS id1, id2, h1, h2, h3, good, better, junk

OneId == {id1}
TwoIds == {id1, id2}
TwoHandlers == {h1, h2}
ThreeHandlers == {h1, h2, h3}
TwoApks == {good, better}
AllContents == {good, better, junk}
OneField == {"version"}
AllFailures == {"crash", "hangup", "io"}
HangupsOnly == {"hangup"}
NoFailures == {}

Symmetric == Permutations(ThreeHandlers) \cup Permutations(TwoApks)
SymmetricIds == Permutations(TwoIds) \cup Permutations(TwoHandlers) \cup Permutations(TwoApks)
=============================================================================
