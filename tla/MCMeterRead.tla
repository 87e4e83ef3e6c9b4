---------------------------- MODULE MCMeterRead ----------------------------
(* Small instances of MeterRead for TLC.                                   *)
EXTENDS MeterRead, TLC

CONSTANTS kirima, wakulima, meru1, r1, r2

\* Two companies of the seeded directory share the prefix 0_, one has 1_.
SharedPrefix == {kirima, wakulima}
TwoPrefixes == {kirima, meru1}
Prefixes == (kirima :> "0_") @@ (wakulima :> "0_") @@ (meru1 :> "1_")

OneReader == {r1}
TwoReaders == {r1, r2}
FewOutcomes == {"network", "429", "4xx", "schema", "reading"}
AllOutcomes == {"network", "5xx", "429", "4xx", "bad_json", "schema",
                "declined", "no_text", "reading"}
AnyFailures == {"db", "hangup"}
=============================================================================
