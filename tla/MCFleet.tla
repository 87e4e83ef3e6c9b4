------------------------------- MODULE MCFleet -------------------------------
(* A small instance of Fleet for TLC: two companies with one prefix, and a *)
(* device, d1, that reports for both.                                      *)
EXTENDS Fleet, TLC

CONSTANTS h1, h2, a, b, zero, d1, d2, u1, u2, v1, v2, here, there, off

SharedPrefix == {<<a, zero>>, <<b, zero>>}

Full == {"lat", "lon", "accuracy"}
FewPayloads ==
    LET Ping(c, d, u, v, g, p) ==
          [company |-> <<c, zero>>, device |-> d, user |-> u, version |-> v, gps |-> g, place |-> p]
    IN {Ping(a, d1, u1, v1, Full, here),
        Ping(a, d1, u2, v2, {"lat", "lon"}, off),
        Ping(b, d1, u1, v2, {"lat"}, there),
        Ping(a, d2, u1, v1, {"lat", "lon"}, there)}

TwoHandlers == {h1, h2}
HandlerSymmetry == Permutations(Handlers)

StoredBodies == {BodyOf(p) : p \in Sent}
=============================================================================
