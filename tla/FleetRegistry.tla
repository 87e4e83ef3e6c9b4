----------------------------- MODULE FleetRegistry -----------------------------
(***************************************************************************)
(* What GET /telemetry/devices promises (pings.rs, 60-62): one card per    *)
(* company and device, brought up to date ping by ping, each ping once.    *)
(* "Latest activity and latest valid GPS fix have independent timestamps", *)
(* and a ping that arrives late is merged in where it belongs.             *)
(***************************************************************************)
EXTENDS Naturals

CONSTANTS Pings,    \* records [at, id, body], body a record with the fields below
          Keys,     \* pairs of a company and a device
          Places,   \* positions on the globe
          NoCard,   \* nothing heard of the device
          NoFix     \* no valid fix heard of

VARIABLES heard,    \* the pings reported
          cards     \* the inventory

KeyOf(p) == <<p.body.company, p.body.device>>
Located(p) == p.body.fix.place \in Places

Init == /\ heard = {}
        /\ cards = [k \in Keys |-> NoCard]

\* By pinged_at, then by id.
Later(p, q) == p.at > q.at \/ (p.at = q.at /\ p.id > q.id)

FirstCard(p) ==
    [pings |-> 1, first |-> p.at, users |-> {p.body.user}, last |-> p,
     fix |-> IF Located(p) THEN p ELSE NoFix]

Merge(card, p) ==
    [pings |-> card.pings + 1,
     first |-> IF p.at < card.first THEN p.at ELSE card.first,
     users |-> card.users \cup {p.body.user},
     last  |-> IF Later(p, card.last) THEN p ELSE card.last,
     fix   |-> IF Located(p) /\ (card.fix = NoFix \/ Later(p, card.fix)) THEN p ELSE card.fix]

Report(p) ==
    /\ p \notin heard
    /\ heard' = heard \cup {p}
    /\ cards' = [cards EXCEPT ![KeyOf(p)] = IF @ = NoCard THEN FirstCard(p) ELSE Merge(@, p)]

Next == \E p \in Pings : Report(p)

Spec == Init /\ [][Next]_<<heard, cards>>
=============================================================================
