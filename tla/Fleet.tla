--------------------------------- MODULE Fleet ---------------------------------
(***************************************************************************)
(* Telemetry (src/telemetry/pings.rs): devices report, and the management  *)
(* dashboard reads the device inventory (device_inventory.sql), one query, *)
(* and the summary, three queries with reports coming in between.          *)
(***************************************************************************)
EXTENDS LogTable, Functions

CONSTANTS Sent,       \* payloads of POST /telemetry
          Companies,  \* pairs <<company_url, company_prefix>>
          Devices, Users, Versions,
          Places,     \* positions with lat in -90..90 and lon in -180..180
          OffGlobe,   \* other positions
          NoPlace,    \* no position stored
          NoCard, NoFix,
          Hour, Day, Week,   \* in ticks of the clock
          NoSummary

ASSUME WindowsAssumption == Hour \in Nat /\ Day \in Nat /\ Week \in Nat /\ Hour <= Day /\ Day <= Week
ASSUME PlacesAssumption == NoPlace \notin Places \cup OffGlobe /\ Places \cap OffGlobe = {}

VARIABLE summary   \* GET /telemetry/summary under way, or its answer

vars == <<clock, rows, running, lastId, summary>>

\* What a device sends: gps names the coordinates it gave.
Payload == [company : Companies, device : Devices, user : Users, version : Versions,
            gps : SUBSET {"lat", "lon", "accuracy"}, place : Places \cup OffGlobe]
ASSUME SentAssumption == Sent \subseteq Payload

-----------------------------------------------------------------------------
(* post_telemetry.                                                         *)

\* lat and lon go together.  The accuracy may be missing, although the comments
\* at 33-34 and 175-177 call such a set no fix.
FixOf(p) == IF {"lat", "lon"} \subseteq p.gps
            THEN [place |-> p.place, accurate |-> "accuracy" \in p.gps]
            ELSE [place |-> NoPlace, accurate |-> FALSE]

BodyOf(p) == [company |-> p.company, device |-> p.device, user |-> p.user,
              version |-> p.version, fix |-> FixOf(p)]
ASSUME BodiesAssumption == \A p \in Sent : BodyOf(p) \in Bodies

-----------------------------------------------------------------------------
(* device_inventory.sql.                                                   *)

Keys == Companies \X Devices
RowsOf(R, key) == {r \in R : <<r.body.company, r.body.device>> = key}

\* Mutant: by id alone, as if ids were drawn in the order of pinged_at.
ById(p, q) == p.id >= q.id
\* ORDER BY pinged_at DESC, id DESC
AtOrAfter(p, q) == p.at > q.at \/ (p.at = q.at /\ p.id >= q.id)
\* DISTINCT ON: the first row in that order.
Latest(S) == CHOOSE p \in S : \A q \in S : AtOrAfter(p, q)
Earliest(S) == CHOOSE t \in {p.at : p \in S} : \A q \in S : t <= q.at

\* Mutant: the fix of the latest ping, if it is valid.
GpsOfLatest(S) == LET p == Latest(S) IN IF p.body.fix.place \in Places THEN p ELSE NoFix
\* The gps subquery and its LEFT JOIN.
Gps(S) == LET F == {p \in S : p.body.fix.place \in Places} IN
          IF F = {} THEN NoFix ELSE Latest(F)

Card(S) == [pings |-> Cardinality(S), first |-> Earliest(S), users |-> {p.body.user : p \in S},
            last |-> Latest(S), fix |-> Gps(S)]
ASSUME NoCardAssumption ==
    /\ NoFix \notin Row
    /\ NoCard \notin [pings : Nat, first : Nat, users : SUBSET Users, last : Row, fix : Row \cup {NoFix}]
Inventory(R) == [k \in Keys |-> LET S == RowsOf(R, k) IN IF S = {} THEN NoCard ELSE Card(S)]

-----------------------------------------------------------------------------
(* get_telemetry_summary.                                                  *)

DevicesIn(R) == {p.body.device : p \in R}
CompaniesIn(R) == {p.body.company : p \in R}
VersionsIn(R) == {p.body.version : p \in R}
\* Mutant: the prefix is taken for the company.
OfPrefix(R, c) == {p \in R : p.body.company[2] = c[2]}
OfCompany(R, c) == {p \in R : p.body.company = c}
\* pinged_at > NOW() - INTERVAL
Within(R, w) == {p \in R : p.at + w > clock}

\* Mutant: a device with any old ping.
EverQuiet(R) == {d \in DevicesIn(R) : \E p \in R : p.body.device = d /\ p.at + Week < clock}
\* GROUP BY device_id HAVING MAX(pinged_at) < NOW() - INTERVAL '7 days'
Stale(R) == {d \in DevicesIn(R) : \A p \in R : p.body.device = d => p.at + Week < clock}

Totals == [pings     |-> Cardinality(rows),
           devices   |-> Cardinality(DevicesIn(rows)),
           companies |-> Cardinality(CompaniesIn(rows)),
           active24h |-> Cardinality(DevicesIn(Within(rows, Day))),
           active1h  |-> Cardinality(DevicesIn(Within(rows, Hour))),
           stale7d   |-> Cardinality(Stale(rows))]

\* Mutant: only the companies heard from in the last day.
RecentCompanies(R) ==
    [c \in CompaniesIn(Within(R, Day)) |-> [latest  |-> Latest(OfCompany(R, c)).body.version,
                                            devices |-> Cardinality(DevicesIn(OfCompany(R, c)))]]
\* counts joined to latest
CompanyBreakdown(R) ==
    [c \in CompaniesIn(R) |-> [latest  |-> Latest(OfCompany(R, c)).body.version,
                               devices |-> Cardinality(DevicesIn(OfCompany(R, c)))]]
VersionBreakdown(R) ==
    [v \in VersionsIn(R) |-> Cardinality(DevicesIn({p \in R : p.body.version = v}))]

ReadTotals ==
    /\ summary = NoSummary
    /\ summary' = [at |-> "companies", totals |-> Totals, missed |-> 0]
    /\ UNCHANGED tableVars

ReadCompanies ==
    /\ summary # NoSummary /\ summary.at = "companies"
    /\ summary' = [at |-> "versions", totals |-> summary.totals, missed |-> summary.missed,
                   companies |-> CompanyBreakdown(rows)]
    /\ UNCHANGED tableVars

ReadVersions ==
    /\ summary # NoSummary /\ summary.at = "versions"
    /\ summary' = [at |-> "answered", totals |-> summary.totals, missed |-> summary.missed,
                   companies |-> summary.companies, versions |-> VersionBreakdown(rows)]
    /\ UNCHANGED tableVars

\* The answer is sent; or one of the queries failed (500), or the client left.
EndSummary ==
    /\ summary # NoSummary
    /\ summary' = NoSummary
    /\ UNCHANGED tableVars

-----------------------------------------------------------------------------

Init == TableInit /\ summary = NoSummary

\* missed: the rows that committed since the totals were read.  An answer is
\* gone before the table moves on.
Table == /\ \/ \E h \in Handlers : \/ \E p \in Sent : Begin(h, BodyOf(p))
                                   \/ DrawId(h) \/ Commit(h) \/ Lose(h)
            \/ Tick
         /\ summary' = IF summary = NoSummary \/ summary.at = "answered" THEN NoSummary
                       ELSE [summary EXCEPT !.missed = @ + Cardinality(rows' \ rows)]

Next == Table \/ ReadTotals \/ ReadCompanies \/ ReadVersions \/ EndSummary

Spec == Init /\ [][Next]_vars

-----------------------------------------------------------------------------
(* Properties.                                                             *)

\* The types; a stored fix may lack its accuracy.
TypeOK ==
    /\ TableTypeOK
    /\ \A p \in rows : p.body \in
          [company : Companies, device : Devices, user : Users, version : Versions,
           fix : [place : Places \cup OffGlobe \cup {NoPlace}, accurate : BOOLEAN]]
    /\ summary # NoSummary => summary.at \in {"companies", "versions", "answered"}

Registry == INSTANCE FleetRegistry WITH
    Pings <- [at : 0..MaxTime, id : 1..MaxRows, body : Bodies],
    heard <- rows, cards <- Inventory(rows)
\* The inventory, worked out from the whole table by three subqueries and two
\* joins (device_inventory.sql), is the one kept up to date ping by ping:
\* every committed ping counts once on its own device's card, and one that
\* commits late changes neither the latest activity nor the latest fix.
ImplementsRegistry == Registry!Spec

\* Between two requests of GET /telemetry/devices a card never goes back: no
\* device disappears, a valid fix is neither lost to a later ping without
\* one or off the globe nor replaced by an older one (60-62, test at 745).
CardsAdvance ==
    [][rows' # rows =>
        LET before == Inventory(rows)  after == Inventory(rows') IN
        \A k \in {key \in Keys : before[key] # NoCard} :
            LET c == before[k]  d == after[k] IN
            /\ d # NoCard /\ d.pings >= c.pings /\ d.first <= c.first
            /\ AtOrAfter(d.last, c.last)
            /\ c.fix # NoFix => d.fix # NoFix /\ AtOrAfter(d.fix, c.fix)]_vars

DeviceCounts(companies) == [c \in DOMAIN companies |-> companies[c].devices]

\* The summary's device counts per company add up to the length of the
\* inventory, whichever prefixes and devices companies have in common.
CardsCounted ==
    SumFunction(DeviceCounts(CompanyBreakdown(rows))) =
        Cardinality({k \in Keys : Inventory(rows)[k] # NoCard})

\* No device is counted both as active and as gone quiet (110-114), and the
\* devices counted as either are devices.
FleetHealth ==
    summary # NoSummary =>
        LET t == summary.totals IN
        t.active1h <= t.active24h /\ t.active24h + t.stale7d <= t.devices

\* The three parts of one answer come from three moments, in that order: the
\* later parts hold at least as many companies and devices as the totals
\* counted, the companies exceed them by no more than the reports that came in
\* between, and each company's latest version is one of the versions listed.
SummaryCovers ==
    (summary # NoSummary /\ summary.at = "answered") =>
        LET t == summary.totals  C == summary.companies  V == summary.versions IN
        /\ t.companies <= Cardinality(DOMAIN C)
        /\ Cardinality(DOMAIN C) <= t.companies + summary.missed
        /\ t.devices <= SumFunction(DeviceCounts(C)) /\ t.devices <= SumFunction(V)
        /\ \A c \in DOMAIN C : C[c].latest \in DOMAIN V
=============================================================================
