------------------------------ MODULE Releases ------------------------------
(***************************************************************************)
(* The release table behind /configure (src/configuration/operations.rs,   *)
(* migrations 003 and 004): creating, editing and deleting releases, what  *)
(* an update check delivers to a device, and a client that reads the list  *)
(* page by page while administrators write to it.                          *)
(***************************************************************************)
EXTENDS Naturals, FiniteSets

CONSTANTS Ids,       \* release ids
          Urls, Prefixes, Versions, Abis,
          Payloads,  \* the bodies administrators send: see Payload
          Null,      \* a field left out, a NULL column
          Blank,     \* a field sent as white space
          PageSize,  \* page_size of the client that pages through the list
          MaxClock,  \* bound on the clock
          Admin      \* the view without a company_url parameter

Given(S) == S \cup {Null, Blank}
Payload == [url : Given(Urls), prefix : Given(Prefixes), version : Versions, abi : Given(Abis)]

\* A row of releases; asked is history, the body it was last written from.
Row == [url : Urls \cup {Null}, prefix : Prefixes \cup {Null},
        version : Versions, abi : Abis \cup {Null}, created : 1..MaxClock, asked : Payloads]

\* The devices: each reports its company and its own ABI.
Devices == [url : Urls, prefix : Prefixes, abi : Abis]

ASSUME PayloadsAssumption == Payloads \subseteq Payload
ASSUME PageAssumption == PageSize \in Nat \ {0} /\ MaxClock \in Nat \ {0}
ASSUME MarkersAssumption == {Null, Blank} \cap (Urls \cup Prefixes \cup Abis) = {} /\ Null # Blank

VARIABLES table,   \* table[id]: the row, or Null
          clock,   \* NOW()
          scan     \* a client that reads one page after the other

vars == <<table, clock, scan>>

NoScan == [at |-> "none"]
\* at: the query that comes next, "done" after the last page.  owed, history:
\* the releases shown on no page yet that were in the view ever since the scan
\* began.  Nothing is owed any more to a scan that was disturbed (see Watch).
Scan == [at : {"rows", "count", "done"}, view : Devices \cup {Admin}, page : Nat \ {0},
         owed : SUBSET Ids]
Reading == scan.at \in {"rows", "count"}

TypeOK == /\ table \in [Ids -> Row \cup {Null}]
          /\ clock \in 1..MaxClock
          /\ scan \in Scan \cup {NoScan}

Init == /\ table = [id \in Ids |-> Null]
        /\ clock = 1
        /\ scan = NoScan

\* Time passes.
Tick == clock < MaxClock /\ clock' = clock + 1 /\ UNCHANGED <<table, scan>>

-----------------------------------------------------------------------------
(* What a list request sees.                                               *)

\* Mutant: a release without an ABI is for devices without one.
ExactAbi(row, d) == row.abi = d.abi
AbiMatches(row, d) == row.abi = Null \/ row.abi = d.abi

\* "x = NULL" is not true in SQL.
CompanyMatches(row, d) == row.url = Null \/ (row.url = d.url /\ row.prefix = d.prefix)

Delivered(row, d) == CompanyMatches(row, d) /\ AbiMatches(row, d)

InView(t, v) == {id \in Ids : t[id] # Null /\ (v = Admin \/ Delivered(t[id], v))}

\* The sets of the n first releases in ORDER BY created_at DESC: those with the
\* same date come in any order, chosen anew by each query.
Fronts(t, v, n) ==
    {F \in SUBSET InView(t, v) :
        /\ \A id \in F, o \in InView(t, v) \ F : t[id].created >= t[o].created
        /\ Cardinality(F) <= n
        /\ Cardinality(F) = n \/ F = InView(t, v)}

\* LIMIT page_size OFFSET (page - 1) * page_size: what can be on page p.
Pages(t, v, p) ==
    UNION {{F \ E : F \in {G \in Fronts(t, v, p * PageSize) : E \subseteq G}} :
               E \in Fronts(t, v, (p - 1) * PageSize)}

Tied(t, v) == \E a, b \in InView(t, v) : a # b /\ t[a].created = t[b].created

TotalPages(t, v) == (Cardinality(InView(t, v)) + PageSize - 1) \div PageSize

-----------------------------------------------------------------------------
(* Administrators.                                                         *)

\* filter(|s| !s.trim().is_empty())
Clean(x) == IF x = Blank THEN Null ELSE x

RowOf(p, created) == [url |-> Clean(p.url), prefix |-> Clean(p.prefix), version |-> p.version,
                      abi |-> Clean(p.abi), created |-> created, asked |-> p]

\* Mutant: the index is on abi itself, where NULLs differ from each other.
ClashOnPlainAbi(r, s) ==
    /\ r.version = s.version
    /\ r.abi = s.abi /\ r.abi # Null
    /\ \/ r.url = Null /\ s.url = Null
       \/ r.url # Null /\ r.url = s.url /\ r.prefix # Null /\ r.prefix = s.prefix

\* The two unique indexes: a NULL company_prefix clashes with nothing, a NULL
\* abi is normalized by COALESCE.
Clash(r, s) ==
    /\ r.version = s.version
    /\ r.abi = s.abi
    /\ \/ r.url = Null /\ s.url = Null
       \/ r.url # Null /\ r.url = s.url /\ r.prefix # Null /\ r.prefix = s.prefix

Fits(id, row) == \A o \in Ids \ {id} : table[o] # Null => ~Clash(row, table[o])

\* A write that takes a release out of the scan's view (the rows after it move
\* up a page) or gives two in it the same created_at (ORDER BY leaves their
\* order open) disturbs the scan.
Disturbs(t) == \/ ~(InView(table, scan.view) \subseteq InView(t, scan.view))
               \/ Tied(t, scan.view)
Watch(t) == scan' = IF Reading /\ Disturbs(t) THEN [scan EXCEPT !.owed = {}] ELSE scan

Write(t) == table' = t /\ Watch(t)

\* 201; a row that does not fit is a 409 and nothing changes.  NOW() is the
\* time the INSERT began: it may commit later than one that began after it, or
\* have the same time.
CreateRelease(id, p) ==
    /\ table[id] = Null
    /\ \E now \in 1..clock :
          /\ Fits(id, RowOf(p, now))
          /\ Write([table EXCEPT ![id] = RowOf(p, now)])
    /\ UNCHANGED clock

\* Mutant: an edit deletes and re-creates.
EditAsNew(id) == clock
\* created_at is not among the columns update_release sets.
KeptDate(id) == table[id].created

UpdateRelease(id, p) ==
    /\ table[id] # Null
    /\ Fits(id, RowOf(p, KeptDate(id)))
    /\ Write([table EXCEPT ![id] = RowOf(p, KeptDate(id))])
    /\ UNCHANGED clock

DeleteRelease(id) ==
    /\ table[id] # Null
    /\ Write([table EXCEPT ![id] = Null])
    /\ UNCHANGED clock

-----------------------------------------------------------------------------
(* A client pages through the list: each page is two queries, the rows and *)
(* then the count, with other requests in between.  A page whose rows fail  *)
(* is a 500 and is asked for again.                                        *)

StartScan(v) ==
    /\ ~Reading
    /\ scan' = [at |-> "rows", view |-> v, page |-> 1,
                owed |-> IF Tied(table, v) THEN {} ELSE InView(table, v)]
    /\ UNCHANGED <<table, clock>>

FetchRows ==
    /\ scan.at = "rows"
    /\ \E rows \in Pages(table, scan.view, scan.page) :
          scan' = [scan EXCEPT !.at = "count", !.owed = @ \ rows]
    /\ UNCHANGED <<table, clock>>

FetchCount ==
    /\ scan.at = "count"
    /\ scan' = IF scan.page < TotalPages(table, scan.view)
               THEN [scan EXCEPT !.at = "rows", !.page = @ + 1]
               ELSE [scan EXCEPT !.at = "done"]
    /\ UNCHANGED <<table, clock>>

\* unwrap_or(None): the page is a 200 with total_pages 0, and the client stops.
CountFails ==
    /\ scan.at = "count"
    /\ scan' = NoScan
    /\ UNCHANGED <<table, clock>>

Next == \/ \E id \in Ids : \/ \E p \in Payloads : CreateRelease(id, p) \/ UpdateRelease(id, p)
                           \/ DeleteRelease(id)
        \/ \E v \in Devices \cup {Admin} : StartScan(v)
        \/ FetchRows \/ FetchCount \/ CountFails \/ Tick

Spec == Init /\ [][Next]_vars

-----------------------------------------------------------------------------
(* Properties.                                                             *)

Audience(row) == {d \in Devices : Delivered(row, d)}
LeftOut(x) == x \in {Null, Blank}
Everyone(p) == {d \in Devices : LeftOut(p.abi) \/ p.abi = d.abi}

\* "When set (together with company_prefix), this release only applies to
\* that one company. Left out/null, the release is global" (45-49): the
\* audience is what the body asked for, through edits, for a body that gives
\* both company fields or neither.
DeliveredAsAsked ==
    \A id \in Ids : table[id] # Null =>
        LET p == table[id].asked
        IN  /\ (LeftOut(p.url) /\ LeftOut(p.prefix)) => Audience(table[id]) = Everyone(p)
            /\ (~LeftOut(p.url) /\ ~LeftOut(p.prefix)) =>
                   Audience(table[id]) = {d \in Everyone(p) : d.url = p.url /\ d.prefix = p.prefix}

\* The unique indexes and the delivery query agree: no two releases of one
\* version are for exactly the same devices, where every company field and
\* the ABI can take two values (migration 004, 9-14).
NoTwins ==
    \A a, b \in Ids :
        (a # b /\ table[a] # Null /\ table[b] # Null /\ table[a].version = table[b].version)
        => Audience(table[a]) = {} \/ Audience(table[a]) # Audience(table[b])

\* Paging by OFFSET while releases are created, late ones included, and edited
\* shows every release that was there all along: the newest come first, and an
\* edit keeps its created_at "ordering" (252-258).  Not promised to a scan that
\* Disturbs tells of, nor to one that a failed count (CountFails) cuts short.
ScanComplete == scan.at = "done" => scan.owed = {}
=============================================================================
