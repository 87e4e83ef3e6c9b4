-------------------------------- MODULE AuditLog --------------------------------
(***************************************************************************)
(* Reading a LogTable: the page lists GET /telemetry, GET /telemetry/log   *)
(* (pings.rs) and GET /bulk-milk-log (submissions.rs), their CSV exports   *)
(* and the summary strip of the bulk milk log, while rows are inserted.    *)
(* The two tables have the same readers but for the fields they filter by  *)
(* and the order in which a page and its total are queried.                *)
(***************************************************************************)
EXTENDS LogTable, Sequences, Functions

CONSTANTS Pings,       \* bodies of app_pings
          Sent,        \* payloads of POST /bulk-milk-log
          NoRecords,   \* records left out of the payload
          PageSize, ExportCap,
          DayTicks,    \* ticks of a day; the last one falls after 23:59:59
          Filters,     \* filters of the app_pings list
          BulkFilters, \* filters of the bulk milk list
          Open,        \* from or to not given
          NoScan, NoStrip

ASSUME SizesAssumption == /\ PageSize \in Nat \ {0} /\ ExportCap \in Nat \ {0}
                          /\ DayTicks \in Nat \ {0, 1}
\* Litres, in whole numbers and not negative, which the handler does not check.
ASSUME QuantityAssumption == \A p \in Sent : p.records = NoRecords \/ p.records \in Seq(Nat)

VARIABLES table,   \* which of the two tables this is
          scan,    \* an administrator going through the pages of a list
          strip    \* the summary strip of the bulk milk page

vars == <<clock, rows, running, lastId, table, scan, strip>>

-----------------------------------------------------------------------------
(* post_bulk_milk_log.                                                     *)

RecordCount(p) == IF p.records = NoRecords THEN 0 ELSE Len(p.records)
TotalQuantity(p) == IF p.records = NoRecords THEN 0
                    ELSE SumFunction(p.records)

SubmissionOf(p) == [company |-> p.company, status |-> p.status,
                    records |-> RecordCount(p), quantity |-> TotalQuantity(p)]
Inserted == IF table = "app_pings" THEN Pings ELSE {SubmissionOf(p) : p \in Sent}

-----------------------------------------------------------------------------
(* push_ping_filters, push_log_filters.                                    *)

\* from and to are texts: <<"day", d>>, an RFC 3339 time <<"time", t>>, or
\* <<"other">>, blank or unreadable, which like a text left out sets no limit.
IsLimit(text) == text # Open /\ text[1] \in {"day", "time"}
FromTs(text) == IF text[1] = "time" THEN text[2] ELSE text[2] * DayTicks
\* and_hms_opt(23, 59, 59): the last tick of the day comes after it, although
\* 457 calls the limit inclusive, end-of-day.
ToTs(text) == IF text[1] = "time" THEN text[2] ELSE text[2] * DayTicks + DayTicks - 2

Matches(r, f) == /\ \A field \in DOMAIN f.eq : r.body[field] = f.eq[field]
                 /\ IsLimit(f.from) => r.at >= FromTs(f.from)
                 /\ IsLimit(f.to) => r.at <= ToTs(f.to)
Matching(f) == {r \in rows : Matches(r, f)}

-----------------------------------------------------------------------------
(* ORDER BY pinged_at, submitted_at: rows with equal times come in any     *)
(* order, chosen anew by each query.                                       *)

InOrder(sort, A, B) ==
    \A p \in A, q \in B : IF sort = "asc" THEN p.at <= q.at ELSE p.at >= q.at

\* The sets of rows that LIMIT and OFFSET may cut out of R.
Slices(R, sort, offset, limit) ==
    {S \in SUBSET R :
        \E before \in SUBSET (R \ S) :
            LET after == R \ (S \cup before) IN
            /\ InOrder(sort, before, S) /\ InOrder(sort, S, after) /\ InOrder(sort, before, after)
            /\ Cardinality(S) <= limit /\ (after = {} \/ Cardinality(S) = limit)
            /\ Cardinality(before) <= offset
            /\ Cardinality(before) = offset \/ (S = {} /\ after = {})}

PageRows(f, sort, page) == Slices(Matching(f), sort, (page - 1) * PageSize, PageSize)
\* Mutant: the last page is not announced.
OneShort(total) == (total + PageSize - 1) \div PageSize - 1
TotalPages(total) == (total + PageSize - 1) \div PageSize

\* Mutant: the file holds the page on the screen.
FirstPage(f, sort) == PageRows(f, sort, 1)
Export(f, sort) == Slices(Matching(f), sort, 0, ExportCap)

-----------------------------------------------------------------------------
(* The lists.  GET /telemetry fetches the page, then the total; the other  *)
(* two fetch the total, then the page.                                     *)

CountFirst(list) == list # "/telemetry"
FirstQuery(list) == IF CountFirst(list) THEN "count" ELSE "rows"
Requests ==
    IF table = "app_pings"
    THEN {<<"/telemetry", f, "desc">> : f \in {g \in Filters : g.from = Open /\ g.to = Open}}
         \cup {<<"/telemetry/log", f, s>> : f \in Filters, s \in {"asc", "desc"}}
    ELSE {<<"/bulk-milk-log", f, s>> : f \in BulkFilters, s \in {"asc", "desc"}}

\* present: the rows there when the scan began; gap: the matching rows that
\* committed between the total and the page fetched last.
StartScan ==
    /\ scan = NoScan
    /\ \E q \in Requests :
          scan' = [list |-> q[1], filter |-> q[2], sort |-> q[3], at |-> FirstQuery(q[1]),
                   page |-> 1, total |-> 0, seen |-> {}, present |-> Matching(q[2]), gap |-> 0,
                   cut |-> FALSE, file |-> {}]
    /\ UNCHANGED <<tableVars, table, strip>>

\* The client asks for the next page as long as there is one.
Onward(s) == IF s.page < TotalPages(s.total)
             THEN [s EXCEPT !.page = @ + 1, !.at = FirstQuery(s.list)]
             ELSE [s EXCEPT !.at = "read"]

FetchRows ==
    /\ scan # NoScan /\ scan.at = "rows"
    /\ \E S \in PageRows(scan.filter, scan.sort, scan.page) :
          LET s == [scan EXCEPT !.seen = @ \cup S] IN
          scan' = IF CountFirst(scan.list) THEN Onward(s) ELSE [s EXCEPT !.at = "count"]
    /\ UNCHANGED <<tableVars, table, strip>>

FetchCount ==
    /\ scan # NoScan /\ scan.at = "count"
    /\ LET s == [scan EXCEPT !.total = Cardinality(Matching(scan.filter)), !.gap = 0] IN
       scan' = IF CountFirst(scan.list) THEN [s EXCEPT !.at = "rows"] ELSE Onward(s)
    /\ UNCHANGED <<tableVars, table, strip>>

\* GET /telemetry takes a failed COUNT for a total of 0.
CountFails ==
    /\ scan # NoScan /\ scan.at = "count" /\ ~CountFirst(scan.list)
    /\ scan' = [scan EXCEPT !.at = "read", !.total = 0, !.cut = TRUE]
    /\ UNCHANGED <<tableVars, table, strip>>

\* 500: the client asks for the same page again.
PageFails ==
    /\ scan # NoScan /\ scan.at \in {"rows", "count"}
    /\ CountFirst(scan.list) \/ scan.at = "rows"
    /\ scan' = [scan EXCEPT !.at = FirstQuery(scan.list)]
    /\ UNCHANGED <<tableVars, table, strip>>

\* "Export" with the filters of the list on the screen.
ExportCsv ==
    /\ scan # NoScan /\ scan.at = "read" /\ CountFirst(scan.list)
    /\ \E S \in Export(scan.filter, scan.sort) : scan' = [scan EXCEPT !.at = "exported", !.file = S]
    /\ UNCHANGED <<tableVars, table, strip>>

EndScan == /\ scan # NoScan
           /\ scan' = NoScan
           /\ UNCHANGED <<tableVars, table, strip>>

-----------------------------------------------------------------------------
(* get_bulk_milk_log_summary.                                              *)

WithStatus(s) == {r \in rows : r.body.status = s}
\* Mutant: what is not a success counts as partial.
NotSuccess == [success |-> Cardinality(WithStatus("success")),
               partial |-> Cardinality(rows \ WithStatus("success")),
               failure |-> Cardinality(WithStatus("failure")), quantity |-> 0]
StripTotals ==
    [success |-> Cardinality(WithStatus("success")),
     partial |-> Cardinality(WithStatus("partial")),
     failure |-> Cardinality(WithStatus("failure")),
     quantity |-> SumFunction([r \in WithStatus("success") \cup WithStatus("partial") |-> r.body.quantity])]

ReadStrip == /\ table = "bulk_milk" /\ scan = NoScan /\ strip = NoStrip
             /\ strip' = [totals |-> StripTotals, since |-> 0]
             /\ UNCHANGED <<tableVars, table, scan>>

LeaveStrip == /\ strip # NoStrip /\ scan = NoScan
              /\ strip' = NoStrip
              /\ UNCHANGED <<tableVars, table, scan>>

-----------------------------------------------------------------------------

Init == /\ TableInit
        /\ table \in {"app_pings", "bulk_milk"}
        /\ scan = NoScan
        /\ strip = NoStrip

\* No list looks at ids.  A finished reading is forgotten when the table moves on.
Table ==
    /\ \/ \E h \in Handlers : \/ \E body \in Inserted : Begin(h, body)
                              \/ DrawAndCommit(h) \/ Lose(h)
       \/ Tick
    /\ LET new == rows' \ rows IN
       /\ scan' = IF scan = NoScan \/ scan.at = "exported" THEN NoScan
                  ELSE IF scan.at = "rows" THEN [scan EXCEPT !.gap = @ + Cardinality({r \in new : Matches(r, scan.filter)})]
                  ELSE scan
       /\ strip' = IF strip = NoStrip THEN strip ELSE [strip EXCEPT !.since = @ + Cardinality(new)]
    /\ UNCHANGED table

Next == \/ Table
        \/ StartScan \/ FetchRows \/ FetchCount \/ CountFails \/ PageFails \/ ExportCsv \/ EndScan
        \/ ReadStrip \/ LeaveStrip

Spec == Init /\ [][Next]_vars

-----------------------------------------------------------------------------
(* Properties.                                                             *)

Scan == [list : {"/telemetry", "/telemetry/log", "/bulk-milk-log"}, filter : Filters \cup BulkFilters,
         sort : {"asc", "desc"}, at : {"rows", "count", "read", "exported"}, page : Nat \ {0},
         total : Nat, seen : SUBSET rows, present : SUBSET rows, gap : Nat, cut : BOOLEAN,
         file : SUBSET rows]
Submission == [company : {p.company : p \in Sent}, status : {p.status : p \in Sent},
               records : Nat, quantity : Nat]
TypeOK == /\ TableTypeOK
          /\ \A r \in rows : r.body \in IF table = "app_pings" THEN Pings ELSE Submission
          /\ scan = NoScan \/ scan \in Scan

\* No other row of the list has the same time.
Untied(S, f) == {r \in S : \A o \in Matching(f) \ {r} : o.at # r.at}

\* Who reads a list to its last page has seen every row that was there from
\* the start, although rows are inserted between the requests, at the front,
\* at the end or, when they commit late, in between - except, where the total
\* is queried before the page (433, 567), for as many rows as committed
\* between these two queries, the last ones in the list's order.  Rows with
\* equal times, which no query puts in a fixed order, are left aside.
ScanMissesFew ==
    (scan # NoScan /\ scan.at = "read" /\ ~scan.cut) =>
        LET missed == Untied(scan.present \ scan.seen, scan.filter) IN
        /\ Cardinality(missed) <= scan.gap
        /\ ~CountFirst(scan.list) => missed = {}
        /\ InOrder(scan.sort, Untied(scan.seen, scan.filter), missed)

\* "same filters as /log so what you filtered to on screen is what you get in
\* the file" (650-654): below the cap the file has all that was on the
\* screen, at the cap it is full and what it lacks comes after what it has.
FileHasScreen ==
    (scan # NoScan /\ scan.at = "exported") =>
        /\ Cardinality(scan.file) <= ExportCap
        /\ Cardinality(scan.file) < ExportCap => scan.seen \subseteq scan.file
        /\ InOrder(scan.sort, scan.file, scan.seen \ scan.file)

\* A count of the summary strip and the list behind it agree, although they
\* are different queries at different times: the list has at least what the
\* strip counted, and no more than what was inserted since; and the litres of
\* the strip are litres of rows the full list shows.
StripAgrees ==
    (scan # NoScan /\ strip # NoStrip) =>
        /\ \A s \in {"success", "partial", "failure"} :
              (scan.filter = [eq |-> [status |-> s], from |-> Open, to |-> Open] /\ scan.at = "rows") =>
                  strip.totals[s] <= scan.total /\ scan.total <= strip.totals[s] + strip.since
        /\ (scan.filter = [eq |-> <<>>, from |-> Open, to |-> Open] /\ scan.at = "read"
                 /\ scan.gap = 0 /\ Untied(rows, scan.filter) = rows) =>
               strip.totals.quantity <=
                   SumFunction([r \in {p \in scan.seen : p.body.status # "failure"} |-> r.body.quantity])
=============================================================================
