------------------------------ MODULE Companies ------------------------------
(***************************************************************************)
(* The company directory (src/companies/operations.rs, migration 002):     *)
(* adding, editing and deleting sites, and a dashboard that reads the      *)
(* sorted list page by page while others write.                            *)
(***************************************************************************)
EXTENDS Naturals, FiniteSets

CONSTANTS Ids,       \* site ids; the sequence never gives one twice
          Names,     \* (site_name, branch_), numbered in their sort order
          Pairs,     \* (company_url, company_prefix)
          Blank,     \* white space in a required field
          Null,      \* a field left out of a PATCH
          Absent,    \* no row
          Searches,  \* a text to look for, as the set of values that contain it
          PageSize   \* page_size of the dashboard

ASSUME NamesAssumption == Names \subseteq Nat \ {0} /\ PageSize \in Nat \ {0}
ASSUME SentinelsAssumption == /\ Null \notin Names \cup Pairs \cup {Blank}
                              /\ Blank \notin Names \cup Pairs
ASSUME SearchesAssumption == Searches \subseteq SUBSET (Names \cup Pairs \cup {Blank})

VARIABLES sites,   \* sites[id]: the row
          fresh,   \* the ids not given yet
          scan     \* the dashboard's way through the pages

vars == <<sites, fresh, scan>>

Site == [name : Names \cup {Blank}, pair : Pairs \cup {Blank}]
NoScan == [at |-> "none"]
\* at: the query that comes next, "done" after the last page.  watched: the
\* sites found ever since the scan began; moved: some site was deleted, renamed
\* or changed so that it is no longer found since; tied: two of those found had
\* the same name meanwhile.
Scan == [at : {"rows", "count", "done"}, page : Nat \ {0}, search : Searches, seen : SUBSET Ids,
         watched : SUBSET Ids, moved : BOOLEAN, tied : BOOLEAN]
Reading == scan.at \in {"rows", "count"}

TypeOK == /\ sites \in [Ids -> Site \cup {Absent}]
          /\ fresh \subseteq Ids
          /\ scan \in Scan \cup {NoScan}

Init == /\ sites = [id \in Ids |-> Absent]
        /\ fresh = Ids
        /\ scan = NoScan

Listed(t) == {id \in Ids : t[id] # Absent}
\* White space sorts first.
Rank(t, id) == IF t[id].name = Blank THEN 0 ELSE t[id].name

\* ILIKE over site_name, branch_ and company_url: the sites a search finds.
\* The empty search is contained in every value.
Found(t, search) == {id \in Listed(t) : t[id].name \in search \/ t[id].pair \in search}
Tied(t, search) == \E a, b \in Found(t, search) : a # b /\ Rank(t, a) = Rank(t, b)

-----------------------------------------------------------------------------
(* Writes.                                                                 *)

\* UNIQUE (company_url, company_prefix); otherwise 409.
PairFree(id, pair) == \A o \in Listed(sites) \ {id} : sites[o].pair # pair

\* The history of a scan in progress.
Watch(t) ==
    scan' = IF Reading
            THEN [scan EXCEPT
                    !.watched = @ \cap Found(t, scan.search),
                    !.moved = @ \/ \E id \in Found(sites, scan.search) :
                                      \/ id \notin Found(t, scan.search)
                                      \/ Rank(t, id) # Rank(sites, id),
                    !.tied = @ \/ Tied(t, scan.search)]
            ELSE scan
Write(t) == sites' = t /\ Watch(t)

\* The three required fields are not blank (otherwise 400).
CreateCompany(id, name, pair) ==
    /\ id \in fresh
    /\ name # Blank /\ pair # Blank
    /\ PairFree(id, pair)
    /\ fresh' = fresh \ {id}
    /\ Write([sites EXCEPT ![id] = [name |-> name, pair |-> pair]])

\* COALESCE($n, column)
Coalesce(new, old) == IF new = Null THEN old ELSE new

UpdateCompany(id, name, pair) ==
    LET row == [name |-> Coalesce(name, sites[id].name), pair |-> Coalesce(pair, sites[id].pair)] IN
    /\ sites[id] # Absent
    /\ PairFree(id, row.pair)
    /\ Write([sites EXCEPT ![id] = row])
    /\ UNCHANGED fresh

DeleteCompany(id) ==
    /\ sites[id] # Absent
    /\ Write([sites EXCEPT ![id] = Absent])
    /\ UNCHANGED fresh

-----------------------------------------------------------------------------
(* The list: ORDER BY site_name, branch_ LIMIT page_size OFFSET            *)
(* (page - 1) * page_size.  Rows with equal keys come in any order, chosen *)
(* anew by each query.                                                     *)

Sorted(t, A, B) == \A a \in A, b \in B : Rank(t, a) <= Rank(t, b)

\* The sets of the rows R that can make up page p.
Pages(t, R, p) ==
    {S \in SUBSET R :
        /\ Cardinality(S) <= PageSize
        /\ \E before \in SUBSET (R \ S) :
              LET after == R \ (before \cup S) IN
              /\ Sorted(t, before, S) /\ Sorted(t, S, after) /\ Sorted(t, before, after)
              /\ \/ Cardinality(before) = (p - 1) * PageSize
                 \/ Cardinality(before) < (p - 1) * PageSize /\ S = {} /\ after = {}
              /\ Cardinality(S) = PageSize \/ after = {}}

\* Mutant: the last page is not announced.
OneShort(R) == (Cardinality(R) + PageSize - 1) \div PageSize - 1
TotalPages(R) == (Cardinality(R) + PageSize - 1) \div PageSize

StartScan(search) ==
    /\ ~Reading
    /\ scan' = [at |-> "rows", page |-> 1, search |-> search, seen |-> {},
                watched |-> Found(sites, search), moved |-> FALSE, tied |-> Tied(sites, search)]
    /\ UNCHANGED <<sites, fresh>>

FetchRows ==
    /\ scan.at = "rows"
    /\ \E S \in Pages(sites, Found(sites, scan.search), scan.page) :
          scan' = [scan EXCEPT !.at = "count", !.seen = @ \cup S]
    /\ UNCHANGED <<sites, fresh>>

FetchCount ==
    /\ scan.at = "count"
    /\ scan' = IF scan.page < TotalPages(Found(sites, scan.search))
               THEN [scan EXCEPT !.at = "rows", !.page = @ + 1]
               ELSE [scan EXCEPT !.at = "done"]
    /\ UNCHANGED <<sites, fresh>>

\* unwrap_or(None): the page is a 200 with total_pages 0, and the dashboard
\* stops.
CountFails ==
    /\ scan.at = "count"
    /\ scan' = NoScan
    /\ UNCHANGED <<sites, fresh>>

Next ==
    \/ \E id \in Ids :
         \/ \E name \in Names \cup {Blank}, pair \in Pairs \cup {Blank} : CreateCompany(id, name, pair)
         \/ \E name \in Names \cup {Blank, Null}, pair \in Pairs \cup {Blank, Null} :
               UpdateCompany(id, name, pair)
         \/ DeleteCompany(id)
    \/ \E search \in Searches : StartScan(search)
    \/ FetchRows \/ FetchCount \/ CountFails

Spec == Init /\ [][Next]_vars

-----------------------------------------------------------------------------
(* Properties.                                                             *)

\* The dashboard, which reads one page after the other (82-110), finds every
\* site its search matched all along although others are added or edited
\* between its requests, provided none of those matched is deleted, renamed or
\* edited out of the search, no two of them have the same name and branch, and
\* no count fails.
ScanFindsSettled ==
    (scan.at = "done" /\ ~scan.moved /\ ~scan.tied) => scan.watched \subseteq scan.seen
=============================================================================
