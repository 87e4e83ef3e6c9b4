---------------------------- MODULE ReleasesProofs ----------------------------
(***************************************************************************)
(* Proofs about Releases: who gets a release, for any bodies, companies,   *)
(* ABIs and number of releases, through any sequence of edits.             *)
(***************************************************************************)
EXTENDS Releases, FiniteSetTheorems, TLAPS

\* Every row is what the handlers make of the body it was last written from.
Written == \A id \in Ids : table[id] # Null =>
              \E p \in Payloads, c \in 1..MaxClock : table[id] = RowOf(p, c)

\* The unique indexes hold.
Unique == \A a, b \in Ids :
              (a # b /\ table[a] # Null /\ table[b] # Null) => ~Clash(table[a], table[b])

IInv == /\ table \in [Ids -> Row \cup {Null}]
        /\ clock \in 1..MaxClock
        /\ Written
        /\ Unique

LEMMA InitIInv == Init => IInv
  BY PageAssumption DEF Init, IInv, Written, Unique

LEMMA ClashSymmetric == ASSUME NEW r, NEW s PROVE Clash(r, s) <=> Clash(s, r)
  BY DEF Clash

\* The handlers' normalisation makes a row of every body.
LEMMA RowOfBody ==
    ASSUME NEW p \in Payloads, NEW c \in 1..MaxClock
    PROVE  RowOf(p, c) \in Row
<1>1. p \in Payload
  BY PayloadsAssumption
<1>2. /\ Clean(p.url) \in Urls \cup {Null} /\ Clean(p.prefix) \in Prefixes \cup {Null}
      /\ Clean(p.abi) \in Abis \cup {Null}
  BY <1>1 DEF Payload, Given, Clean
<1> QED BY <1>1, <1>2 DEF RowOf, Row, Payload

-----------------------------------------------------------------------------
(* Each step preserves IInv.                                               *)

\* A row that fits is written.
LEMMA WriteIInv ==
    ASSUME IInv, NEW id \in Ids, NEW p \in Payloads, NEW c \in 1..MaxClock,
           Fits(id, RowOf(p, c)), table' = [table EXCEPT ![id] = RowOf(p, c)],
           clock' \in 1..MaxClock
    PROVE  IInv'
<1> DEFINE row == RowOf(p, c)
<1>1. row \in Row
  BY RowOfBody
<1>2. \A o \in Ids : table'[o] = IF o = id THEN row ELSE table[o]
  BY DEF IInv
<1>3. \A o \in Ids \ {id} : table[o] # Null => ~Clash(row, table[o]) /\ ~Clash(table[o], row)
  BY ClashSymmetric DEF Fits
<1>4. Written'
  BY <1>2 DEF IInv, Written
<1>5. Unique'
  <2> HIDE DEF row
  <2> QED BY <1>2, <1>3 DEF IInv, Unique
<1> QED BY <1>1, <1>4, <1>5 DEF IInv

LEMMA NextIInv == IInv /\ [Next]_vars => IInv'
<1> SUFFICES ASSUME IInv, [Next]_vars PROVE IInv'
  OBVIOUS
<1>1. ASSUME NEW id \in Ids, NEW p \in Payloads, CreateRelease(id, p) PROVE IInv'
  <2>1. PICK c \in 1..clock :
           Fits(id, RowOf(p, c)) /\ table' = [table EXCEPT ![id] = RowOf(p, c)]
    BY <1>1 DEF CreateRelease, Write
  <2>2. c \in 1..MaxClock /\ clock' \in 1..MaxClock
    BY <1>1, <2>1, PageAssumption DEF CreateRelease, IInv
  <2> QED BY <2>1, <2>2, WriteIInv
<1>2. ASSUME NEW id \in Ids, NEW p \in Payloads, UpdateRelease(id, p) PROVE IInv'
  <2>1. /\ table[id] # Null /\ clock' = clock /\ Fits(id, RowOf(p, KeptDate(id)))
        /\ table' = [table EXCEPT ![id] = RowOf(p, KeptDate(id))]
    BY <1>2 DEF UpdateRelease, Write
  <2>2. KeptDate(id) \in 1..MaxClock
    BY <2>1 DEF KeptDate, IInv, Row
  <2>3. clock' \in 1..MaxClock
    BY <2>1 DEF IInv
  <2> QED BY <2>1, <2>2, <2>3, WriteIInv
<1>3. ASSUME NEW id \in Ids, DeleteRelease(id) PROVE IInv'
  <2>1. table' = [table EXCEPT ![id] = Null] /\ clock' = clock
    BY <1>3 DEF DeleteRelease, Write
  <2>2. \A o \in Ids : table'[o] = IF o = id THEN Null ELSE table[o]
    BY <2>1 DEF IInv
  <2>3. Written' /\ Unique'
    BY <2>2 DEF IInv, Written, Unique
  <2> QED BY <2>1, <2>3 DEF IInv
<1>4. CASE \/ \E v \in Devices \cup {Admin} : StartScan(v)
           \/ FetchRows \/ FetchCount \/ CountFails \/ UNCHANGED vars
  <2>1. UNCHANGED <<table, clock>>
    BY <1>4 DEF StartScan, FetchRows, FetchCount, CountFails, vars
  <2> QED BY <2>1 DEF IInv, Written, Unique
<1>5. CASE Tick
  BY <1>5, PageAssumption DEF Tick, IInv, Written, Unique
<1> QED BY <1>1, <1>2, <1>3, <1>4, <1>5 DEF Next

-----------------------------------------------------------------------------
(* What the rows say of their audience.                                    *)

\* Blank and missing fields are stored as NULL, given ones as they are.
LEMMA CleanField ==
    ASSUME NEW S, NEW x \in Given(S), Null \notin S, Blank \notin S
    PROVE  /\ LeftOut(x) => Clean(x) = Null
           /\ ~LeftOut(x) => Clean(x) = x /\ x \in S
  BY MarkersAssumption DEF Given, LeftOut, Clean

LEMMA AudienceOfRow ==
    ASSUME NEW p \in Payloads, NEW c \in 1..MaxClock
    PROVE  LET A == Audience(RowOf(p, c)) IN
           /\ (LeftOut(p.url) /\ LeftOut(p.prefix)) => A = Everyone(p)
           /\ (~LeftOut(p.url) /\ ~LeftOut(p.prefix)) =>
                  A = {d \in Everyone(p) : d.url = p.url /\ d.prefix = p.prefix}
<1> DEFINE row == RowOf(p, c)
<1>1. p \in Payload
  BY PayloadsAssumption
<1>2. /\ p.url \in Given(Urls) /\ p.prefix \in Given(Prefixes) /\ p.abi \in Given(Abis)
      /\ Null \notin Urls /\ Blank \notin Urls /\ Null \notin Prefixes /\ Blank \notin Prefixes
      /\ Null \notin Abis /\ Blank \notin Abis
  BY <1>1, MarkersAssumption DEF Payload
<1>3. row.url = Clean(p.url) /\ row.prefix = Clean(p.prefix) /\ row.abi = Clean(p.abi)
  BY DEF RowOf
<1> HIDE DEF row
<1>4. \A d \in Devices : AbiMatches(row, d) <=> d \in Everyone(p)
  <2>1. CASE LeftOut(p.abi)
    BY <2>1, <1>2, <1>3, CleanField DEF AbiMatches, Everyone
  <2>2. CASE ~LeftOut(p.abi)
    <3>1. row.abi = p.abi /\ row.abi # Null
      BY <2>2, <1>2, <1>3, CleanField
    <3> QED BY <3>1, <2>2 DEF AbiMatches, Everyone
  <2> QED BY <2>1, <2>2
<1>5. ASSUME LeftOut(p.url) PROVE row.url = Null
  BY <1>5, <1>2, <1>3, CleanField
<1>6. ASSUME ~LeftOut(p.url), ~LeftOut(p.prefix)
      PROVE  row.url = p.url /\ row.prefix = p.prefix /\ row.url # Null
  BY <1>6, <1>2, <1>3, CleanField
<1>7. \A d \in Devices : d \in Audience(row) <=> CompanyMatches(row, d) /\ d \in Everyone(p)
  BY <1>4 DEF Audience, Delivered
<1>8. ASSUME LeftOut(p.url) PROVE Audience(row) = Everyone(p)
  BY <1>8, <1>5, <1>7 DEF CompanyMatches, Audience, Everyone
<1>9. ASSUME ~LeftOut(p.url), ~LeftOut(p.prefix)
      PROVE  Audience(row) = {d \in Everyone(p) : d.url = p.url /\ d.prefix = p.prefix}
  BY <1>9, <1>6, <1>7 DEF CompanyMatches, Audience, Everyone
<1> QED BY <1>8, <1>9 DEF row

LEMMA WrittenDelivers == IInv => DeliveredAsAsked
<1> SUFFICES ASSUME IInv, NEW id \in Ids, table[id] # Null
             PROVE  LET p == table[id].asked
                    IN  /\ (LeftOut(p.url) /\ LeftOut(p.prefix)) => Audience(table[id]) = Everyone(p)
                        /\ (~LeftOut(p.url) /\ ~LeftOut(p.prefix)) =>
                               Audience(table[id])
                                   = {d \in Everyone(p) : d.url = p.url /\ d.prefix = p.prefix}
  BY DEF DeliveredAsAsked
<1>1. PICK p \in Payloads, c \in 1..MaxClock : table[id] = RowOf(p, c)
  BY DEF IInv, Written
<1>2. table[id].asked = p
  BY <1>1 DEF RowOf
<1> QED BY <1>1, <1>2, AudienceOfRow

\* Two audiences that are equal and not empty are those of clashing rows, if
\* a device could have another ABI, and another company.
LEMMA TwinsClash ==
    ASSUME NEW r \in Row, NEW s \in Row, r.version = s.version,
           Audience(r) = Audience(s), Audience(r) # {},
           \A x \in Abis : \E y \in Abis : y # x,
           \A u \in Urls, q \in Prefixes : \E v \in Urls, w \in Prefixes : v # u \/ w # q
    PROVE  Clash(r, s)
<1>1. PICK d \in Devices : Delivered(r, d) /\ Delivered(s, d)
  BY DEF Audience
<1>2. d.url \in Urls /\ d.prefix \in Prefixes /\ d.abi \in Abis
  BY DEF Devices
<1>3. \A e \in Devices : Delivered(r, e) <=> Delivered(s, e)
  BY DEF Audience
<1>4. r.abi = s.abi
  <2>1. PICK y \in Abis : y # d.abi
    BY <1>2
  <2> DEFINE e == [url |-> d.url, prefix |-> d.prefix, abi |-> y]
  <2>2. e \in Devices /\ e.url = d.url /\ e.prefix = d.prefix /\ e.abi = y
    BY <1>2 DEF Devices
  <2>3. CompanyMatches(r, e) /\ CompanyMatches(s, e)
    BY <1>1, <2>2 DEF Delivered, CompanyMatches
  <2> HIDE DEF e
  <2>4. AbiMatches(r, e) <=> AbiMatches(s, e)
    BY <1>3, <2>2, <2>3 DEF Delivered
  <2> QED BY <1>1, <2>1, <2>2, <2>4 DEF Delivered, AbiMatches
<1>5. \/ r.url = Null /\ s.url = Null
      \/ r.url # Null /\ r.url = s.url /\ r.prefix # Null /\ r.prefix = s.prefix
  <2>1. PICK v \in Urls, w \in Prefixes : v # d.url \/ w # d.prefix
    BY <1>2
  <2> DEFINE e == [url |-> v, prefix |-> w, abi |-> d.abi]
  <2>2. e \in Devices /\ e.url = v /\ e.prefix = w /\ e.abi = d.abi
    BY <1>2 DEF Devices
  <2>3. AbiMatches(r, e) /\ AbiMatches(s, e)
    BY <1>1, <2>2 DEF Delivered, AbiMatches
  <2> HIDE DEF e
  <2>4. CompanyMatches(r, e) <=> CompanyMatches(s, e)
    BY <1>3, <2>2, <2>3 DEF Delivered
  <2>5. CompanyMatches(r, d) /\ CompanyMatches(s, d)
    BY <1>1 DEF Delivered
  <2>6. d.url # Null /\ d.prefix # Null
    BY <1>2, MarkersAssumption
  <2> QED BY <2>1, <2>2, <2>4, <2>5, <2>6 DEF CompanyMatches
<1> QED BY <1>4, <1>5 DEF Clash

LEMMA UniqueNoTwins ==
    ASSUME \A x \in Abis : \E y \in Abis : y # x,
           \A u \in Urls, q \in Prefixes : \E v \in Urls, w \in Prefixes : v # u \/ w # q
    PROVE  IInv => NoTwins
<1> SUFFICES ASSUME IInv, NEW a \in Ids, NEW b \in Ids, a # b, table[a] # Null, table[b] # Null,
                    table[a].version = table[b].version, Audience(table[a]) # {},
                    Audience(table[a]) = Audience(table[b])
             PROVE  FALSE
  BY DEF NoTwins
<1>1. table[a] \in Row /\ table[b] \in Row
  BY DEF IInv
<1>2. Clash(table[a], table[b])
  BY <1>1, TwinsClash
<1> QED BY <1>2 DEF IInv, Unique

-----------------------------------------------------------------------------

\* The table's invariant under any creations, edits and deletions.
THEOREM ReleasesInductive == Spec => []IInv
  BY InitIInv, NextIInv, PTL DEF Spec

\* A release is delivered to the devices its body asked for, through edits,
\* blank fields and fields left out.
THEOREM AudienceAsAsked == Spec => []DeliveredAsAsked
<1>1. IInv => DeliveredAsAsked
  BY WrittenDelivers
<1> QED BY <1>1, ReleasesInductive, PTL

\* The unique indexes and the delivery query agree, if there are two ABIs and
\* two companies to tell apart.
THEOREM AudiencesDiffer ==
    ASSUME \A x \in Abis : \E y \in Abis : y # x,
           \A u \in Urls, q \in Prefixes : \E v \in Urls, w \in Prefixes : v # u \/ w # q
    PROVE  Spec => []NoTwins
<1>1. IInv => NoTwins
  BY UniqueNoTwins
<1> QED BY <1>1, ReleasesInductive, PTL

-----------------------------------------------------------------------------
(* A client that pages through the list.                                   *)

Stored(t) == {id \in Ids : t[id] # Null}
\* The releases listed before id.
Newer(t, v, id) == {o \in InView(t, v) : t[o].created > t[id].created}
\* The rows on the pages shown.
Fetched(s) == IF s.at = "rows" THEN (s.page - 1) * PageSize ELSE s.page * PageSize

(* While anything is owed, no two releases in the view have the same date, *)
(* and the owed ones come after the pages shown; after the last page none  *)
(* is.                                                                     *)
Paged(s, t) ==
    /\ s.owed # {} => ~Tied(t, s.view)
    /\ s.owed \subseteq InView(t, s.view)
    /\ \A id \in s.owed : Cardinality(Newer(t, s.view, id)) >= Fetched(s)
ScanInv == /\ IsFiniteSet(Stored(table))
           /\ scan \in Scan \cup {NoScan}
           /\ Reading => Paged(scan, table)
           /\ ScanComplete

LEMMA ViewFinite ==
    ASSUME NEW t, IsFiniteSet(Stored(t)), NEW v, NEW id
    PROVE  /\ IsFiniteSet(InView(t, v)) /\ Cardinality(InView(t, v)) \in Nat
           /\ IsFiniteSet(Newer(t, v, id)) /\ Cardinality(Newer(t, v, id)) \in Nat
<1>1. InView(t, v) \in SUBSET Stored(t) /\ Newer(t, v, id) \in SUBSET Stored(t)
  BY DEF InView, Stored, Newer
<1> QED BY <1>1, FS_Subset, FS_CardinalityType

LEMMA PagePlaces ==
    ASSUME NEW page \in Nat \ {0}
    PROVE  /\ (page - 1) * PageSize \in Nat /\ page * PageSize \in Nat
           /\ (page - 1) * PageSize + PageSize = page * PageSize
<1>1. PageSize \in Nat
  BY PageAssumption
<1>2. PICK k \in Nat : page = k + 1 /\ page - 1 = k
  <2>1. page = (page - 1) + 1 /\ page - 1 \in Nat
    OBVIOUS
  <2> QED BY <2>1
<1>3. k * PageSize \in Nat /\ (k + 1) * PageSize = k * PageSize + PageSize
  BY <1>1
<1> QED BY <1>1, <1>2, <1>3

\* The last page ends at the number of releases or after it.
LEMMA LastPage ==
    ASSUME NEW n \in Nat, NEW page \in Nat, ~(page < (n + PageSize - 1) \div PageSize)
    PROVE  n <= page * PageSize
<1> DEFINE q == (n + PageSize - 1) \div PageSize
           m == (n + PageSize - 1) % PageSize
<1>1. PageSize \in Nat \ {0}
  BY PageAssumption
<1>2. q \in Nat /\ m \in 0..(PageSize - 1) /\ n + PageSize - 1 = PageSize * q + m
  BY <1>1
<1>3. q <= page
  BY <1>2
<1> HIDE DEF q, m
<1>4. PICK k \in Nat : page = q + k
  <2>1. page = q + (page - q) /\ page - q \in Nat
    BY <1>2, <1>3
  <2> QED BY <2>1
<1>5. page * PageSize = PageSize * q + PageSize * k /\ PageSize * q \in Nat /\ PageSize * k \in Nat
  BY <1>1, <1>2, <1>4
<1> QED BY <1>1, <1>2, <1>5

\* A scan that is not being read stays as it is.
LEMMA ReadingScan == ScanInv /\ Reading => scan \in Scan /\ scan # NoScan
  BY DEF ScanInv, Reading, NoScan

\* A write that takes no release out of the view and no date from a release
\* moves none towards the front.
LEMMA WriteScan ==
    ASSUME ScanInv, NEW t, Write(t), IsFiniteSet(Stored(t)),
           \A id \in Stored(table) \cap Stored(t) : t[id].created = table[id].created
    PROVE  ScanInv'
<1>1. table' = t
  BY DEF Write
<1>2. CASE ~Reading
  BY <1>1, <1>2 DEF Write, Watch, ScanInv, Reading, ScanComplete
<1>3. CASE Reading /\ Disturbs(t)
  <2> DEFINE s == [scan EXCEPT !.owed = {}]
  <2>1. scan' = s /\ scan \in Scan
    BY <1>3, ReadingScan DEF Write, Watch
  <2>2. s \in Scan /\ s.owed = {}
    BY <2>1 DEF Scan
  <2> HIDE DEF s
  <2> QED BY <1>1, <2>1, <2>2 DEF ScanInv, Paged, ScanComplete
<1>4. CASE Reading /\ ~Disturbs(t)
  <2>1. scan' = scan /\ scan \in Scan /\ Paged(scan, table)
    BY <1>4, ReadingScan DEF Write, Watch, ScanInv
  <2>2. InView(table, scan.view) \subseteq InView(t, scan.view) /\ ~Tied(t, scan.view)
    BY <1>4 DEF Disturbs
  <2>3. ASSUME NEW id \in scan.owed
        PROVE  Cardinality(Newer(t, scan.view, id)) >= Fetched(scan)
    <3>1. id \in InView(table, scan.view) /\ Cardinality(Newer(table, scan.view, id)) >= Fetched(scan)
      BY <2>1 DEF Paged
    <3>2. \A o \in InView(table, scan.view) : t[o].created = table[o].created
      BY <2>2 DEF InView, Stored
    <3>3. Newer(table, scan.view, id) \in SUBSET Newer(t, scan.view, id)
      BY <2>2, <3>1, <3>2 DEF Newer
    <3>4. Cardinality(Newer(table, scan.view, id)) <= Cardinality(Newer(t, scan.view, id))
      BY <3>3, ViewFinite, FS_Subset
    <3>5. /\ Cardinality(Newer(table, scan.view, id)) \in Nat
          /\ Cardinality(Newer(t, scan.view, id)) \in Nat
      BY ViewFinite DEF ScanInv
    <3>6. Fetched(scan) \in Nat
      BY <2>1, PagePlaces DEF Fetched, Scan
    <3> QED BY <3>1, <3>4, <3>5, <3>6
  <2>4. Paged(scan, t)
    BY <2>1, <2>2, <2>3 DEF Paged
  <2>5. ScanComplete'
    BY <1>4, <2>1 DEF Reading, ScanComplete
  <2> QED BY <1>1, <2>1, <2>4, <2>5 DEF ScanInv
<1> QED BY <1>2, <1>3, <1>4

\* Without ties, a page holds every release whose place is on it.
LEMMA PageHolds ==
    ASSUME IsFiniteSet(Stored(table)), NEW v, ~Tied(table, v),
           NEW page \in Nat \ {0}, NEW rows \in Pages(table, v, page),
           NEW id \in InView(table, v),
           table \in [Ids -> Row \cup {Null}],
           Cardinality(Newer(table, v, id)) >= (page - 1) * PageSize,
           Cardinality(Newer(table, v, id)) < page * PageSize
    PROVE  id \in rows
<1> DEFINE n == (page - 1) * PageSize
           m == page * PageSize
           V == InView(table, v)
           A == Newer(table, v, id)
<1>1. PICK E \in Fronts(table, v, n), F \in Fronts(table, v, m) : rows = F \ E
  BY DEF Pages
<1>2. n \in Nat /\ m \in Nat
  BY PagePlaces
<1>3. /\ IsFiniteSet(V) /\ Cardinality(V) \in Nat
      /\ IsFiniteSet(A) /\ Cardinality(A) \in Nat
  BY ViewFinite
<1>4. /\ E \subseteq V /\ F \subseteq V
      /\ IsFiniteSet(E) /\ Cardinality(E) \in Nat /\ Cardinality(E) <= n
      /\ IsFiniteSet(F) /\ Cardinality(F) \in Nat
      /\ Cardinality(F) = m \/ F = V
  BY <1>1, <1>3, FS_Subset, FS_CardinalityType DEF Fronts
<1>5. \A o \in V : table[o].created \in Nat
  BY DEF InView, Row
<1>6. A \subseteq V /\ id \notin A
  BY <1>5 DEF Newer
<1>7. id \notin E
  <2> SUFFICES ASSUME id \in E PROVE FALSE
    OBVIOUS
  <2>1. A \subseteq E
    BY <1>1, <1>5 DEF Newer, Fronts
  <2>2. A \cup {id} \subseteq E
    BY <2>1
  <2> HIDE DEF A, n
  <2>3. Cardinality(A \cup {id}) = Cardinality(A) + 1
    BY <1>3, <1>6, FS_AddElement
  <2>4. Cardinality(A) + 1 <= Cardinality(E)
    BY <1>4, <2>2, <2>3, FS_Subset
  <2> QED BY <1>2, <1>3, <1>4, <2>4 DEF A, n
<1>8. id \in F
  <2> SUFFICES ASSUME id \notin F PROVE FALSE
    OBVIOUS
  <2>1. \A o \in F : table[o].created # table[id].created
    BY <1>4 DEF Tied
  <2>2. F \in SUBSET A
    BY <1>1, <1>4, <1>5, <2>1 DEF Newer, Fronts
  <2>3. Cardinality(F) = m
    BY <1>4
  <2> HIDE DEF A, m
  <2>4. Cardinality(F) <= Cardinality(A)
    BY <1>3, <2>2, FS_Subset
  <2> QED BY <1>2, <1>3, <2>3, <2>4 DEF A, m
<1> QED BY <1>1, <1>7, <1>8

LEMMA FetchRowsScan == ASSUME IInv, ScanInv, FetchRows PROVE ScanInv'
<1>1. PICK rows \in Pages(table, scan.view, scan.page) :
         scan' = [scan EXCEPT !.at = "count", !.owed = @ \ rows]
  BY DEF FetchRows
<1> DEFINE s == [scan EXCEPT !.at = "count", !.owed = @ \ rows]
<1>2. scan' = s /\ table' = table /\ scan.at = "rows" /\ Reading
  BY <1>1 DEF FetchRows, Reading
<1>3. scan \in Scan
  BY <1>2, ReadingScan
<1>4. /\ s \in Scan /\ s.at = "count" /\ s.view = scan.view /\ s.page = scan.page
      /\ s.owed = scan.owed \ rows
  BY <1>3 DEF Scan
<1> HIDE DEF s
<1>5. Paged(scan, table)
  BY <1>2 DEF ScanInv
<1>6. ASSUME NEW id \in s.owed
      PROVE  Cardinality(Newer(table, s.view, id)) >= Fetched(s)
  <2> DEFINE k == Cardinality(Newer(table, scan.view, id))
             n == (scan.page - 1) * PageSize
             m == scan.page * PageSize
  <2>1. n \in Nat /\ m \in Nat /\ Fetched(scan) = n /\ Fetched(s) = m /\ scan.page \in Nat \ {0}
    BY <1>2, <1>3, <1>4, PagePlaces DEF Fetched, Scan
  <2>2. k \in Nat /\ k >= n
    BY <1>4, <1>5, <2>1, ViewFinite DEF Paged, ScanInv
  <2>3. ~Tied(table, scan.view) /\ id \in InView(table, scan.view) /\ id \notin rows
    BY <1>4, <1>5 DEF Paged
  <2>4. ~(k < m)
    BY <2>1, <2>2, <2>3, PageHolds DEF IInv, ScanInv
  <2> HIDE DEF k, n, m
  <2>5. k >= m
    BY <2>1, <2>2, <2>4
  <2> QED BY <1>4, <2>1, <2>5 DEF k
<1>7. Paged(s, table)
  BY <1>4, <1>5, <1>6 DEF Paged
<1> QED BY <1>2, <1>4, <1>7 DEF ScanInv, ScanComplete

\* The step that goes on or ends the scan.
LEMMA FetchCountScan == ASSUME IInv, ScanInv, FetchCount PROVE ScanInv'
<1>1. scan.at = "count" /\ Reading /\ table' = table /\ Paged(scan, table)
  BY DEF FetchCount, Reading, ScanInv
<1>2. scan \in Scan
  BY <1>1, ReadingScan
<1>3. CASE scan.page < TotalPages(table, scan.view)
  <2> DEFINE next == scan.page + 1
             s == [scan EXCEPT !.at = "rows", !.page = next]
  <2>1. scan' = s
    BY <1>3 DEF FetchCount
  <2>2. next \in Nat \ {0} /\ next - 1 = scan.page
    BY <1>2 DEF Scan
  <2> HIDE DEF next
  <2>3. /\ s \in Scan /\ s.at = "rows" /\ s.view = scan.view /\ s.page = next
        /\ s.owed = scan.owed
    BY <1>2, <2>2 DEF Scan
  <2> HIDE DEF s
  <2>4. Fetched(s) = Fetched(scan)
    BY <1>1, <2>2, <2>3 DEF Fetched
  <2>5. Paged(s, table)
    BY <1>1, <2>3, <2>4 DEF Paged
  <2> QED BY <1>1, <2>1, <2>3, <2>5 DEF ScanInv, ScanComplete
<1>4. CASE ~(scan.page < TotalPages(table, scan.view))
  <2> DEFINE s == [scan EXCEPT !.at = "done"]
  <2>1. scan' = s
    BY <1>4 DEF FetchCount
  <2>2. s \in Scan /\ s.at = "done" /\ s.owed = scan.owed
    BY <1>2 DEF Scan
  <2> HIDE DEF s
  <2>3. scan.owed = {}
    <3> SUFFICES ASSUME NEW id \in scan.owed PROVE FALSE
      OBVIOUS
    <3> DEFINE V == InView(table, scan.view)
               A == Newer(table, scan.view, id)
               m == scan.page * PageSize
    <3>1. IsFiniteSet(V) /\ Cardinality(V) \in Nat /\ Cardinality(A) \in Nat
      BY ViewFinite DEF ScanInv
    <3>2. id \in V /\ Cardinality(A) >= m /\ m \in Nat /\ scan.page \in Nat \ {0}
      BY <1>1, <1>2, PagePlaces DEF Paged, Fetched, Scan
    <3>3. A \subseteq V \ {id}
      <4>1. table[id].created \in Nat
        BY <3>2 DEF InView, IInv, Row
      <4>2. id \notin A
        BY <4>1 DEF Newer
      <4> QED BY <4>2 DEF Newer
    <3> HIDE DEF A, V
    <3>4. Cardinality(V) <= m
      <4>1. ~(scan.page < (Cardinality(V) + PageSize - 1) \div PageSize)
        BY <1>4 DEF TotalPages, V
      <4> QED BY <3>1, <3>2, <4>1, LastPage
    <3>5. Cardinality(A) <= Cardinality(V) - 1
      <4>1. IsFiniteSet(V \ {id}) /\ Cardinality(V \ {id}) = Cardinality(V) - 1
        BY <3>1, <3>2, FS_RemoveElement
      <4> QED BY <3>3, <4>1, FS_Subset
    <3> HIDE DEF m
    <3> QED BY <3>1, <3>2, <3>4, <3>5
  <2>4. ~Reading'
    BY <2>1, <2>2 DEF Reading
  <2> QED BY <1>1, <2>1, <2>2, <2>3, <2>4 DEF ScanInv, ScanComplete
<1> QED BY <1>3, <1>4

\* A scan starts with every release in the view still to be shown.
LEMMA StartScanScan ==
    ASSUME ScanInv, NEW v \in Devices \cup {Admin}, StartScan(v)
    PROVE  ScanInv'
<1> DEFINE owed == IF Tied(table, v) THEN {} ELSE InView(table, v)
           s == [at |-> "rows", view |-> v, page |-> 1, owed |-> owed]
<1>1. scan' = s /\ table' = table
  BY DEF StartScan
<1>2. owed \subseteq InView(table, v) /\ (owed # {} => ~Tied(table, v)) /\ owed \in SUBSET Ids
  BY DEF InView
<1> HIDE DEF owed
<1>3. s \in Scan /\ s.at = "rows" /\ s.view = v /\ s.page = 1 /\ s.owed = owed
  BY <1>2 DEF Scan
<1> HIDE DEF s
<1>4. Fetched(s) = 0
  BY <1>3, PageAssumption DEF Fetched
<1>5. \A id \in s.owed : Cardinality(Newer(table, s.view, id)) >= 0
  <2> SUFFICES ASSUME NEW id \in s.owed
               PROVE  Cardinality(Newer(table, s.view, id)) >= 0
    OBVIOUS
  <2>1. Cardinality(Newer(table, s.view, id)) \in Nat
    BY ViewFinite DEF ScanInv
  <2> QED BY <2>1
<1>6. Paged(s, table)
  BY <1>2, <1>3, <1>4, <1>5 DEF Paged
<1> QED BY <1>1, <1>3, <1>6 DEF ScanInv, ScanComplete

\* What an administrator writes keeps the dates of the releases that stay.
LEMMA StoreScan ==
    ASSUME IInv, ScanInv, NEW id \in Ids, NEW p \in Payloads, NEW c,
           table[id] # Null => c = table[id].created,
           Write([table EXCEPT ![id] = RowOf(p, c)])
    PROVE  ScanInv'
<1> DEFINE t == [table EXCEPT ![id] = RowOf(p, c)]
<1>1. \A o \in Ids : t[o] = IF o = id THEN RowOf(p, c) ELSE table[o]
  BY DEF IInv
<1>2. Write(t)
  OBVIOUS
<1> HIDE DEF t
<1>3. IsFiniteSet(Stored(t))
  <2>1. Stored(t) \in SUBSET (Stored(table) \cup {id})
    BY <1>1 DEF Stored
  <2>2. IsFiniteSet(Stored(table) \cup {id})
    BY FS_AddElement DEF ScanInv
  <2> QED BY <2>1, <2>2, FS_Subset
<1>4. \A o \in Stored(table) \cap Stored(t) : t[o].created = table[o].created
  <2>1. RowOf(p, c).created = c
    BY DEF RowOf
  <2> QED BY <1>1, <2>1 DEF Stored
<1> QED BY <1>2, <1>3, <1>4, WriteScan

LEMMA DeleteScan ==
    ASSUME IInv, ScanInv, NEW id \in Ids, DeleteRelease(id)
    PROVE  ScanInv'
<1> DEFINE t == [table EXCEPT ![id] = Null]
<1>1. \A o \in Ids : t[o] = IF o = id THEN Null ELSE table[o]
  BY DEF IInv
<1>2. Write(t)
  BY DEF DeleteRelease
<1> HIDE DEF t
<1>3. IsFiniteSet(Stored(t))
  <2>1. Stored(t) \in SUBSET Stored(table)
    BY <1>1 DEF Stored
  <2> QED BY <2>1, FS_Subset DEF ScanInv
<1>4. \A o \in Stored(table) \cap Stored(t) : t[o].created = table[o].created
  BY <1>1 DEF Stored
<1> QED BY <1>2, <1>3, <1>4, WriteScan

LEMMA InitScan == Init => ScanInv
<1> SUFFICES ASSUME Init PROVE ScanInv
  OBVIOUS
<1>1. Stored(table) = {}
  BY DEF Init, Stored
<1>2. scan = NoScan /\ scan.at = "none"
  BY DEF Init, NoScan
<1> QED BY <1>1, <1>2, FS_EmptySet DEF ScanInv, Reading, ScanComplete

LEMMA NextScan == ASSUME IInv, ScanInv, [Next]_vars PROVE ScanInv'
<1>1. ASSUME NEW id \in Ids, NEW p \in Payloads, CreateRelease(id, p) PROVE ScanInv'
  <2>1. PICK c : table[id] = Null /\ Write([table EXCEPT ![id] = RowOf(p, c)])
    BY <1>1 DEF CreateRelease
  <2> QED BY <2>1, StoreScan
<1>2. ASSUME NEW id \in Ids, NEW p \in Payloads, UpdateRelease(id, p) PROVE ScanInv'
  <2>1. Write([table EXCEPT ![id] = RowOf(p, table[id].created)])
    BY <1>2 DEF UpdateRelease, KeptDate
  <2> QED BY <2>1, StoreScan
<1>3. ASSUME NEW id \in Ids, DeleteRelease(id) PROVE ScanInv'
  BY <1>3, DeleteScan
<1>4. ASSUME NEW v \in Devices \cup {Admin}, StartScan(v) PROVE ScanInv'
  BY <1>4, StartScanScan
<1>5. CASE FetchRows
  BY <1>5, FetchRowsScan
<1>6. CASE FetchCount
  BY <1>6, FetchCountScan
<1>7. CASE CountFails
  <2>1. scan' = NoScan /\ NoScan.at = "none" /\ table' = table
    BY <1>7 DEF CountFails, NoScan
  <2> QED BY <2>1 DEF ScanInv, Reading, ScanComplete
<1>8. CASE Tick \/ UNCHANGED vars
  BY <1>8 DEF Tick, vars, ScanInv, Reading, ScanComplete
<1> QED BY <1>1, <1>2, <1>3, <1>4, <1>5, <1>6, <1>7, <1>8 DEF Next

\* A client that pages by OFFSET has been shown, at the last page, every
\* release that was in its view all along, whatever is created, late commits
\* included, and edited meanwhile: if none leaves the view, no two in it have
\* the same created_at and no count fails.
THEOREM PagingComplete == Spec => []ScanComplete
<1>1. IInv /\ ScanInv /\ [Next]_vars => ScanInv'
  BY NextScan
<1>2. ScanInv => ScanComplete
  BY DEF ScanInv
<1> QED BY <1>1, <1>2, InitScan, ReleasesInductive, PTL DEF Spec
=============================================================================
