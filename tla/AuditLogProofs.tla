----------------------------- MODULE AuditLogProofs -----------------------------
(***************************************************************************)
(* Proofs about AuditLog, for any page size, cap, filters and number of    *)
(* concurrent inserts: what a reader of the pages, of the CSV file, of the *)
(* days and of the summary strip can rely on while the table grows.        *)
(***************************************************************************)
EXTENDS AuditLog, SumTheorems, TLAPS

Entry == [at : Nat, id : Nat, body : Inserted]

TableInv ==
    /\ clock \in Nat /\ lastId \in Nat
    /\ IsFiniteSet(rows) /\ rows \subseteq Entry
    /\ running \in [Handlers -> Entry \cup {NoRow}]

LEMMA TableNext ==
    ASSUME TableInv, [Next]_vars
    PROVE  TableInv' /\ rows \subseteq rows'
<1>1. ASSUME NEW h \in Handlers, NEW body \in Inserted, Begin(h, body), table' = table
      PROVE  TableInv' /\ rows \subseteq rows'
  BY <1>1 DEF Begin, TableInv, Entry, Inserted
<1>2. ASSUME NEW h \in Handlers, DrawAndCommit(h), table' = table
      PROVE  TableInv' /\ rows \subseteq rows'
  <2> DEFINE row == [running[h] EXCEPT !.id = lastId + 1]
  <2>1. running[h] \in Entry
    BY <1>2 DEF DrawAndCommit, TableInv
  <2>2. row \in Entry /\ rows' = rows \cup {row} /\ lastId + 1 \in Nat
    BY <1>2, <2>1 DEF DrawAndCommit, Entry, TableInv
  <2> HIDE DEF row
  <2>3. IsFiniteSet(rows')
    BY <2>2, FS_AddElement DEF TableInv
  <2> QED BY <1>2, <2>2, <2>3 DEF DrawAndCommit, TableInv, Entry, Inserted
<1>3. ASSUME NEW h \in Handlers, Lose(h), table' = table
      PROVE  TableInv' /\ rows \subseteq rows'
  BY <1>3 DEF Lose, TableInv, Entry, Inserted
<1>4. ASSUME Tick, table' = table PROVE TableInv' /\ rows \subseteq rows'
  BY <1>4 DEF Tick, TableInv, Entry, Inserted
<1>5. CASE UNCHANGED <<tableVars, table>>
  BY <1>5 DEF tableVars, TableInv, Entry, Inserted
<1>6. CASE Table
  <2>1. table' = table /\ \/ \E h \in Handlers : \/ \E body \in Inserted : Begin(h, body)
                                               \/ DrawAndCommit(h) \/ Lose(h)
                          \/ Tick
    BY <1>6 DEF Table
  <2>2. CASE \E h \in Handlers : \/ \E body \in Inserted : Begin(h, body)
                                 \/ DrawAndCommit(h) \/ Lose(h)
    <3>0. PICK h \in Handlers : \/ \E body \in Inserted : Begin(h, body)
                               \/ DrawAndCommit(h) \/ Lose(h)
      BY <2>2
    <3>1. CASE \E body \in Inserted : Begin(h, body)
      <4>1. PICK body \in Inserted : Begin(h, body)
        BY <3>1
      <4> QED BY <1>1, <2>1, <4>1
    <3>2. CASE DrawAndCommit(h)
      BY <1>2, <2>1, <3>2
    <3>3. CASE Lose(h)
      BY <1>3, <2>1, <3>3
    <3> QED BY <3>0, <3>1, <3>2, <3>3
  <2>3. CASE Tick
    BY <1>4, <2>1, <2>3
  <2> QED BY <2>1, <2>2, <2>3
<1>7. Table \/ UNCHANGED <<tableVars, table>>
  BY DEF Next, StartScan, FetchRows, FetchCount, CountFails, PageFails, ExportCsv, EndScan,
         ReadStrip, LeaveStrip, vars, tableVars
<1> QED BY <1>5, <1>6, <1>7

LEMMA TableInductive == Spec => []TableInv
<1>1. Init => TableInv
  BY FS_EmptySet DEF Init, TableInit, TableInv
<1> QED BY <1>1, TableNext, PTL DEF Spec

-----------------------------------------------------------------------------
(* Places in a list.                                                       *)

\* The rows that come before r wherever rows with equal times are put, and
\* those of S that have their time for themselves.
Ahead(M, r, sort) == {o \in M : IF sort = "asc" THEN o.at < r.at ELSE o.at > r.at}
Single(S, M) == {r \in S : \A o \in M \ {r} : o.at # r.at}

\* A list: finitely many rows with times.
Listed(M) == IsFiniteSet(M) /\ \A r \in M : r.at \in Nat

LEMMA AheadFinite ==
    ASSUME NEW M, Listed(M), NEW r, NEW sort
    PROVE  Cardinality(Ahead(M, r, sort)) \in Nat /\ IsFiniteSet(Ahead(M, r, sort))
<1>1. Ahead(M, r, sort) \subseteq M
  BY DEF Ahead
<1> QED BY <1>1, FS_Subset, FS_CardinalityType DEF Listed

\* A row does not move up.
LEMMA AheadGrows ==
    ASSUME NEW M, NEW N, Listed(N), M \subseteq N, NEW r, NEW sort
    PROVE  Cardinality(Ahead(M, r, sort)) <= Cardinality(Ahead(N, r, sort))
<1>1. Ahead(M, r, sort) \in SUBSET Ahead(N, r, sort)
  BY DEF Ahead
<1> QED BY <1>1, AheadFinite, FS_Subset

LEMMA SingleShrinks ==
    ASSUME NEW S, NEW T, NEW M, NEW N, S \subseteq T, M \subseteq N
    PROVE  Single(S, N) \subseteq Single(T, M)
  BY DEF Single

LEMMA InOrderParts ==
    ASSUME NEW sort, NEW A, NEW B, InOrder(sort, A, B), NEW C, C \subseteq A, NEW D, D \subseteq B
    PROVE  InOrder(sort, C, D)
  BY DEF InOrder

\* What a page holds, of the rows that no other row is level with: those at
\* its places; and what it lacks of the places after its first comes after it.
LEMMA SliceHolds ==
    ASSUME NEW M, Listed(M), NEW sort, NEW offset \in Nat, NEW limit \in Nat,
           NEW S \in Slices(M, sort, offset, limit), NEW r \in Single(M, M),
           offset <= Cardinality(Ahead(M, r, sort))
    PROVE  /\ Cardinality(Ahead(M, r, sort)) < offset + limit => r \in S
           /\ r \notin S => InOrder(sort, S, {r})
<1> DEFINE A == Ahead(M, r, sort)
<1>1. S \in SUBSET M /\ r \in M
  BY DEF Slices, Single
<1>2. PICK before \in SUBSET (M \ S) :
         LET after == M \ (S \cup before) IN
         /\ InOrder(sort, before, S) /\ InOrder(sort, S, after) /\ InOrder(sort, before, after)
         /\ Cardinality(S) <= limit /\ (after = {} \/ Cardinality(S) = limit)
         /\ Cardinality(before) <= offset
         /\ Cardinality(before) = offset \/ (S = {} /\ after = {})
  BY DEF Slices
<1> DEFINE after == M \ (S \cup before)
<1>3. IsFiniteSet(before) /\ Cardinality(before) \in Nat /\ IsFiniteSet(S) /\ Cardinality(S) \in Nat
  BY <1>1, FS_Subset, FS_CardinalityType DEF Listed
<1>4. IsFiniteSet(A) /\ Cardinality(A) \in Nat
  BY AheadFinite
<1>5. r \notin before
  <2> SUFFICES ASSUME r \in before PROVE FALSE
    OBVIOUS
  <2>1. A \subseteq before \ {r}
    BY <1>1, <1>2 DEF InOrder, Ahead, Listed
  <2>2. IsFiniteSet(before \ {r}) /\ Cardinality(before \ {r}) = Cardinality(before) - 1
    BY <1>3, FS_RemoveElement
  <2> HIDE DEF A
  <2>3. Cardinality(A) <= Cardinality(before) - 1
    BY <2>1, <2>2, FS_Subset
  <2> QED BY <1>2, <1>3, <1>4, <2>3 DEF A
<1>6. r \in after => offset + limit <= Cardinality(A) /\ InOrder(sort, S, {r})
  <2> SUFFICES ASSUME r \in after PROVE offset + limit <= Cardinality(A) /\ InOrder(sort, S, {r})
    OBVIOUS
  <2>1. Cardinality(before) = offset /\ Cardinality(S) = limit /\ InOrder(sort, S, {r})
    BY <1>2 DEF InOrder
  <2>2. before \cup S \subseteq A
    BY <1>1, <1>2 DEF InOrder, Ahead, Listed, Single
  <2>3. IsFiniteSet(before \cap S) /\ Cardinality(before \cap S) = 0
    <3>1. before \cap S = {}
      OBVIOUS
    <3> QED BY <3>1, FS_EmptySet
  <2>4. Cardinality(before \cup S) = offset + limit
    BY <1>3, <2>1, <2>3, FS_Union
  <2> HIDE DEF A
  <2>5. Cardinality(before \cup S) <= Cardinality(A)
    BY <1>4, <2>2, FS_Subset
  <2> QED BY <2>1, <2>4, <2>5
<1>7. r \in S \/ r \in after
  BY <1>1, <1>5
<1> HIDE DEF A, after
<1> QED BY <1>4, <1>6, <1>7 DEF A

\* Rows that all come after the first n are no more than those after the first n.
LEMMA LateOnes ==
    ASSUME NEW M, Listed(M), NEW sort, NEW n \in Nat, NEW Z, Z \subseteq M, Z # {},
           \A r \in Z : Cardinality(Ahead(M, r, sort)) >= n
    PROVE  n + Cardinality(Z) <= Cardinality(M)
<1> DEFINE Level(p, q) == IF sort = "asc" THEN p.at <= q.at ELSE p.at >= q.at
           G == {s \in SUBSET M : s # {} => \E p \in s : \A q \in s : Level(p, q)}
<1>1. ASSUME NEW s \in SUBSET M, \A U \in (SUBSET s) \ {s} : U \in G
      PROVE  s \in G
  <2> SUFFICES ASSUME s # {} PROVE \E p \in s : \A q \in s : Level(p, q)
    OBVIOUS
  <2>1. PICK x \in s : TRUE
    OBVIOUS
  <2> DEFINE R == s \ {x}
  <2>2. R \in G /\ x.at \in Nat /\ \A q \in R : q.at \in Nat
    BY <1>1, <2>1 DEF Listed
  <2>3. CASE R = {}
    BY <2>1, <2>2, <2>3
  <2>4. CASE R # {}
    <3>1. PICK m \in R : \A q \in R : Level(m, q)
      BY <2>2, <2>4
    <3>2. CASE Level(m, x)
      BY <3>1, <3>2
    <3>3. CASE Level(x, m)
      BY <2>1, <2>2, <3>1, <3>3
    <3> QED BY <2>2, <3>1, <3>2, <3>3
  <2> QED BY <2>3, <2>4
<1>2. SUBSET M \subseteq G
  <2> HIDE DEF G
  <2> QED BY <1>1, SubsetInduction DEF Listed
<1>3. PICK z \in Z : \A q \in Z : Level(z, q)
  BY <1>2
<1> DEFINE A == Ahead(M, z, sort)
<1>4. A \cap Z = {} /\ A \cup Z \subseteq M
  BY <1>3 DEF Ahead, Listed
<1>5. Cardinality(A) >= n
  BY <1>3
<1> HIDE DEF A
<1>6. IsFiniteSet(A) /\ IsFiniteSet(Z) /\ Cardinality(A) \in Nat /\ Cardinality(Z) \in Nat
      /\ Cardinality(M) \in Nat
  BY <1>4, FS_Subset, FS_CardinalityType DEF Listed
<1>7. Cardinality(A \cup Z) = Cardinality(A) + Cardinality(Z)
  <2>1. Cardinality(A \cap Z) = 0
    BY <1>4, FS_EmptySet
  <2>2. Cardinality(A \cup Z) = Cardinality(A) + Cardinality(Z) - Cardinality(A \cap Z)
    BY <1>6, FS_Union
  <2> QED BY <1>6, <2>1, <2>2
<1>8. Cardinality(A \cup Z) <= Cardinality(M)
  BY <1>4, FS_Subset DEF Listed
<1> QED BY <1>5, <1>6, <1>7, <1>8

-----------------------------------------------------------------------------
(* An administrator going through the pages.                               *)

Match(R, f) == {r \in R : Matches(r, f)}

\* The rows present from the start that are among the first n have been seen.
Covered(present, seen, sort, M, n) ==
    \A r \in Single(present, M) : Cardinality(Ahead(M, r, sort)) < n => r \in seen
\* What has been missed comes after what has been seen.
Ordered(present, seen, sort, M) == InOrder(sort, Single(seen, M), Single(present \ seen, M))

LEMMA PageCovers ==
    ASSUME NEW M, Listed(M), NEW present, present \subseteq M, NEW seen, NEW sort,
           NEW n \in Nat, Covered(present, seen, sort, M, n), Ordered(present, seen, sort, M),
           NEW S \in Slices(M, sort, n, PageSize)
    PROVE  /\ Covered(present, seen \cup S, sort, M, n + PageSize)
           /\ Ordered(present, seen \cup S, sort, M)
<1>1. ASSUME NEW r \in Single(present, M), r \notin seen
      PROVE  n <= Cardinality(Ahead(M, r, sort)) /\ r \in Single(M, M)
  <2>1. ~(Cardinality(Ahead(M, r, sort)) < n)
    BY <1>1 DEF Covered
  <2>2. r \in Single(M, M)
    BY DEF Single
  <2> QED BY <2>1, <2>2, AheadFinite
<1>2. PageSize \in Nat
  BY SizesAssumption
<1>3. Covered(present, seen \cup S, sort, M, n + PageSize)
  BY <1>1, <1>2, SliceHolds DEF Covered
<1>4. ASSUME NEW q \in Single(present \ (seen \cup S), M), NEW p \in Single(seen \cup S, M)
      PROVE  InOrder(sort, {p}, {q})
  <2>1. q \in Single(present, M) /\ q \notin seen /\ q \notin S /\ q \in Single(present \ seen, M)
    BY DEF Single
  <2>2. CASE p \in S
    <3>1. InOrder(sort, S, {q})
      BY <1>1, <1>2, <2>1, SliceHolds
    <3> QED BY <2>2, <3>1 DEF InOrder
  <2>3. CASE p \in Single(seen, M)
    BY <2>1, <2>3 DEF Ordered, InOrder
  <2> QED BY <2>2, <2>3 DEF Single
<1> QED BY <1>3, <1>4 DEF Ordered, InOrder

\* The last page ends at the total or after it.
LEMMA LastPage ==
    ASSUME NEW total \in Nat, NEW page \in Nat, ~(page < TotalPages(total))
    PROVE  total <= page * PageSize
<1> DEFINE q == (total + PageSize - 1) \div PageSize
           m == (total + PageSize - 1) % PageSize
<1>1. PageSize \in Nat \ {0}
  BY SizesAssumption
<1>2. q \in Nat /\ m \in 0..(PageSize - 1) /\ total + PageSize - 1 = PageSize * q + m
  BY <1>1
<1>3. q <= page
  BY <1>2 DEF TotalPages
<1> HIDE DEF q, m
<1>4. PICK k \in Nat : page = q + k
  <2>1. page = q + (page - q) /\ page - q \in Nat
    BY <1>2, <1>3
  <2> QED BY <2>1
<1>5. page * PageSize = PageSize * q + PageSize * k /\ PageSize * q \in Nat /\ PageSize * k \in Nat
  BY <1>1, <1>2, <1>4
<1> QED BY <1>1, <1>2, <1>5

\* At the end at most the rows in excess of the total are missed.
LEMMA EndMisses ==
    ASSUME NEW M, Listed(M), NEW present, present \subseteq M, NEW seen, NEW sort,
           NEW total \in Nat, NEW gap \in Nat, Cardinality(M) = total + gap,
           NEW n \in Nat, total <= n, Covered(present, seen, sort, M, n)
    PROVE  Cardinality(Single(present \ seen, M)) <= gap /\ (gap = 0 => Single(present \ seen, M) = {})
<1> DEFINE Z == Single(present \ seen, M)
<1>1. ASSUME NEW r \in Z PROVE Cardinality(Ahead(M, r, sort)) >= total
  <2>1. r \in Single(present, M) /\ r \notin seen
    BY DEF Single
  <2>2. ~(Cardinality(Ahead(M, r, sort)) < n) /\ Cardinality(Ahead(M, r, sort)) \in Nat
    BY <2>1, AheadFinite DEF Covered
  <2> QED BY <2>2
<1>2. Z \subseteq M
  BY DEF Single
<1> HIDE DEF Z
<1>3. Cardinality(Z) \in Nat /\ (Cardinality(Z) = 0 <=> Z = {})
  BY <1>2, FS_Subset, FS_CardinalityType, FS_EmptySet DEF Listed
<1>4. Z # {} => total + Cardinality(Z) <= total + gap
  BY <1>1, <1>2, LateOnes
<1>5. Cardinality(Z) <= gap
  BY <1>3, <1>4
<1>6. gap = 0 => Z = {}
  BY <1>3, <1>5
<1> QED BY <1>5, <1>6 DEF Z

\* The list grows.
LEMMA GrowthCovers ==
    ASSUME NEW M, NEW N, Listed(N), M \subseteq N, NEW present, NEW seen, NEW sort
    PROVE  /\ \A n \in Nat : Covered(present, seen, sort, M, n) => Covered(present, seen, sort, N, n)
           /\ Ordered(present, seen, sort, M) => Ordered(present, seen, sort, N)
<1>1. Listed(M)
  BY FS_Subset DEF Listed
<1>2. ASSUME NEW n \in Nat, Covered(present, seen, sort, M, n)
      PROVE  Covered(present, seen, sort, N, n)
  <2> SUFFICES ASSUME NEW r \in Single(present, N), Cardinality(Ahead(N, r, sort)) < n PROVE r \in seen
    BY DEF Covered
  <2>1. r \in Single(present, M)
    BY SingleShrinks
  <2>2. /\ Cardinality(Ahead(M, r, sort)) <= Cardinality(Ahead(N, r, sort))
        /\ Cardinality(Ahead(M, r, sort)) \in Nat /\ Cardinality(Ahead(N, r, sort)) \in Nat
    BY <1>1, AheadGrows, AheadFinite
  <2>3. Cardinality(Ahead(M, r, sort)) < n
    BY <2>2
  <2> QED BY <1>2, <2>1, <2>3 DEF Covered
<1>3. ASSUME Ordered(present, seen, sort, M) PROVE Ordered(present, seen, sort, N)
  <2>1. /\ Single(seen, N) \subseteq Single(seen, M)
        /\ Single(present \ seen, N) \subseteq Single(present \ seen, M)
    BY DEF Single
  <2> QED BY <1>3, <2>1, InOrderParts DEF Ordered
<1> QED BY <1>2, <1>3

Fields == {"list", "filter", "sort", "at", "page", "total", "seen", "present", "gap", "cut", "file"}
Fetched(s) == IF s.at = "count" /\ ~CountFirst(s.list) THEN s.page * PageSize
              ELSE (s.page - 1) * PageSize
MissedFew(s, M) ==
    LET missed == Single(s.present \ s.seen, M) IN
    /\ Cardinality(missed) <= s.gap
    /\ ~CountFirst(s.list) => missed = {}
    /\ InOrder(s.sort, Single(s.seen, M), missed)
FileHas(s) == /\ Cardinality(s.file) <= ExportCap
              /\ Cardinality(s.file) < ExportCap => s.seen \subseteq s.file
              /\ InOrder(s.sort, s.file, s.seen \ s.file)

(* Why a reader misses so few: page by page, all that was present from the *)
(* start and stands before the next page has been seen.                    *)
Reader(s, M) ==
    /\ Fields \subseteq DOMAIN s
    /\ s.page \in Nat \ {0} /\ s.total \in Nat /\ s.gap \in Nat
    /\ s.present \subseteq M /\ s.seen \subseteq M
    /\ s.at \in {"rows", "count"} => /\ Covered(s.present, s.seen, s.sort, M, Fetched(s))
                                     /\ Ordered(s.present, s.seen, s.sort, M)
    /\ s.at = "rows" /\ CountFirst(s.list) => Cardinality(M) = s.total + s.gap
    /\ s.at = "read" /\ ~s.cut => MissedFew(s, M)
    /\ s.at = "exported" => FileHas(s)
    /\ s.at \in {"rows", "count", "read", "exported"}

ScanInv == scan # NoScan => Reader(scan, Match(rows, scan.filter))

LEMMA MatchListed ==
    ASSUME TableInv, NEW f
    PROVE  Listed(Match(rows, f)) /\ Matching(f) = Match(rows, f) /\ Cardinality(Match(rows, f)) \in Nat
<1>1. Match(rows, f) \in SUBSET rows
  BY DEF Match
<1> QED BY <1>1, FS_Subset, FS_CardinalityType DEF Listed, TableInv, Entry, Matching, Match

LEMMA FetchedPages ==
    ASSUME NEW page \in Nat \ {0}
    PROVE  /\ (page - 1) * PageSize \in Nat /\ page * PageSize \in Nat
           /\ (page - 1) * PageSize + PageSize = page * PageSize
<1>1. PageSize \in Nat
  BY SizesAssumption
<1>2. PICK k \in Nat : page = k + 1 /\ page - 1 = k
  <2>1. page = (page - 1) + 1 /\ page - 1 \in Nat
    OBVIOUS
  <2> QED BY <2>1
<1>3. k * PageSize \in Nat /\ (k + 1) * PageSize = k * PageSize + PageSize
  BY <1>1
<1> QED BY <1>1, <1>2, <1>3

LEMMA Settled ==
    ASSUME rows' = rows, NEW t, scan' = t, Reader(t, Match(rows, t.filter))
    PROVE  ScanInv'
  BY DEF ScanInv

LEMMA StartScanInv == ASSUME TableInv, StartScan PROVE ScanInv'
<1>1. PICK q \in Requests :
         scan' = [list |-> q[1], filter |-> q[2], sort |-> q[3], at |-> FirstQuery(q[1]),
                  page |-> 1, total |-> 0, seen |-> {}, present |-> Matching(q[2]), gap |-> 0,
                  cut |-> FALSE, file |-> {}]
  BY DEF StartScan
<1> DEFINE t == [list |-> q[1], filter |-> q[2], sort |-> q[3], at |-> FirstQuery(q[1]),
                 page |-> 1, total |-> 0, seen |-> {}, present |-> Matching(q[2]), gap |-> 0,
                 cut |-> FALSE, file |-> {}]
           M == Match(rows, t.filter)
<1>2. /\ Fields \subseteq DOMAIN t /\ t.page = 1 /\ t.total = 0 /\ t.gap = 0
      /\ t.seen = {} /\ t.present = M /\ t.at = FirstQuery(t.list)
  BY MatchListed DEF Fields
<1> HIDE DEF t
<1>3. PageSize \in Nat /\ 0 * PageSize = 0
  BY SizesAssumption
<1>4. Fetched(t) = 0
  BY <1>2, <1>3 DEF Fetched, FirstQuery
<1>5. Covered(t.present, t.seen, t.sort, M, Fetched(t))
  <2>1. Listed(M)
    BY MatchListed
  <2> HIDE DEF M
  <2>2. \A r : Cardinality(Ahead(M, r, t.sort)) \in Nat
    BY <2>1, AheadFinite
  <2> QED BY <1>4, <2>2 DEF Covered
<1>6. Ordered(t.present, t.seen, t.sort, M)
  BY <1>2 DEF Ordered, InOrder, Single
<1>7. Reader(t, M)
  BY <1>2, <1>5, <1>6 DEF Reader, FirstQuery
<1> QED BY <1>1, <1>7, Settled DEF t, StartScan, tableVars

\* What the next page or the end of the list makes of a reader who has
\* fetched this page and the total.
LEMMA OnwardInv ==
    ASSUME NEW s, NEW M, Listed(M), Fields \subseteq DOMAIN s,
           s.page \in Nat \ {0}, s.total \in Nat, s.gap \in Nat,
           s.present \subseteq M, s.seen \subseteq M,
           Covered(s.present, s.seen, s.sort, M, s.page * PageSize),
           Ordered(s.present, s.seen, s.sort, M),
           Cardinality(M) = s.total + s.gap, ~CountFirst(s.list) => s.gap = 0
    PROVE  Reader(Onward(s), M) /\ Onward(s).filter = s.filter
<1> DEFINE t == Onward(s)
<1>1. CASE s.page < TotalPages(s.total)
  <2>1. t = [s EXCEPT !.page = s.page + 1, !.at = FirstQuery(s.list)]
    BY <1>1 DEF Onward
  <2> HIDE DEF t
  <2>2. /\ DOMAIN t = DOMAIN s /\ t.page = s.page + 1 /\ t.at = FirstQuery(t.list)
        /\ t.list = s.list /\ t.filter = s.filter /\ t.sort = s.sort /\ t.total = s.total
        /\ t.seen = s.seen /\ t.present = s.present /\ t.gap = s.gap
    BY <2>1 DEF Fields
  <2>3. t.page \in Nat \ {0} /\ t.page - 1 = s.page
    BY <2>2
  <2>4. Fetched(t) = s.page * PageSize
    BY <2>2, <2>3 DEF Fetched, FirstQuery
  <2>5. ~(t.at = "rows" /\ CountFirst(t.list)) /\ t.at \in {"rows", "count"}
    BY <2>2 DEF FirstQuery
  <2> QED BY <2>2, <2>3, <2>4, <2>5 DEF Reader, t
<1>2. CASE ~(s.page < TotalPages(s.total))
  <2>1. t = [s EXCEPT !.at = "read"]
    BY <1>2 DEF Onward
  <2> HIDE DEF t
  <2>2. /\ DOMAIN t = DOMAIN s /\ t.page = s.page /\ t.at = "read"
        /\ t.list = s.list /\ t.filter = s.filter /\ t.sort = s.sort /\ t.total = s.total
        /\ t.seen = s.seen /\ t.present = s.present /\ t.gap = s.gap
    BY <2>1 DEF Fields
  <2>3. s.total <= s.page * PageSize /\ s.page * PageSize \in Nat
    BY <1>2, LastPage, FetchedPages
  <2>4. /\ Cardinality(Single(s.present \ s.seen, M)) <= s.gap
        /\ s.gap = 0 => Single(s.present \ s.seen, M) = {}
    BY <2>3, EndMisses
  <2>5. MissedFew(t, M)
    BY <2>2, <2>4 DEF MissedFew, Ordered
  <2> QED BY <2>2, <2>5 DEF Reader, t
<1> QED BY <1>1, <1>2

LEMMA FetchRowsInv == ASSUME TableInv, ScanInv, FetchRows PROVE ScanInv'
<1> DEFINE M == Match(rows, scan.filter)
<1>1. PICK S \in PageRows(scan.filter, scan.sort, scan.page) :
         LET s == [scan EXCEPT !.seen = @ \cup S] IN
         scan' = IF CountFirst(scan.list) THEN Onward(s) ELSE [s EXCEPT !.at = "count"]
  BY DEF FetchRows
<1>2. /\ Reader(scan, M) /\ scan.at = "rows" /\ Listed(M) /\ rows' = rows
      /\ S \in Slices(M, scan.sort, (scan.page - 1) * PageSize, PageSize)
  BY MatchListed DEF FetchRows, ScanInv, tableVars, PageRows
<1> DEFINE s == [scan EXCEPT !.seen = @ \cup S]
<1>3. /\ DOMAIN s = DOMAIN scan /\ s.page = scan.page /\ s.at = "rows" /\ s.seen = scan.seen \cup S
      /\ s.list = scan.list /\ s.filter = scan.filter /\ s.sort = scan.sort /\ s.total = scan.total
      /\ s.present = scan.present /\ s.gap = scan.gap
  BY <1>2 DEF Reader, Fields
<1>4. scan' = IF CountFirst(s.list) THEN Onward(s) ELSE [s EXCEPT !.at = "count"]
  BY <1>1, <1>3
<1> HIDE DEF s, M
<1>5. Fetched(scan) = (scan.page - 1) * PageSize
  BY <1>2 DEF Fetched
<1>6. (scan.page - 1) * PageSize \in Nat
      /\ (scan.page - 1) * PageSize + PageSize = scan.page * PageSize
  BY <1>2, FetchedPages DEF Reader
<1>7. /\ Covered(s.present, s.seen, s.sort, M, s.page * PageSize)
      /\ Ordered(s.present, s.seen, s.sort, M)
  <2>1. scan.present \subseteq M /\ Covered(scan.present, scan.seen, scan.sort, M, (scan.page - 1) * PageSize)
        /\ Ordered(scan.present, scan.seen, scan.sort, M)
    BY <1>2, <1>5 DEF Reader
  <2> DEFINE n == (scan.page - 1) * PageSize
  <2>2. n \in Nat /\ n + PageSize = scan.page * PageSize
    BY <1>6
  <2>3. S \in Slices(M, scan.sort, n, PageSize) /\ Covered(scan.present, scan.seen, scan.sort, M, n)
    BY <1>2, <2>1
  <2> HIDE DEF n
  <2>4. /\ Covered(scan.present, scan.seen \cup S, scan.sort, M, n + PageSize)
        /\ Ordered(scan.present, scan.seen \cup S, scan.sort, M)
    BY <1>2, <2>1, <2>2, <2>3, PageCovers
  <2> QED BY <1>3, <2>2, <2>4
<1>8. S \subseteq M
  BY <1>2 DEF Slices
<1>9. CASE CountFirst(s.list)
  <2>1. Reader(Onward(s), M) /\ Onward(s).filter = s.filter
    BY <1>2, <1>3, <1>7, <1>8, <1>9, OnwardInv DEF Reader
  <2> QED BY <1>2, <1>3, <1>4, <1>9, <2>1, Settled DEF M
<1>10. CASE ~CountFirst(s.list)
  <2> DEFINE t == [s EXCEPT !.at = "count"]
  <2>1. /\ DOMAIN t = DOMAIN s /\ t.page = s.page /\ t.at = "count"
        /\ t.list = s.list /\ t.filter = s.filter /\ t.sort = s.sort /\ t.total = s.total
        /\ t.seen = s.seen /\ t.present = s.present /\ t.gap = s.gap
    BY <1>2, <1>3 DEF Reader, Fields
  <2>2. scan' = t
    BY <1>4, <1>10
  <2> HIDE DEF t
  <2>3. Fetched(t) = s.page * PageSize
    BY <1>10, <2>1 DEF Fetched
  <2>4. Reader(t, M)
    BY <1>2, <1>3, <1>7, <1>8, <2>1, <2>3 DEF Reader
  <2> QED BY <1>2, <1>3, <2>1, <2>2, <2>4, Settled DEF M
<1> QED BY <1>9, <1>10

LEMMA FetchCountInv == ASSUME TableInv, ScanInv, FetchCount PROVE ScanInv'
<1> DEFINE M == Match(rows, scan.filter)
           s == [scan EXCEPT !.total = Cardinality(Matching(scan.filter)), !.gap = 0]
<1>1. scan' = IF CountFirst(scan.list) THEN [s EXCEPT !.at = "rows"] ELSE Onward(s)
  BY DEF FetchCount
<1>2. Reader(scan, M) /\ scan.at = "count" /\ Listed(M) /\ Cardinality(M) \in Nat /\ rows' = rows
      /\ Cardinality(Matching(scan.filter)) = Cardinality(M)
  BY MatchListed DEF FetchCount, ScanInv, tableVars
<1>3. /\ DOMAIN s = DOMAIN scan /\ s.page = scan.page /\ s.at = "count" /\ s.seen = scan.seen
      /\ s.list = scan.list /\ s.filter = scan.filter /\ s.sort = scan.sort
      /\ s.total = Cardinality(M) /\ s.present = scan.present /\ s.gap = 0
  BY <1>2 DEF Reader, Fields
<1> HIDE DEF s, M
<1>4. Cardinality(M) = s.total + s.gap /\ s.total \in Nat
  BY <1>2, <1>3
<1>5. CASE CountFirst(scan.list)
  <2> DEFINE t == [s EXCEPT !.at = "rows"]
  <2>1. /\ DOMAIN t = DOMAIN s /\ t.page = s.page /\ t.at = "rows"
        /\ t.list = s.list /\ t.filter = s.filter /\ t.sort = s.sort /\ t.total = s.total
        /\ t.seen = s.seen /\ t.present = s.present /\ t.gap = s.gap
    BY <1>2, <1>3 DEF Reader, Fields
  <2>2. scan' = t
    BY <1>1, <1>5
  <2> HIDE DEF t
  <2>3. Fetched(t) = (scan.page - 1) * PageSize /\ Fetched(scan) = (scan.page - 1) * PageSize
    BY <1>2, <1>3, <1>5, <2>1 DEF Fetched
  <2>4. /\ Covered(t.present, t.seen, t.sort, M, Fetched(t))
        /\ Ordered(t.present, t.seen, t.sort, M)
    BY <1>2, <1>3, <2>1, <2>3 DEF Reader
  <2>5. /\ Fields \subseteq DOMAIN t /\ t.page \in Nat \ {0} /\ t.gap \in Nat /\ t.total \in Nat
        /\ t.present \subseteq M /\ t.seen \subseteq M /\ Cardinality(M) = t.total + t.gap
    <3>1. scan.page \in Nat \ {0} /\ Fields \subseteq DOMAIN scan
          /\ scan.present \subseteq M /\ scan.seen \subseteq M
      BY <1>2 DEF Reader
    <3>2. s.gap \in Nat
      BY <1>3
    <3> QED BY <1>3, <1>4, <2>1, <3>1, <3>2
  <2>6. Reader(t, M)
    BY <2>1, <2>4, <2>5 DEF Reader
  <2> QED BY <1>2, <1>3, <2>1, <2>2, <2>6, Settled DEF M
<1>6. CASE ~CountFirst(scan.list)
  <2>1. Fetched(scan) = scan.page * PageSize
    BY <1>2, <1>6 DEF Fetched
  <2>2. /\ Covered(s.present, s.seen, s.sort, M, s.page * PageSize)
        /\ Ordered(s.present, s.seen, s.sort, M)
    BY <1>2, <1>3, <2>1 DEF Reader
  <2>3. /\ Fields \subseteq DOMAIN s /\ s.page \in Nat \ {0} /\ s.gap \in Nat /\ s.gap = 0
        /\ s.present \subseteq M /\ s.seen \subseteq M
    BY <1>2, <1>3 DEF Reader
  <2>4. Reader(Onward(s), M) /\ Onward(s).filter = s.filter
    BY <1>2, <1>4, <2>2, <2>3, OnwardInv
  <2> QED BY <1>1, <1>2, <1>3, <1>6, <2>4, Settled DEF M
<1> QED BY <1>5, <1>6

LEMMA CountFailsInv == ASSUME TableInv, ScanInv, CountFails PROVE ScanInv'
<1> DEFINE M == Match(rows, scan.filter)
           t == [scan EXCEPT !.at = "read", !.total = 0, !.cut = TRUE]
<1>1. Reader(scan, M) /\ scan' = t /\ rows' = rows
  BY DEF CountFails, ScanInv, tableVars
<1>2. /\ DOMAIN t = DOMAIN scan /\ t.page = scan.page /\ t.at = "read" /\ t.seen = scan.seen
      /\ t.filter = scan.filter /\ t.total = 0 /\ t.present = scan.present /\ t.gap = scan.gap
      /\ t.cut
  BY <1>1 DEF Reader, Fields
<1> HIDE DEF t, M
<1>3. Reader(t, M)
  BY <1>1, <1>2 DEF Reader
<1> QED BY <1>1, <1>2, <1>3, Settled DEF M

LEMMA PageFailsInv == ASSUME TableInv, ScanInv, PageFails PROVE ScanInv'
<1> DEFINE M == Match(rows, scan.filter)
           t == [scan EXCEPT !.at = FirstQuery(scan.list)]
<1>1. Reader(scan, M) /\ scan' = t /\ rows' = rows
  BY DEF PageFails, ScanInv, tableVars
<1>2. /\ scan.at \in {"rows", "count"} /\ (CountFirst(scan.list) \/ scan.at = "rows")
  BY DEF PageFails
<1>3. /\ DOMAIN t = DOMAIN scan /\ t.page = scan.page /\ t.at = FirstQuery(t.list)
      /\ t.list = scan.list /\ t.filter = scan.filter /\ t.sort = scan.sort /\ t.total = scan.total
      /\ t.seen = scan.seen /\ t.present = scan.present /\ t.gap = scan.gap
  BY <1>1 DEF Reader, Fields
<1> HIDE DEF t, M
<1>4. Fetched(t) = Fetched(scan)
  BY <1>2, <1>3 DEF Fetched, FirstQuery
<1>5. ~(t.at = "rows" /\ CountFirst(t.list)) /\ t.at \in {"rows", "count"}
  BY <1>3 DEF FirstQuery
<1>6. Reader(t, M)
  BY <1>1, <1>2, <1>3, <1>4, <1>5 DEF Reader
<1> QED BY <1>1, <1>3, <1>6, Settled DEF M

LEMMA ExportInv == ASSUME TableInv, ScanInv, ExportCsv PROVE ScanInv'
<1> DEFINE M == Match(rows, scan.filter)
<1>1. PICK S \in Export(scan.filter, scan.sort) : scan' = [scan EXCEPT !.at = "exported", !.file = S]
  BY DEF ExportCsv
<1> DEFINE t == [scan EXCEPT !.at = "exported", !.file = S]
<1>2. Reader(scan, M) /\ scan' = t /\ rows' = rows /\ Listed(M)
      /\ S \in Slices(M, scan.sort, 0, ExportCap)
  BY <1>1, MatchListed DEF ExportCsv, ScanInv, tableVars, Export
<1>3. /\ DOMAIN t = DOMAIN scan /\ t.page = scan.page /\ t.at = "exported" /\ t.file = S
      /\ t.sort = scan.sort /\ t.filter = scan.filter /\ t.total = scan.total
      /\ t.seen = scan.seen /\ t.present = scan.present /\ t.gap = scan.gap
  BY <1>2 DEF Reader, Fields
<1> HIDE DEF t
<1>4. /\ S \subseteq M /\ Cardinality(S) <= ExportCap /\ InOrder(scan.sort, S, M \ S)
      /\ Cardinality(S) < ExportCap => S = M
  <2> HIDE DEF M
  <2>1. PICK before \in SUBSET (M \ S) :
           LET after == M \ (S \cup before) IN
           /\ InOrder(scan.sort, S, after)
           /\ Cardinality(S) <= ExportCap /\ (after = {} \/ Cardinality(S) = ExportCap)
           /\ Cardinality(before) <= 0
    BY <1>2 DEF Slices
  <2>2. before = {}
    BY <1>2, <2>1, FS_Subset, FS_CardinalityType, FS_EmptySet DEF Listed
  <2>3. S \in SUBSET M /\ M \ (S \cup before) = M \ S
    BY <1>2, <2>2 DEF Slices
  <2>4. Cardinality(S) = ExportCap => ~(Cardinality(S) < ExportCap)
    BY SizesAssumption
  <2> QED BY <2>1, <2>3, <2>4
<1>5. FileHas(t)
  BY <1>2, <1>3, <1>4 DEF FileHas, InOrder, Reader
<1>6. Reader(t, M)
  BY <1>2, <1>3, <1>5 DEF Reader
<1> QED BY <1>2, <1>3, <1>6, Settled

\* Rows come in between the requests.
LEMMA TableInvScan == ASSUME TableInv, TableInv', rows \subseteq rows', ScanInv, Table PROVE ScanInv'
<1>1. CASE scan = NoScan \/ scan.at = "exported"
  BY <1>1 DEF Table, ScanInv
<1>2. CASE ~(scan = NoScan \/ scan.at = "exported")
  <2> DEFINE f == scan.filter
             M == Match(rows, f)
             N == Match(rows', f)
             more == Cardinality({r \in rows' \ rows : Matches(r, f)})
             t == IF scan.at = "rows" THEN [scan EXCEPT !.gap = @ + more] ELSE scan
  <2>1. scan' = t
    BY <1>2 DEF Table
  <2>2. Reader(scan, M) /\ Listed(M)
    BY <1>2, MatchListed DEF ScanInv
  <2>3. Listed(N)
    <3>1. N \in SUBSET rows'
      BY DEF Match
    <3>2. IsFiniteSet(rows') /\ \A r \in rows' : r.at \in Nat
      BY DEF TableInv, Entry
    <3> HIDE DEF N
    <3> QED BY <3>1, <3>2, FS_Subset DEF Listed
  <2>4. M \subseteq N /\ {r \in rows' \ rows : Matches(r, f)} = N \ M
    BY DEF Match
  <2>5. more \in Nat /\ Cardinality(N) = Cardinality(M) + more
    <3>0. more = Cardinality(N \ M)
      BY <2>4
    <3> HIDE DEF M, N, more
    <3>1. IsFiniteSet(M) /\ IsFiniteSet(N \ M) /\ M \cup (N \ M) = N /\ M \cap (N \ M) = {}
      BY <2>2, <2>3, <2>4, FS_Subset DEF Listed
    <3>2. Cardinality(M \cup (N \ M)) = Cardinality(M) + Cardinality(N \ M) - Cardinality(M \cap (N \ M))
      BY <3>1, FS_Union
    <3>3. Cardinality(M \cap (N \ M)) = 0 /\ Cardinality(M) \in Nat /\ Cardinality(N \ M) \in Nat
      BY <3>1, FS_EmptySet, FS_CardinalityType
    <3>4. Cardinality(M \cup (N \ M)) = Cardinality(N)
      BY <3>1
    <3>5. Cardinality(N) = Cardinality(M) + Cardinality(N \ M)
      BY <3>2, <3>3, <3>4
    <3> QED BY <3>0, <3>3, <3>5
  <2> HIDE DEF M, N, more
  <2>6. /\ DOMAIN t = DOMAIN scan /\ t.page = scan.page /\ t.at = scan.at /\ t.seen = scan.seen
        /\ t.list = scan.list /\ t.filter = scan.filter /\ t.sort = scan.sort /\ t.total = scan.total
        /\ t.present = scan.present /\ t.cut = scan.cut
        /\ t.gap = IF scan.at = "rows" THEN scan.gap + more ELSE scan.gap
    BY <2>2 DEF Reader, Fields
  <2> HIDE DEF t
  <2>7. t.at \in {"rows", "count"} => /\ Covered(t.present, t.seen, t.sort, N, Fetched(t))
                                      /\ Ordered(t.present, t.seen, t.sort, N)
    <3>1. Fetched(t) = Fetched(scan) /\ Fetched(scan) \in Nat
      BY <2>2, <2>6, FetchedPages DEF Fetched, Reader
    <3> QED BY <2>2, <2>3, <2>4, <2>6, <3>1, GrowthCovers DEF Reader
  <2>8. t.at = "read" /\ ~t.cut => MissedFew(t, N)
    <3> SUFFICES ASSUME scan.at = "read", ~scan.cut PROVE MissedFew(t, N)
      BY <2>6
    <3>1. MissedFew(scan, M) /\ t.gap = scan.gap /\ t.gap \in Nat
      BY <2>2, <2>6 DEF Reader
    <3> DEFINE A == Single(scan.present \ scan.seen, M)
               B == Single(scan.present \ scan.seen, N)
    <3>2. B \subseteq A /\ Single(scan.seen, N) \subseteq Single(scan.seen, M) /\ A \subseteq M
      BY <2>2, <2>4, SingleShrinks DEF Single, Reader
    <3>3. Cardinality(A) <= t.gap /\ (~CountFirst(scan.list) => A = {})
          /\ InOrder(scan.sort, Single(scan.seen, M), A)
      BY <3>1 DEF MissedFew
    <3> HIDE DEF A, B
    <3>4. IsFiniteSet(A)
      BY <2>2, <3>2, FS_Subset DEF Listed
    <3>5. Cardinality(B) <= Cardinality(A) /\ Cardinality(B) \in Nat /\ Cardinality(A) \in Nat
      BY <3>2, <3>4, FS_Subset, FS_CardinalityType
    <3>6. InOrder(scan.sort, Single(scan.seen, N), B)
      BY <3>2, <3>3, InOrderParts
    <3>7. Cardinality(B) <= t.gap
      BY <3>1, <3>3, <3>5
    <3> QED BY <2>6, <3>2, <3>3, <3>6, <3>7 DEF MissedFew, B
  <2>9. Reader(t, N)
    <3>1. t.gap \in Nat /\ (t.at = "rows" /\ CountFirst(t.list) => Cardinality(N) = t.total + t.gap)
      <4>1. Cardinality(M) \in Nat
        BY <2>2, FS_CardinalityType DEF Listed
      <4> QED BY <2>2, <2>5, <2>6, <4>1 DEF Reader
    <3> QED BY <1>2, <2>2, <2>4, <2>6, <2>7, <2>8, <3>1 DEF Reader
  <2> QED BY <2>1, <2>6, <2>9 DEF ScanInv, N
<1> QED BY <1>1, <1>2

LEMMA NextScanInv == TableInv /\ ScanInv /\ [Next]_vars => ScanInv'
<1> SUFFICES ASSUME TableInv, ScanInv, [Next]_vars PROVE ScanInv'
  OBVIOUS
<1>1. TableInv' /\ rows \subseteq rows'
  BY TableNext
<1>2. CASE UNCHANGED <<rows, scan>>
  BY <1>2 DEF ScanInv
<1>3. CASE EndScan
  BY <1>3 DEF EndScan, ScanInv
<1> QED BY <1>1, <1>2, <1>3, TableInvScan, StartScanInv, FetchRowsInv, FetchCountInv, CountFailsInv,
           PageFailsInv, ExportInv DEF Next, ReadStrip, LeaveStrip, vars, tableVars

LEMMA ScanInductive == Spec => [](TableInv /\ ScanInv)
<1>1. Init => ScanInv
  BY DEF Init, ScanInv
<1> QED BY <1>1, TableInductive, NextScanInv, PTL DEF Spec

\* Who reads a list to its last page has seen every row that was there from
\* the start, but for as many as committed between a total and its page.
THEOREM PagesMissFew == Spec => []ScanMissesFew
<1>1. TableInv /\ ScanInv => ScanMissesFew
  <2> SUFFICES ASSUME TableInv, ScanInv, scan # NoScan, scan.at = "read", ~scan.cut
               PROVE  LET missed == Untied(scan.present \ scan.seen, scan.filter) IN
                      /\ Cardinality(missed) <= scan.gap
                      /\ ~CountFirst(scan.list) => missed = {}
                      /\ InOrder(scan.sort, Untied(scan.seen, scan.filter), missed)
    BY DEF ScanMissesFew
  <2>1. MissedFew(scan, Matching(scan.filter))
    BY MatchListed DEF ScanInv, Reader
  <2> QED BY <2>1 DEF MissedFew, Untied, Single
<1> QED BY <1>1, ScanInductive, PTL

\* The file has what was on the screen; at the cap it lacks the end.
THEOREM ExportHasScreen == Spec => []FileHasScreen
<1>1. TableInv /\ ScanInv => FileHasScreen
  BY DEF ScanInv, Reader, FileHas, FileHasScreen
<1> QED BY <1>1, ScanInductive, PTL

-----------------------------------------------------------------------------
(* The summary strip.                                                      *)

Litres(R) == SumFunction([r \in R |-> r.body.quantity])
Counted(R, s) == {r \in R : r.body.status = s}
StripOf(t, R) == /\ \A s \in {"success", "partial", "failure"} : t[s] = Cardinality(Counted(R, s))
                 /\ t.quantity = Litres(Counted(R, "success") \cup Counted(R, "partial"))
\* A list gone through with the strip, read of R, on the screen.
Behind(s, R, T) ==
    /\ CountFirst(s.list) /\ ~s.cut
    /\ Match(R, s.filter) \subseteq s.present
    /\ s.at = "rows" => /\ Cardinality(Match(R, s.filter)) <= s.total
                        /\ s.total <= Cardinality(Match(T, s.filter))
StripInv ==
    strip # NoStrip =>
        /\ table = "bulk_milk" /\ {"totals", "since"} \subseteq DOMAIN strip
        /\ \E R \in SUBSET rows : /\ StripOf(strip.totals, R)
                                  /\ strip.since = Cardinality(rows \ R)
                                  /\ scan # NoScan => Behind(scan, R, rows)

LEMMA OnwardKeeps ==
    ASSUME NEW s, Fields \subseteq DOMAIN s, CountFirst(s.list)
    PROVE  /\ Onward(s).list = s.list /\ Onward(s).filter = s.filter /\ Onward(s).present = s.present
           /\ Onward(s).cut = s.cut /\ Onward(s).at # "rows"
  BY DEF Onward, Fields, FirstQuery

\* The reader's steps.
LEMMA ReaderBehind ==
    ASSUME TableInv, ScanInv, table = "bulk_milk", NEW R \in SUBSET rows,
           scan # NoScan => Behind(scan, R, rows),
           StartScan \/ FetchRows \/ FetchCount \/ CountFails \/ PageFails \/ ExportCsv \/ EndScan
    PROVE  scan' # NoScan => Behind(scan', R, rows)
<1>1. scan # NoScan => Fields \subseteq DOMAIN scan /\ CountFirst(scan.list) /\ ~scan.cut
                       /\ Match(R, scan.filter) \subseteq scan.present
  BY DEF ScanInv, Reader, Behind
<1>2. CASE StartScan
  <2>1. PICK q \in Requests :
           scan' = [list |-> q[1], filter |-> q[2], sort |-> q[3], at |-> FirstQuery(q[1]),
                    page |-> 1, total |-> 0, seen |-> {}, present |-> Matching(q[2]), gap |-> 0,
                    cut |-> FALSE, file |-> {}]
    BY <1>2 DEF StartScan
  <2>2. q[1] = "/bulk-milk-log"
    BY DEF Requests
  <2>3. Match(R, q[2]) \subseteq Matching(q[2])
    BY DEF Match, Matching
  <2> QED BY <2>1, <2>2, <2>3 DEF Behind, CountFirst, FirstQuery
<1>3. CASE FetchRows
  <2>1. PICK S : scan' = IF CountFirst(scan.list) THEN Onward([scan EXCEPT !.seen = @ \cup S])
                         ELSE [[scan EXCEPT !.seen = @ \cup S] EXCEPT !.at = "count"]
    BY <1>3 DEF FetchRows
  <2> DEFINE s == [scan EXCEPT !.seen = @ \cup S]
  <2>2. scan # NoScan
    BY <1>3 DEF FetchRows
  <2>3. /\ Fields \subseteq DOMAIN s /\ s.list = scan.list /\ s.filter = scan.filter
        /\ s.present = scan.present /\ s.cut = scan.cut
    BY <1>1, <2>2 DEF Fields
  <2>4. scan' = Onward(s)
    BY <1>1, <2>1, <2>2
  <2> HIDE DEF s
  <2> QED BY <1>1, <2>2, <2>3, <2>4, OnwardKeeps DEF Behind
<1>4. CASE FetchCount
  <2> DEFINE n == Cardinality(Matching(scan.filter))
             s == [scan EXCEPT !.total = n, !.gap = 0]
             t == [s EXCEPT !.at = "rows"]
  <2>1. scan # NoScan /\ scan' = t
    BY <1>1, <1>4 DEF FetchCount
  <2>2. /\ t.list = scan.list /\ t.filter = scan.filter /\ t.total = n
        /\ t.present = scan.present /\ t.cut = scan.cut
    BY <1>1, <2>1 DEF Fields
  <2>3. n = Cardinality(Match(rows, t.filter)) /\ n \in Nat
    BY <2>2, MatchListed
  <2>4. Cardinality(Match(R, t.filter)) <= Cardinality(Match(rows, t.filter))
    <3>1. Match(R, t.filter) \in SUBSET Match(rows, t.filter)
      BY DEF Match
    <3>2. IsFiniteSet(Match(rows, t.filter))
      BY MatchListed DEF Listed
    <3> HIDE DEF t
    <3> QED BY <3>1, <3>2, FS_Subset
  <2> HIDE DEF n, t
  <2> QED BY <1>1, <2>1, <2>2, <2>3, <2>4 DEF Behind
<1>5. CASE CountFails
  BY <1>1, <1>5 DEF CountFails
<1>6. CASE PageFails
  BY <1>1, <1>6 DEF PageFails, Behind, Fields, FirstQuery
<1>7. CASE ExportCsv
  BY <1>1, <1>7 DEF ExportCsv, Behind, Fields
<1>8. CASE EndScan
  BY <1>8 DEF EndScan
<1> QED BY <1>2, <1>3, <1>4, <1>5, <1>6, <1>7, <1>8

LEMMA ReadStripInv == ASSUME TableInv, ReadStrip PROVE StripInv'
<1> DEFINE t == [totals |-> StripTotals, since |-> 0]
<1>1. scan' = NoScan /\ strip' = t /\ rows' = rows /\ table' = "bulk_milk"
  BY DEF ReadStrip, tableVars
<1>2. t.since = Cardinality(rows \ rows) /\ {"totals", "since"} \subseteq DOMAIN t
  BY FS_EmptySet
<1>3. StripOf(t.totals, rows)
  BY DEF StripOf, StripTotals, Counted, WithStatus, Litres
<1> HIDE DEF t
<1> QED BY <1>1, <1>2, <1>3 DEF StripInv

LEMMA TableInvStrip ==
    ASSUME TableInv, TableInv', rows \subseteq rows', ScanInv, StripInv, Table
    PROVE  StripInv'
<1> SUFFICES ASSUME strip # NoStrip PROVE StripInv'
  BY DEF Table, StripInv
<1> DEFINE t == [strip EXCEPT !.since = @ + Cardinality(rows' \ rows)]
<1>1. PICK R \in SUBSET rows : /\ StripOf(strip.totals, R)
                               /\ strip.since = Cardinality(rows \ R)
                               /\ scan # NoScan => Behind(scan, R, rows)
  BY DEF StripInv
<1>2. strip' = t /\ table' = table /\ table = "bulk_milk" /\ {"totals", "since"} \subseteq DOMAIN strip
  BY DEF Table, StripInv
<1>3. DOMAIN t = DOMAIN strip /\ t.totals = strip.totals
      /\ t.since = Cardinality(rows \ R) + Cardinality(rows' \ rows)
  BY <1>1, <1>2
<1>4. Cardinality(rows' \ R) = Cardinality(rows \ R) + Cardinality(rows' \ rows)
  <2> DEFINE A == rows \ R
             B == rows' \ rows
  <2>1. rows' \ R = A \cup B /\ A \cap B = {}
    OBVIOUS
  <2>2. IsFiniteSet(A) /\ IsFiniteSet(B)
    BY FS_Subset DEF TableInv
  <2> HIDE DEF A, B
  <2>3. Cardinality(A \cup B) = Cardinality(A) + Cardinality(B) - Cardinality(A \cap B)
    BY <2>2, FS_Union
  <2>4. Cardinality(A \cap B) = 0
    BY <2>1, FS_EmptySet
  <2>5. Cardinality(A) \in Nat /\ Cardinality(B) \in Nat
    BY <2>2, FS_CardinalityType
  <2>6. Cardinality(A \cup B) = Cardinality(A) + Cardinality(B)
    BY <2>3, <2>4, <2>5
  <2>7. Cardinality(rows' \ R) = Cardinality(A \cup B)
    BY <2>1
  <2> QED BY <2>6, <2>7 DEF A, B
<1>5. scan' # NoScan => Behind(scan', R, rows')
  <2> SUFFICES ASSUME scan' # NoScan PROVE Behind(scan', R, rows')
    OBVIOUS
  <2>1. scan # NoScan /\ Behind(scan, R, rows) /\ Fields \subseteq DOMAIN scan /\ scan.total \in Nat
    BY <1>1 DEF Table, ScanInv, Reader
  <2>2. /\ scan'.list = scan.list /\ scan'.cut = scan.cut /\ scan'.filter = scan.filter
        /\ scan'.present = scan.present /\ scan'.at = scan.at /\ scan'.total = scan.total
    BY <2>1 DEF Table, Fields
  <2>3. Cardinality(Match(rows, scan.filter)) <= Cardinality(Match(rows', scan.filter))
        /\ Cardinality(Match(rows, scan.filter)) \in Nat /\ Cardinality(Match(rows', scan.filter)) \in Nat
    <3>1. Match(rows, scan.filter) \in SUBSET Match(rows', scan.filter)
          /\ Match(rows', scan.filter) \in SUBSET rows'
      BY DEF Match
    <3>2. IsFiniteSet(Match(rows', scan.filter))
      BY <3>1, FS_Subset DEF TableInv
    <3> QED BY <3>1, <3>2, FS_Subset, FS_CardinalityType
  <2>4. scan.at = "rows" => /\ Cardinality(Match(R, scan.filter)) <= scan.total
                            /\ scan.total <= Cardinality(Match(rows', scan.filter))
    BY <2>1, <2>3 DEF Behind
  <2> QED BY <2>1, <2>2, <2>4 DEF Behind
<1> HIDE DEF t
<1>6. R \in SUBSET rows'
  OBVIOUS
<1> QED BY <1>1, <1>2, <1>3, <1>4, <1>5, <1>6 DEF StripInv

LEMMA NextStripInv == TableInv /\ ScanInv /\ StripInv /\ [Next]_vars => StripInv'
<1> SUFFICES ASSUME TableInv, ScanInv, StripInv, [Next]_vars PROVE StripInv'
  OBVIOUS
<1>1. CASE StartScan \/ FetchRows \/ FetchCount \/ CountFails \/ PageFails \/ ExportCsv \/ EndScan
  <2>1. rows' = rows /\ strip' = strip /\ table' = table
    BY <1>1 DEF StartScan, FetchRows, FetchCount, CountFails, PageFails, ExportCsv, EndScan, tableVars
  <2>2. CASE strip = NoStrip
    BY <2>1, <2>2 DEF StripInv
  <2>3. CASE strip # NoStrip
    <3>1. PICK R \in SUBSET rows : /\ StripOf(strip.totals, R)
                                   /\ strip.since = Cardinality(rows \ R)
                                   /\ scan # NoScan => Behind(scan, R, rows)
      BY <2>3 DEF StripInv
    <3>2. table = "bulk_milk"
      BY <2>3 DEF StripInv
    <3>3. scan' # NoScan => Behind(scan', R, rows)
      BY <1>1, <3>1, <3>2, ReaderBehind
    <3> QED BY <2>1, <2>3, <3>1, <3>3 DEF StripInv
  <2> QED BY <2>2, <2>3
<1>2. CASE LeaveStrip
  BY <1>2 DEF LeaveStrip, StripInv
<1>3. CASE UNCHANGED vars
  BY <1>3 DEF vars, StripInv
<1>4. TableInv' /\ rows \subseteq rows'
  BY TableNext
<1> QED BY <1>1, <1>2, <1>3, <1>4, ReadStripInv, TableInvStrip DEF Next

LEMMA StripInductive == Spec => [](TableInv /\ ScanInv /\ StripInv)
<1>1. Init => StripInv
  BY DEF Init, StripInv
<1> QED BY <1>1, ScanInductive, NextStripInv, PTL DEF Spec

\* More rows, no fewer litres.
LEMMA LitresGrow ==
    ASSUME NEW B, IsFiniteSet(B), \A r \in B : r.body.quantity \in Nat, NEW A \in SUBSET B
    PROVE  Litres(A) <= Litres(B)
<1> DEFINE f == [r \in B |-> r.body.quantity]
           g == [r \in A |-> r.body.quantity]
<1>1. (\A r \in B : f[r] \in Nat) /\ (\A r \in A : g[r] \in Nat /\ g[r] = f[r])
      /\ DOMAIN f = B /\ DOMAIN g = A
  OBVIOUS
<1>2. Litres(B) = SumFunctionOnSet(f, B) /\ Litres(A) = SumFunctionOnSet(g, A)
  BY <1>1 DEF Litres, SumFunction
<1> HIDE DEF f, g
<1>3. SumFunctionOnSet(f, A) <= SumFunctionOnSet(f, B)
  BY <1>1, SumPart
<1>4. SumFunctionOnSet(g, A) = SumFunctionOnSet(f, A)
  BY <1>1, FS_Subset, SumSame
<1> QED BY <1>2, <1>3, <1>4

\* What a submission stores is a quantity.
LEMMA QuantityStored ==
    ASSUME NEW p \in Sent
    PROVE  SubmissionOf(p).quantity \in Nat
<1>1. TotalQuantity(p) \in Nat
  <2>1. CASE p.records = NoRecords
    BY <2>1 DEF TotalQuantity
  <2>2. CASE p.records # NoRecords
    <3>1. /\ DOMAIN p.records = 1..Len(p.records) /\ Len(p.records) \in Nat
          /\ \A i \in DOMAIN p.records : p.records[i] \in Nat
      BY <2>2, QuantityAssumption
    <3>2. IsFiniteSet(DOMAIN p.records)
      BY <3>1, FS_Interval
    <3>3. SumFunctionOnSet(p.records, DOMAIN p.records) \in Nat
      BY <3>1, <3>2, SumNat
    <3> QED BY <2>2, <3>3 DEF TotalQuantity, SumFunction
  <2> QED BY <2>1, <2>2
<1> QED BY <1>1 DEF SubmissionOf

\* A count of the strip and the list behind it agree, and its litres are
\* litres of rows the list shows.
THEOREM StripAndList == Spec => []StripAgrees
<1>1. TableInv /\ ScanInv /\ StripInv => StripAgrees
  <2> SUFFICES ASSUME TableInv, ScanInv, StripInv, scan # NoScan, strip # NoStrip PROVE StripAgrees
    BY DEF StripAgrees
  <2>1. PICK R \in SUBSET rows : /\ StripOf(strip.totals, R)
                                 /\ strip.since = Cardinality(rows \ R)
                                 /\ Behind(scan, R, rows)
    BY DEF StripInv
  <2>2. table = "bulk_milk" /\ Reader(scan, Match(rows, scan.filter))
    BY DEF StripInv, ScanInv
  <2>3. ASSUME NEW s \in {"success", "partial", "failure"},
               scan.filter = [eq |-> [status |-> s], from |-> Open, to |-> Open], scan.at = "rows"
        PROVE  strip.totals[s] <= scan.total /\ scan.total <= strip.totals[s] + strip.since
    <3>1. \A T : Match(T, scan.filter) = Counted(T, s)
      BY <2>3 DEF Match, Matches, IsLimit, Counted
    <3>2. Cardinality(Counted(R, s)) <= scan.total /\ scan.total <= Cardinality(Counted(rows, s))
      BY <2>1, <2>3, <3>1 DEF Behind
    <3> DEFINE A == Counted(R, s)
               B == rows \ R
               C == Counted(rows, s)
    <3>3. C \subseteq A \cup B /\ A \subseteq rows /\ B \subseteq rows
      BY DEF Counted
    <3> HIDE DEF A, B, C
    <3>4. IsFiniteSet(A) /\ IsFiniteSet(B)
      BY <3>3, FS_Subset DEF TableInv
    <3>5. /\ IsFiniteSet(A \cup B)
          /\ Cardinality(A \cup B) = Cardinality(A) + Cardinality(B) - Cardinality(A \cap B)
      BY <3>4, FS_Union
    <3>6. IsFiniteSet(A \cap B) /\ IsFiniteSet(C) /\ Cardinality(C) <= Cardinality(A \cup B)
      BY <3>3, <3>4, <3>5, FS_Subset
    <3>7. /\ Cardinality(A) \in Nat /\ Cardinality(B) \in Nat /\ Cardinality(C) \in Nat
          /\ Cardinality(A \cap B) \in Nat /\ Cardinality(A \cup B) \in Nat
      BY <3>4, <3>5, <3>6, FS_CardinalityType
    <3>8. Cardinality(C) <= Cardinality(A) + Cardinality(B)
      BY <3>5, <3>6, <3>7
    <3>9. scan.total \in Nat
      BY <2>2 DEF Reader
    <3>10. strip.totals[s] = Cardinality(A) /\ strip.since = Cardinality(B)
      BY <2>1 DEF StripOf, A, B
    <3>11. Cardinality(A) <= scan.total /\ scan.total <= Cardinality(C)
      BY <3>2 DEF A, C
    <3> QED BY <3>7, <3>8, <3>9, <3>10, <3>11
  <2>4. ASSUME scan.filter = [eq |-> <<>>, from |-> Open, to |-> Open], scan.at = "read",
               scan.gap = 0, Untied(rows, scan.filter) = rows
        PROVE  strip.totals.quantity <= Litres({p \in scan.seen : p.body.status # "failure"})
    <3>1. \A T : Match(T, scan.filter) = T
      <4>1. DOMAIN <<>> = {}
        OBVIOUS
      <4> QED BY <2>4, <4>1 DEF Match, Matches, IsLimit
    <3>2. MissedFew(scan, rows) /\ scan.present \subseteq rows /\ scan.seen \subseteq rows
          /\ R \subseteq scan.present
      BY <2>1, <2>2, <2>4, <3>1 DEF Reader, Behind
    <3>3. Single(scan.present \ scan.seen, rows) = scan.present \ scan.seen
      <4>1. Matching(scan.filter) = rows
        BY <3>1, MatchListed
      <4> QED BY <2>4, <3>2, <4>1 DEF Untied, Single
    <3>4. Cardinality(scan.present \ scan.seen) <= 0
      BY <2>4, <3>2, <3>3 DEF MissedFew
    <3>5. scan.present \ scan.seen = {}
      <4>1. IsFiniteSet(scan.present \ scan.seen)
        BY <3>2, FS_Subset DEF TableInv
      <4> QED BY <3>4, <4>1, FS_CardinalityType, FS_EmptySet
    <3> DEFINE A == Counted(R, "success") \cup Counted(R, "partial")
               B == {p \in scan.seen : p.body.status # "failure"}
    <3>6. A \in SUBSET B /\ B \subseteq rows
      BY <3>2, <3>5 DEF Counted
    <3>7. \A r \in rows : r.body.quantity \in Nat
      BY <2>2, QuantityStored DEF TableInv, Entry, Inserted
    <3> HIDE DEF A, B
    <3>8. IsFiniteSet(B) /\ \A r \in B : r.body.quantity \in Nat
      BY <3>6, <3>7, FS_Subset DEF TableInv
    <3>9. Litres(A) <= Litres(B)
      BY <3>6, <3>8, LitresGrow
    <3> QED BY <2>1, <3>9 DEF StripOf, A, B
  <2> QED BY <2>3, <2>4 DEF StripAgrees, Litres
<1> QED BY <1>1, StripInductive, PTL
=============================================================================
