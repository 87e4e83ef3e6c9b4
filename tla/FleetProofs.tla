------------------------------ MODULE FleetProofs ------------------------------
(***************************************************************************)
(* Proofs about Fleet, for any payloads, any number of concurrent reports  *)
(* and any windows: the inventory is the registry kept ping by ping, and   *)
(* the summary's counts fit together.                                      *)
(***************************************************************************)
EXTENDS Fleet, SumTheorems, TLAPS

StoredBodies == {BodyOf(p) : p \in Sent}
Drawing == {h \in Handlers : running[h] # NoRow /\ running[h].id = 0}

(* What makes a row of the table one of its own: ids are given once, and a *)
(* row is not from the future.                                             *)
TableInv ==
    /\ TableTypeOK
    /\ IsFiniteSet(rows)
    /\ \A p \in rows : p.at <= clock /\ p.id \in 1..lastId /\ p.body \in StoredBodies
    /\ \A p, q \in rows : p.id = q.id => p = q
    /\ \A h \in Handlers : running[h] # NoRow =>
          /\ running[h].at <= clock /\ running[h].id <= lastId /\ running[h].body \in StoredBodies
          /\ \A p \in rows : p.id # running[h].id
          /\ \A g \in Handlers : running[g] # NoRow /\ running[g].id = running[h].id
                                    /\ running[h].id # 0 => g = h
    /\ lastId + Cardinality(Drawing) <= MaxRows

-----------------------------------------------------------------------------
(* The table's steps.                                                      *)

LEMMA NoRowApart == NoRow \notin Row
  BY NoRowAssumption DEF Row

\* Who is drawing an id is one of the handlers, of which there are finitely many.
LEMMA DrawingFinite ==
    /\ IsFiniteSet(Drawing) /\ Cardinality(Drawing) \in Nat
    /\ IsFiniteSet(Drawing') /\ Cardinality(Drawing') \in Nat
<1>1. Drawing \in SUBSET Handlers /\ Drawing' \in SUBSET Handlers
  BY DEF Drawing
<1> QED BY <1>1, TableAssumption, FS_Subset, FS_CardinalityType

LEMMA TableInitInv == TableInit => TableInv
<1> SUFFICES ASSUME TableInit PROVE TableInv
  OBVIOUS
<1>1. Drawing = {}
  BY DEF TableInit, Drawing
<1>2. Cardinality(Drawing) = 0
  BY <1>1, FS_EmptySet
<1> QED BY <1>2, FS_EmptySet, TableAssumption DEF TableInit, TableInv, TableTypeOK

LEMMA BeginInv ==
    ASSUME TableInv, NEW h \in Handlers, NEW body \in StoredBodies, Begin(h, body)
    PROVE  TableInv'
<1> DEFINE row == [at |-> clock, id |-> 0, body |-> body]
<1>1. /\ running' = [running EXCEPT ![h] = row] /\ running[h] = NoRow
      /\ lastId + Cardinality(Drawing) < MaxRows /\ UNCHANGED <<clock, rows, lastId>>
  BY DEF Begin, Drawing
<1>2. body \in Bodies /\ clock \in Nat /\ lastId \in Nat
  BY BodiesAssumption, TableAssumption DEF StoredBodies, TableInv, TableTypeOK
<1>3. row \in Row /\ row.at = clock /\ row.id = 0 /\ row.body = body
  BY <1>2 DEF Row
<1> HIDE DEF row
<1>4. row # NoRow
  BY <1>3, NoRowApart
<1>5. \A g \in Handlers : running'[g] = IF g = h THEN row ELSE running[g]
  BY <1>1 DEF TableInv, TableTypeOK
<1>6. TableTypeOK'
  BY <1>1, <1>3 DEF TableInv, TableTypeOK
<1>7. Drawing' = Drawing \cup {h} /\ h \notin Drawing
  BY <1>1, <1>3, <1>4, <1>5 DEF Drawing
<1>8. Cardinality(Drawing') = Cardinality(Drawing) + 1
  BY <1>7, DrawingFinite, FS_AddElement
<1>9. lastId' + Cardinality(Drawing') <= MaxRows
  BY <1>1, <1>2, <1>8, DrawingFinite, TableAssumption
<1>10. \A p \in rows : p.id # 0
  BY DEF TableInv
<1>11. \A g \in Handlers : running'[g] # NoRow =>
          /\ running'[g].at <= clock /\ running'[g].id <= lastId /\ running'[g].body \in StoredBodies
          /\ \A p \in rows : p.id # running'[g].id
          /\ \A k \in Handlers : running'[k] # NoRow /\ running'[k].id = running'[g].id
                                    /\ running'[g].id # 0 => k = g
  BY <1>2, <1>3, <1>5, <1>10 DEF TableInv
<1> QED BY <1>1, <1>6, <1>9, <1>11 DEF TableInv

LEMMA DrawIdInv ==
    ASSUME TableInv, NEW h \in Handlers, DrawId(h)
    PROVE  TableInv'
<1> DEFINE row == [running[h] EXCEPT !.id = lastId + 1]
<1>1. /\ running' = [running EXCEPT ![h] = row] /\ running[h] # NoRow /\ running[h].id = 0
      /\ lastId' = lastId + 1 /\ UNCHANGED <<clock, rows>>
  BY DEF DrawId
<1>2. running[h] \in Row /\ lastId \in Nat
  BY <1>1, TableAssumption DEF TableInv, TableTypeOK
<1>3. row \in Row /\ row.at = running[h].at /\ row.id = lastId + 1 /\ row.body = running[h].body
  BY <1>2 DEF Row
<1> HIDE DEF row
<1>5. \A g \in Handlers : running'[g] = IF g = h THEN row ELSE running[g]
  BY <1>1 DEF TableInv, TableTypeOK
<1>6. Drawing' = Drawing \ {h} /\ h \in Drawing
  BY <1>1, <1>2, <1>3, <1>5 DEF Drawing
<1>7. Cardinality(Drawing') = Cardinality(Drawing) - 1
  BY <1>6, DrawingFinite, FS_RemoveElement
<1>8. lastId' + Cardinality(Drawing') <= MaxRows /\ lastId' \in 0..MaxRows
  BY <1>1, <1>2, <1>7, DrawingFinite, TableAssumption DEF TableInv
<1>9. TableTypeOK'
  BY <1>1, <1>3, <1>8 DEF TableInv, TableTypeOK
<1>10. \A p \in rows : p.id \in 1..lastId' /\ p.id # lastId + 1
  BY <1>1, <1>2 DEF TableInv
<1>11. \A g \in Handlers : running[g] # NoRow => running[g].id \in Nat /\ running[g].id <= lastId
  BY DEF TableInv, TableTypeOK, Row
<1>12. \A g \in Handlers : running'[g] # NoRow =>
          /\ running'[g].at <= clock /\ running'[g].id <= lastId' /\ running'[g].body \in StoredBodies
          /\ \A p \in rows : p.id # running'[g].id
          /\ \A k \in Handlers : running'[k] # NoRow /\ running'[k].id = running'[g].id
                                    /\ running'[g].id # 0 => k = g
  BY <1>1, <1>2, <1>3, <1>5, <1>10, <1>11 DEF TableInv
<1> QED BY <1>1, <1>8, <1>9, <1>10, <1>12 DEF TableInv

LEMMA CommitInv ==
    ASSUME TableInv, NEW h \in Handlers, Commit(h)
    PROVE  TableInv'
<1> DEFINE row == running[h]
<1>1. /\ running' = [running EXCEPT ![h] = NoRow] /\ rows' = rows \cup {row}
      /\ row # NoRow /\ row.id # 0 /\ UNCHANGED <<clock, lastId>>
  BY DEF Commit
<1>2. row \in Row
  BY <1>1 DEF TableInv, TableTypeOK
<1>3. \A g \in Handlers : running'[g] = IF g = h THEN NoRow ELSE running[g]
  BY <1>1 DEF TableInv, TableTypeOK
<1>4. Drawing' = Drawing
  BY <1>1, <1>3 DEF Drawing
<1>5. TableTypeOK'
  BY <1>1, <1>2 DEF TableInv, TableTypeOK
<1>6. row.at <= clock /\ row.id \in 1..lastId /\ row.body \in StoredBodies
      /\ \A p \in rows : p.id # row.id
  BY <1>1, <1>2, TableAssumption DEF TableInv, TableTypeOK, Row
<1>7. \A g \in Handlers : running[g] # NoRow /\ running[g].id = row.id => g = h
  BY <1>1 DEF TableInv
<1>8. IsFiniteSet(rows')
  <2>1. IsFiniteSet(rows)
    BY DEF TableInv
  <2> HIDE DEF row
  <2> QED BY <1>1, <2>1, FS_AddElement
<1> HIDE DEF row
<1>9. \A g \in Handlers : running'[g] # NoRow =>
          /\ running'[g].at <= clock /\ running'[g].id <= lastId /\ running'[g].body \in StoredBodies
          /\ \A p \in rows' : p.id # running'[g].id
          /\ \A k \in Handlers : running'[k] # NoRow /\ running'[k].id = running'[g].id
                                    /\ running'[g].id # 0 => k = g
  BY <1>1, <1>3, <1>7 DEF TableInv
<1>10. \A p, q \in rows' : p.id = q.id => p = q
  BY <1>1, <1>6 DEF TableInv
<1>11. \A p \in rows' : p.at <= clock /\ p.id \in 1..lastId /\ p.body \in StoredBodies
  BY <1>1, <1>6 DEF TableInv
<1>12. lastId' + Cardinality(Drawing') <= MaxRows
  BY <1>1, <1>4 DEF TableInv
<1> QED BY <1>1, <1>5, <1>8, <1>9, <1>10, <1>11, <1>12 DEF TableInv

LEMMA LoseInv ==
    ASSUME TableInv, NEW h \in Handlers, Lose(h)
    PROVE  TableInv'
<1>1. running' = [running EXCEPT ![h] = NoRow] /\ UNCHANGED <<clock, rows, lastId>>
  BY DEF Lose
<1>2. \A g \in Handlers : running'[g] = IF g = h THEN NoRow ELSE running[g]
  BY <1>1 DEF TableInv, TableTypeOK
<1>3. Drawing' \subseteq Drawing
  BY <1>2 DEF Drawing
<1>4. Cardinality(Drawing') <= Cardinality(Drawing)
  BY <1>3, DrawingFinite, FS_Subset
<1>5. lastId' + Cardinality(Drawing') <= MaxRows
  BY <1>1, <1>4, DrawingFinite, TableAssumption DEF TableInv, TableTypeOK
<1>6. TableTypeOK'
  BY <1>1 DEF TableInv, TableTypeOK
<1> QED BY <1>1, <1>2, <1>5, <1>6 DEF TableInv

LEMMA TickInv == ASSUME TableInv, Tick PROVE TableInv'
<1>1. clock \in Nat /\ clock' = clock + 1 /\ clock' \in 0..MaxTime /\ UNCHANGED <<rows, running, lastId>>
  BY TableAssumption DEF Tick, TableInv, TableTypeOK
<1>2. Drawing' = Drawing
  BY <1>1 DEF Drawing
<1>3. \A p \in rows : p.at \in Nat
  BY DEF TableInv, TableTypeOK, Row
<1>4. \A h \in Handlers : running[h] # NoRow => running[h].at \in Nat
  BY DEF TableInv, TableTypeOK, Row
<1>5. TableTypeOK'
  BY <1>1 DEF TableInv, TableTypeOK
<1> QED BY <1>1, <1>2, <1>3, <1>4, <1>5 DEF TableInv

LEMMA TableSame == ASSUME TableInv, UNCHANGED tableVars PROVE TableInv'
<1>1. Drawing' = Drawing
  BY DEF Drawing, tableVars
<1> QED BY <1>1 DEF TableInv, TableTypeOK, tableVars

LEMMA NextTableInv == TableInv /\ [Next]_vars => TableInv'
<1> SUFFICES ASSUME TableInv, [Next]_vars PROVE TableInv'
  OBVIOUS
<1>1. CASE UNCHANGED tableVars
  BY <1>1, TableSame
<1>2. CASE Table
  <2>1. ASSUME NEW h \in Handlers, NEW p \in Sent, Begin(h, BodyOf(p)) PROVE TableInv'
    BY <2>1, BeginInv DEF StoredBodies
  <2> QED BY <1>2, <2>1, DrawIdInv, CommitInv, LoseInv, TickInv DEF Table
<1> QED BY <1>1, <1>2 DEF Next, ReadTotals, ReadCompanies, ReadVersions, EndSummary, vars, tableVars

LEMMA TableInductive == Spec => []TableInv
<1>1. Init => TableInv
  BY TableInitInv DEF Init
<1> QED BY <1>1, NextTableInv, PTL DEF Spec

-----------------------------------------------------------------------------
(* The first row in the order of pinged_at and id, and the earliest time.  *)

\* Rows of the table that can be told apart by their ids.
Distinct(S) == S \subseteq Row /\ IsFiniteSet(S) /\ \A p, q \in S : p.id = q.id => p = q

LEMMA RowNumbers == ASSUME NEW p \in Row PROVE p.at \in Nat /\ p.id \in Nat
  BY DEF Row

LEMMA DistinctPart ==
    ASSUME NEW S, Distinct(S), NEW T \in SUBSET S
    PROVE  Distinct(T)
  BY FS_Subset DEF Distinct

LEMMA OrderOfRows ==
    ASSUME NEW p \in Row, NEW q \in Row, NEW r \in Row
    PROVE  /\ AtOrAfter(p, q) \/ AtOrAfter(q, p)
           /\ AtOrAfter(p, q) /\ AtOrAfter(q, r) => AtOrAfter(p, r)
           /\ AtOrAfter(p, q) /\ AtOrAfter(q, p) => p.id = q.id
           /\ Registry!Later(p, q) => AtOrAfter(p, q)
           /\ ~Registry!Later(p, q) => AtOrAfter(q, p)
  BY RowNumbers DEF AtOrAfter, Registry!Later

LEMMA LatestIs ==
    ASSUME NEW S, Distinct(S), S # {}
    PROVE  Latest(S) \in S /\ \A q \in S : AtOrAfter(Latest(S), q)
<1> DEFINE G == {s \in SUBSET S : s # {} => \E p \in s : \A q \in s : AtOrAfter(p, q)}
<1>1. ASSUME NEW s \in SUBSET S, \A U \in (SUBSET s) \ {s} : U \in G
      PROVE  s \in G
  <2> SUFFICES ASSUME s # {} PROVE \E p \in s : \A q \in s : AtOrAfter(p, q)
    OBVIOUS
  <2>1. PICK x \in s : TRUE
    OBVIOUS
  <2> DEFINE r == s \ {x}
  <2>2. r \in G /\ x \in Row /\ r \subseteq Row
    BY <1>1, <2>1 DEF Distinct
  <2>3. CASE r = {}
    BY <2>1, <2>2, <2>3, OrderOfRows
  <2>4. CASE r # {}
    <3>1. PICK m \in r : \A q \in r : AtOrAfter(m, q)
      BY <2>2, <2>4
    <3>2. CASE AtOrAfter(m, x)
      BY <3>1, <3>2
    <3>3. CASE AtOrAfter(x, m)
      <4>1. AtOrAfter(x, x) /\ \A q \in r : AtOrAfter(x, q)
        BY <2>2, <3>1, <3>3, OrderOfRows
      <4> QED BY <2>1, <4>1
    <3> QED BY <2>2, <3>1, <3>2, <3>3, OrderOfRows
  <2> QED BY <2>3, <2>4
<1>2. SUBSET S \subseteq G
  <2>1. IsFiniteSet(S)
    BY DEF Distinct
  <2> HIDE DEF G
  <2> QED BY <1>1, <2>1, SubsetInduction
<1>3. \E p \in S : \A q \in S : AtOrAfter(p, q)
  BY <1>2
<1> QED BY <1>3 DEF Latest

LEMMA LatestUnique ==
    ASSUME NEW S, Distinct(S), NEW m \in S, \A q \in S : AtOrAfter(m, q)
    PROVE  Latest(S) = m
<1>1. Latest(S) \in S /\ AtOrAfter(Latest(S), m) /\ AtOrAfter(m, Latest(S))
  BY LatestIs
<1> QED BY <1>1, OrderOfRows DEF Distinct

\* A ping merged in where it belongs.
LEMMA LatestMerged ==
    ASSUME NEW S, NEW p, Distinct(S \cup {p}), S # {}
    PROVE  Latest(S \cup {p}) = IF Registry!Later(p, Latest(S)) THEN p ELSE Latest(S)
<1>1. Distinct(S)
  BY DistinctPart
<1>2. Latest(S) \in S /\ (\A q \in S : AtOrAfter(Latest(S), q)) /\ p \in Row /\ S \subseteq Row
  BY <1>1, LatestIs DEF Distinct
<1>3. CASE Registry!Later(p, Latest(S))
  <2>1. AtOrAfter(p, p) /\ \A q \in S : AtOrAfter(p, q)
    BY <1>2, <1>3, OrderOfRows
  <2> QED BY <1>3, <2>1, LatestUnique
<1>4. CASE ~Registry!Later(p, Latest(S))
  <2>1. AtOrAfter(Latest(S), p)
    BY <1>2, <1>4, OrderOfRows
  <2> QED BY <1>2, <1>4, <2>1, LatestUnique
<1> QED BY <1>3, <1>4

LEMMA LatestAlone ==
    ASSUME NEW p \in Row
    PROVE  Latest({p}) = p
<1>1. Distinct({p})
  BY FS_Singleton DEF Distinct
<1> QED BY <1>1, LatestIs

LEMMA EarliestIs ==
    ASSUME NEW S, Distinct(S), S # {}
    PROVE  (\E p \in S : Earliest(S) = p.at) /\ (\A q \in S : Earliest(S) <= q.at)
           /\ Earliest(S) \in Nat
<1> DEFINE G == {s \in SUBSET S : s # {} => \E p \in s : \A q \in s : p.at <= q.at}
<1>0. \A p \in S : p.at \in Nat
  BY RowNumbers DEF Distinct
<1>1. ASSUME NEW s \in SUBSET S, \A U \in (SUBSET s) \ {s} : U \in G
      PROVE  s \in G
  <2> SUFFICES ASSUME s # {} PROVE \E p \in s : \A q \in s : p.at <= q.at
    OBVIOUS
  <2>1. PICK x \in s : TRUE
    OBVIOUS
  <2> DEFINE r == s \ {x}
  <2>2. r \in G
    BY <1>1, <2>1
  <2>3. CASE r = {}
    BY <1>0, <2>1, <2>3
  <2>4. CASE r # {}
    <3>1. PICK m \in r : \A q \in r : m.at <= q.at
      BY <2>2, <2>4
    <3>2. CASE m.at <= x.at
      BY <3>1, <3>2
    <3>3. CASE x.at <= m.at
      BY <1>0, <2>1, <3>1, <3>3
    <3> QED BY <1>0, <3>1, <3>2, <3>3
  <2> QED BY <2>3, <2>4
<1>2. SUBSET S \subseteq G
  <2>1. IsFiniteSet(S)
    BY DEF Distinct
  <2> HIDE DEF G
  <2> QED BY <1>1, <2>1, SubsetInduction
<1>3. PICK m \in S : \A q \in S : m.at <= q.at
  BY <1>2
<1>4. \E t \in {p.at : p \in S} : \A q \in S : t <= q.at
  BY <1>3
<1>5. Earliest(S) \in {p.at : p \in S} /\ \A q \in S : Earliest(S) <= q.at
  BY <1>4 DEF Earliest
<1> QED BY <1>0, <1>5

LEMMA EarliestMerged ==
    ASSUME NEW S, NEW p, Distinct(S \cup {p}), S # {}
    PROVE  Earliest(S \cup {p}) = IF p.at < Earliest(S) THEN p.at ELSE Earliest(S)
<1>1. Distinct(S)
  BY DistinctPart
<1>2. (\E q \in S : Earliest(S) = q.at) /\ (\A q \in S : Earliest(S) <= q.at) /\ Earliest(S) \in Nat
  BY <1>1, EarliestIs
<1> DEFINE T == S \cup {p}
<1>3. (\E q \in T : Earliest(T) = q.at) /\ (\A q \in T : Earliest(T) <= q.at) /\ Earliest(T) \in Nat
  <2>1. Distinct(T) /\ T # {}
    OBVIOUS
  <2> HIDE DEF T
  <2> QED BY <2>1, EarliestIs
<1>4. p.at \in Nat /\ \A q \in S : q.at \in Nat
  BY RowNumbers DEF Distinct
<1> QED BY <1>2, <1>3, <1>4

LEMMA EarliestAlone ==
    ASSUME NEW p \in Row
    PROVE  Earliest({p}) = p.at
<1>1. Distinct({p})
  BY FS_Singleton DEF Distinct
<1> QED BY <1>1, EarliestIs

-----------------------------------------------------------------------------
(* Cards.                                                                  *)

Fixes(S) == {p \in S : p.body.fix.place \in Places}

LEMMA GpsIs == ASSUME NEW S PROVE Gps(S) = IF Fixes(S) = {} THEN NoFix ELSE Latest(Fixes(S))
  BY DEF Gps, Fixes

LEMMA GpsMerged ==
    ASSUME NEW S, NEW p, Distinct(S \cup {p})
    PROVE  Gps(S \cup {p}) = IF Registry!Located(p) /\ (Gps(S) = NoFix \/ Registry!Later(p, Gps(S)))
                             THEN p ELSE Gps(S)
<1> DEFINE F == Fixes(S)
<1>1. Distinct(F) /\ p \in Row
  BY DistinctPart DEF Fixes, Distinct
<1>2. CASE ~Registry!Located(p)
  <2>1. Fixes(S \cup {p}) = F
    BY <1>2 DEF Fixes, Registry!Located
  <2> QED BY <1>2, <2>1, GpsIs
<1>3. CASE Registry!Located(p)
  <2>1. Fixes(S \cup {p}) = F \cup {p}
    BY <1>3 DEF Fixes, Registry!Located
  <2>2. Gps(S \cup {p}) = Latest(F \cup {p})
    BY <2>1, GpsIs
  <2>3. CASE F = {}
    <3>1. F \cup {p} = {p} /\ Gps(S) = NoFix
      BY <2>3, GpsIs
    <3> QED BY <1>1, <1>3, <2>2, <3>1, LatestAlone
  <2>4. CASE F # {}
    <3>1. Gps(S) = Latest(F) /\ Latest(F) \in Row
      BY <1>1, <2>4, GpsIs, LatestIs DEF Distinct
    <3>2. Gps(S) # NoFix
      BY <3>1, NoCardAssumption
    <3>3. Distinct(F \cup {p})
      BY DistinctPart DEF Fixes
    <3> HIDE DEF F
    <3> QED BY <1>3, <2>2, <2>4, <3>1, <3>2, <3>3, LatestMerged
  <2> QED BY <2>3, <2>4
<1> QED BY <1>2, <1>3

LEMMA CardMerged ==
    ASSUME NEW S, NEW p, p \notin S, Distinct(S \cup {p}), S # {}
    PROVE  Card(S \cup {p}) = Registry!Merge(Card(S), p)
<1>1. Cardinality(S \cup {p}) = Cardinality(S) + 1
  <2>1. IsFiniteSet(S)
    BY DistinctPart DEF Distinct
  <2> QED BY <2>1, FS_AddElement
<1>2. {q.body.user : q \in S \cup {p}} = {q.body.user : q \in S} \cup {p.body.user}
  OBVIOUS
<1> QED BY <1>1, <1>2, LatestMerged, EarliestMerged, GpsMerged DEF Card, Registry!Merge

LEMMA CardFirst ==
    ASSUME NEW p \in Row
    PROVE  Card({p}) = Registry!FirstCard(p)
<1>1. Cardinality({p}) = 1
  BY FS_Singleton
<1>2. {q.body.user : q \in {p}} = {p.body.user}
  OBVIOUS
<1>3. Gps({p}) = IF Registry!Located(p) THEN p ELSE NoFix
  <2>1. Fixes({p}) = IF Registry!Located(p) THEN {p} ELSE {}
    BY DEF Fixes, Registry!Located
  <2> QED BY <2>1, GpsIs, LatestAlone
<1> QED BY <1>1, <1>2, <1>3, LatestAlone, EarliestAlone DEF Card, Registry!FirstCard

-----------------------------------------------------------------------------
(* The inventory is the registry.                                          *)

LEMMA RowsDistinct == ASSUME TableInv PROVE Distinct(rows)
  BY DEF TableInv, TableTypeOK, Distinct

LEMMA RowsDistinctNext == ASSUME TableInv' PROVE Distinct(rows')
  BY DEF TableInv, TableTypeOK, Distinct

\* What a stored body is made of.
LEMMA StoredBody ==
    ASSUME NEW b \in StoredBodies
    PROVE  /\ b \in [company : Companies, device : Devices, user : Users, version : Versions,
                     fix : [place : Places \cup OffGlobe \cup {NoPlace}, accurate : BOOLEAN]]
           /\ <<b.company, b.device>> \in Keys
<1>1. PICK p \in Payload : b = BodyOf(p)
  BY SentAssumption DEF StoredBodies
<1>2. FixOf(p) \in [place : Places \cup OffGlobe \cup {NoPlace}, accurate : BOOLEAN]
  BY DEF FixOf, Payload
<1> QED BY <1>1, <1>2 DEF BodyOf, Payload, Keys

\* A card is not "no card".
LEMMA CardIsCard ==
    ASSUME NEW S, Distinct(S), S # {}, \A p \in S : p.body \in StoredBodies
    PROVE  Card(S) # NoCard
<1>1. Cardinality(S) \in Nat
  BY FS_CardinalityType DEF Distinct
<1>2. Earliest(S) \in Nat /\ Latest(S) \in Row
  BY EarliestIs, LatestIs DEF Distinct
<1>3. {p.body.user : p \in S} \in SUBSET Users
  BY StoredBody
<1>4. Gps(S) \in Row \cup {NoFix}
  <2>1. Distinct(Fixes(S))
    BY DistinctPart DEF Fixes
  <2> QED BY <2>1, GpsIs, LatestIs DEF Distinct
<1>5. Card(S) \in [pings : Nat, first : Nat, users : SUBSET Users, last : Row, fix : Row \cup {NoFix}]
  BY <1>1, <1>2, <1>3, <1>4 DEF Card
<1> QED BY <1>5, NoCardAssumption

LEMMA InventoryAt ==
    ASSUME NEW R, NEW k \in Keys
    PROVE  Inventory(R)[k] = IF RowsOf(R, k) = {} THEN NoCard ELSE Card(RowsOf(R, k))
  BY DEF Inventory

LEMMA CommitReports ==
    ASSUME TableInv, TableInv', NEW h \in Handlers, Commit(h)
    PROVE  Registry!Report(running[h]) /\ running[h] \in [at : 0..MaxTime, id : 1..MaxRows, body : Bodies]
<1> DEFINE p == running[h]
           k == Registry!KeyOf(p)
<1>1. rows' = rows \cup {p} /\ p # NoRow /\ p.id # 0
  BY DEF Commit
<1>2. p \in Row /\ p.body \in StoredBodies /\ p.at <= clock /\ p.id <= lastId /\ p \notin rows
  BY <1>1 DEF TableInv, TableTypeOK
<1>3. p \in [at : 0..MaxTime, id : 1..MaxRows, body : Bodies]
  BY <1>1, <1>2, TableAssumption DEF TableInv, TableTypeOK, Row
<1>4. k \in Keys
  BY <1>2, StoredBody DEF Registry!KeyOf
<1>5. Distinct(rows \cup {p})
  BY <1>1, RowsDistinctNext
<1> HIDE DEF p
<1>6. ASSUME NEW key \in Keys
      PROVE  Inventory(rows \cup {p})[key] =
                IF key = k THEN IF Inventory(rows)[k] = NoCard THEN Registry!FirstCard(p)
                                ELSE Registry!Merge(Inventory(rows)[k], p)
                ELSE Inventory(rows)[key]
  <2> DEFINE S == RowsOf(rows, key)
             T == RowsOf(rows \cup {p}, key)
  <2>1. CASE key # k
    <3>1. T = S
      BY <2>1 DEF RowsOf, Registry!KeyOf
    <3> QED BY <2>1, <3>1, InventoryAt
  <2>2. CASE key = k
    <3>1. T = S \cup {p} /\ p \notin S
      BY <1>2, <2>2 DEF RowsOf, Registry!KeyOf
    <3>2. Distinct(S \cup {p}) /\ Distinct(S) /\ \A q \in S : q.body \in StoredBodies
      BY <1>5, DistinctPart DEF RowsOf, TableInv
    <3>3. Inventory(rows \cup {p})[key] = Card(S \cup {p})
      BY <3>1, InventoryAt
    <3>4. CASE S = {}
      <4>1. S \cup {p} = {p} /\ Inventory(rows)[k] = NoCard
        BY <2>2, <3>4, InventoryAt
      <4> QED BY <1>2, <2>2, <3>3, <4>1, CardFirst
    <3>5. CASE S # {}
      <4>1. Inventory(rows)[k] = Card(S) /\ Card(S) # NoCard
        <5>1. Inventory(rows)[k] = Card(S)
          BY <2>2, <3>5, InventoryAt
        <5> HIDE DEF S
        <5> QED BY <3>2, <3>5, <5>1, CardIsCard
      <4>2. Card(S \cup {p}) = Registry!Merge(Card(S), p)
        <5> HIDE DEF S
        <5> QED BY <3>1, <3>2, <3>5, CardMerged
      <4> QED BY <2>2, <3>3, <4>1, <4>2
    <3> QED BY <3>4, <3>5
  <2> QED BY <2>1, <2>2
<1>7. Inventory(rows') = [Inventory(rows) EXCEPT ![k] =
          IF @ = NoCard THEN Registry!FirstCard(p) ELSE Registry!Merge(@, p)]
  <2>1. Inventory(rows') = [key \in Keys |-> Inventory(rows')[key]]
        /\ Inventory(rows) = [key \in Keys |-> Inventory(rows)[key]]
    BY DEF Inventory
  <2> HIDE DEF k
  <2> QED BY <1>1, <1>4, <1>6, <2>1
<1> QED BY <1>1, <1>2, <1>3, <1>7 DEF p, Registry!Report

\* Every committed ping counts once, on its own device's card, and one that
\* commits late is merged in where it belongs: the queries of
\* device_inventory.sql return what is kept up to date ping by ping.
THEOREM InventoryIsRegistry == Spec => ImplementsRegistry
<1>1. Init => Registry!Init
  <2> SUFFICES ASSUME Init PROVE Registry!Init
    OBVIOUS
  <2>1. rows = {}
    BY DEF Init, TableInit
  <2>2. \A k : RowsOf(rows, k) = {}
    BY <2>1 DEF RowsOf
  <2>3. Inventory(rows) = [k \in Keys |-> NoCard]
    BY <2>2 DEF Inventory
  <2> QED BY <2>1, <2>3 DEF Registry!Init
<1>2. TableInv /\ TableInv' /\ [Next]_vars => [Registry!Next]_<<rows, Inventory(rows)>>
  <2> SUFFICES ASSUME TableInv, TableInv', [Next]_vars
               PROVE  Registry!Next \/ UNCHANGED <<rows, Inventory(rows)>>
    OBVIOUS
  <2>1. CASE rows' = rows
    <3>1. Inventory(rows') = Inventory(rows)
      BY <2>1
    <3> QED BY <2>1, <3>1 DEF Inventory, RowsOf
  <2>2. CASE \E h \in Handlers : Commit(h)
    BY <2>2, CommitReports DEF Registry!Next
  <2>3. rows' = rows \/ \E h \in Handlers : Commit(h)
    BY DEF Next, Table, ReadTotals, ReadCompanies, ReadVersions, EndSummary, vars, tableVars,
           Begin, DrawId, Lose, Tick
  <2> QED BY <2>1, <2>2, <2>3
<1> QED BY <1>1, <1>2, TableInductive, PTL DEF Spec, ImplementsRegistry, Registry!Spec

\* Between two requests of GET /telemetry/devices a card never goes back.
THEOREM CardsNeverGoBack == Spec => CardsAdvance
<1>1. ASSUME TableInv, TableInv', rows \subseteq rows', NEW k \in Keys, Inventory(rows)[k] # NoCard
      PROVE  LET c == Inventory(rows)[k]  d == Inventory(rows')[k] IN
             /\ d # NoCard /\ d.pings >= c.pings /\ d.first <= c.first
             /\ AtOrAfter(d.last, c.last)
             /\ c.fix # NoFix => d.fix # NoFix /\ AtOrAfter(d.fix, c.fix)
  <2> DEFINE S == RowsOf(rows, k)
             T == RowsOf(rows', k)
  <2>1. S # {} /\ S \subseteq T /\ Inventory(rows)[k] = Card(S) /\ Inventory(rows')[k] = Card(T)
    <3>1. \A R : Inventory(R)[k] = IF RowsOf(R, k) = {} THEN NoCard ELSE Card(RowsOf(R, k))
      BY InventoryAt
    <3>2. Inventory(rows)[k] = IF S = {} THEN NoCard ELSE Card(S)
      BY <3>1
    <3>3. Inventory(rows')[k] = IF T = {} THEN NoCard ELSE Card(T)
      BY <3>1
    <3>4. S \subseteq T
      BY <1>1 DEF RowsOf
    <3> HIDE DEF S, T
    <3> QED BY <1>1, <3>2, <3>3, <3>4
  <2>2. Distinct(T) /\ Distinct(S) /\ \A q \in T : q.body \in StoredBodies
    BY <1>1, RowsDistinct, RowsDistinctNext, DistinctPart DEF RowsOf, TableInv
  <2> HIDE DEF S, T
  <2>3. Card(T) # NoCard
    BY <2>1, <2>2, CardIsCard
  <2>4. Cardinality(T) >= Cardinality(S)
    <3>1. IsFiniteSet(T) /\ IsFiniteSet(S)
      BY <2>2 DEF Distinct
    <3>2. Cardinality(S) <= Cardinality(T) /\ Cardinality(S) \in Nat /\ Cardinality(T) \in Nat
      BY <2>1, <3>1, FS_Subset, FS_CardinalityType
    <3> QED BY <3>2
  <2>5. Earliest(T) <= Earliest(S)
    <3>1. \E p \in S : Earliest(S) = p.at
      BY <2>1, <2>2, EarliestIs
    <3>2. \A p \in T : Earliest(T) <= p.at
      BY <2>1, <2>2, EarliestIs
    <3> QED BY <2>1, <3>1, <3>2
  <2>6. ASSUME NEW A, NEW B, Distinct(B), A \subseteq B, A # {}
        PROVE  AtOrAfter(Latest(B), Latest(A)) /\ Latest(B) \in Row
    <3>1. Latest(A) \in A
      BY <2>6, DistinctPart, LatestIs
    <3> QED BY <2>6, <3>1, LatestIs DEF Distinct
  <2>7. Gps(S) # NoFix => Gps(T) # NoFix /\ AtOrAfter(Gps(T), Gps(S))
    <3>1. Distinct(Fixes(T)) /\ Fixes(S) \subseteq Fixes(T)
      BY <2>1, <2>2, DistinctPart DEF Fixes
    <3>2. Fixes(S) # {} => AtOrAfter(Latest(Fixes(T)), Latest(Fixes(S))) /\ Latest(Fixes(T)) \in Row
      BY <3>1, <2>6
    <3> QED BY <3>1, <3>2, GpsIs, NoCardAssumption
  <2> QED BY <2>1, <2>2, <2>3, <2>4, <2>5, <2>6, <2>7 DEF Card
<1>2. TableInv /\ TableInv' /\ [Next]_vars =>
        [rows' # rows =>
           LET before == Inventory(rows)  after == Inventory(rows') IN
           \A k \in {key \in Keys : before[key] # NoCard} :
               LET c == before[k]  d == after[k] IN
               /\ d # NoCard /\ d.pings >= c.pings /\ d.first <= c.first
               /\ AtOrAfter(d.last, c.last)
               /\ c.fix # NoFix => d.fix # NoFix /\ AtOrAfter(d.fix, c.fix)]_vars
  <2>1. [Next]_vars => rows \subseteq rows'
    BY DEF Next, Table, ReadTotals, ReadCompanies, ReadVersions, EndSummary, vars, tableVars,
           Begin, DrawId, Commit, Lose, Tick
  <2> QED BY <1>1, <2>1
<1> QED BY <1>2, TableInductive, PTL DEF Spec, CardsAdvance

-----------------------------------------------------------------------------
(* What the summary counts.                                                *)

LEMMA CountsFinite ==
    ASSUME NEW R, IsFiniteSet(R)
    PROVE  /\ IsFiniteSet(DevicesIn(R)) /\ Cardinality(DevicesIn(R)) \in Nat
           /\ IsFiniteSet(CompaniesIn(R)) /\ Cardinality(CompaniesIn(R)) \in Nat
           /\ Cardinality(CompaniesIn(R)) <= Cardinality(R) /\ Cardinality(R) \in Nat
           /\ IsFiniteSet(VersionsIn(R))
<1> DEFINE device == [p \in R |-> p.body.device]
           company == [p \in R |-> p.body.company]
           version == [p \in R |-> p.body.version]
<1>1. DevicesIn(R) = {device[q] : q \in R}
  BY DEF DevicesIn
<1>2. CompaniesIn(R) = {company[q] : q \in R}
  BY DEF CompaniesIn
<1>3. VersionsIn(R) = {version[q] : q \in R}
  BY DEF VersionsIn
<1> HIDE DEF device, company, version
<1>4. IsFiniteSet(DevicesIn(R))
  BY <1>1, ValuesAtMost
<1>5. IsFiniteSet(CompaniesIn(R)) /\ Cardinality(CompaniesIn(R)) <= Cardinality(R)
  BY <1>2, ValuesAtMost
<1>6. IsFiniteSet(VersionsIn(R))
  BY <1>3, ValuesAtMost
<1> QED BY <1>4, <1>5, <1>6, FS_CardinalityType

\* More rows, no fewer devices.
LEMMA MoreDevices ==
    ASSUME NEW R, IsFiniteSet(R), NEW T \in SUBSET R
    PROVE  Cardinality(DevicesIn(T)) <= Cardinality(DevicesIn(R))
<1>1. DevicesIn(T) \subseteq DevicesIn(R)
  BY DEF DevicesIn
<1> QED BY <1>1, CountsFinite, FS_Subset

\* More rows, no fewer companies, and each new row brings one at most.
LEMMA MoreCompanies ==
    ASSUME NEW R, IsFiniteSet(R), NEW T \in SUBSET R
    PROVE  /\ Cardinality(CompaniesIn(T)) <= Cardinality(CompaniesIn(R))
           /\ Cardinality(CompaniesIn(R)) <= Cardinality(CompaniesIn(T)) + Cardinality(R \ T)
<1>1. IsFiniteSet(T) /\ IsFiniteSet(R \ T)
  BY FS_Subset
<1>2. CompaniesIn(R) = CompaniesIn(T) \cup CompaniesIn(R \ T)
  BY DEF CompaniesIn
<1> DEFINE A == CompaniesIn(T)
           B == CompaniesIn(R \ T)
<1>3. /\ IsFiniteSet(A) /\ IsFiniteSet(B) /\ Cardinality(A) \in Nat /\ Cardinality(B) \in Nat
      /\ Cardinality(B) <= Cardinality(R \ T) /\ Cardinality(R \ T) \in Nat
  BY <1>1, CountsFinite
<1> HIDE DEF A, B
<1>4. Cardinality(A \cup B) = Cardinality(A) + Cardinality(B) - Cardinality(A \cap B)
  BY <1>3, FS_Union
<1>5. IsFiniteSet(A \cup B) /\ Cardinality(A \cap B) \in Nat
  BY <1>3, FS_Union, FS_Subset, FS_CardinalityType
<1>6. Cardinality(A) <= Cardinality(A \cup B)
  BY <1>5, FS_Subset
<1>7. Cardinality(A \cup B) <= Cardinality(A) + Cardinality(R \ T)
  BY <1>3, <1>4, <1>5
<1> QED BY <1>2, <1>6, <1>7 DEF A, B

\* Each device of the table is one of some company's and runs some version,
\* whether or not it is one of another's or runs another as well.
LEMMA DevicesSpread ==
    ASSUME NEW R, IsFiniteSet(R)
    PROVE  /\ Cardinality(DevicesIn(R)) <= SumFunction(DeviceCounts(CompanyBreakdown(R)))
           /\ Cardinality(DevicesIn(R)) <= SumFunction(VersionBreakdown(R))
           /\ SumFunction(DeviceCounts(CompanyBreakdown(R))) \in Nat
           /\ SumFunction(VersionBreakdown(R)) \in Nat
<1>1. \A T \in SUBSET R : IsFiniteSet(DevicesIn(T))
  BY FS_Subset, CountsFinite
<1>2. Cardinality(DevicesIn(R)) <= SumFunction(DeviceCounts(CompanyBreakdown(R)))
      /\ SumFunction(DeviceCounts(CompanyBreakdown(R))) \in Nat
  <2> DEFINE S == CompaniesIn(R)
             F == [c \in S |-> DevicesIn(OfCompany(R, c))]
             n == [c \in S |-> Cardinality(F[c])]
  <2>1. DevicesIn(R) = UNION {F[c] : c \in S}
    <3>1. \A c \in S : F[c] \subseteq DevicesIn(R)
      BY DEF DevicesIn, OfCompany
    <3>2. ASSUME NEW p \in R PROVE p.body.company \in S /\ p.body.device \in F[p.body.company]
      BY DEF DevicesIn, OfCompany, CompaniesIn
    <3> HIDE DEF S, F
    <3> QED BY <3>1, <3>2 DEF DevicesIn
  <2>2. DeviceCounts(CompanyBreakdown(R)) = n /\ DOMAIN n = S
    BY DEF DeviceCounts, CompanyBreakdown
  <2>3. IsFiniteSet(S) /\ \A c \in S : IsFiniteSet(F[c])
    BY <1>1, CountsFinite DEF OfCompany
  <2>4. Cardinality(UNION {F[c] : c \in S}) <= SumFunctionOnSet(n, S)
    <3> HIDE DEF S, F
    <3> QED BY <2>3, UnionAtMostSizes
  <2>5. SumFunctionOnSet(n, S) \in Nat
    <3>1. \A c \in S : n[c] \in Nat
      BY <2>3, FS_CardinalityType
    <3> HIDE DEF S, n
    <3> QED BY <2>3, <3>1, SumNat
  <2> HIDE DEF S, F, n
  <2> QED BY <2>1, <2>2, <2>4, <2>5 DEF SumFunction
<1>3. Cardinality(DevicesIn(R)) <= SumFunction(VersionBreakdown(R))
      /\ SumFunction(VersionBreakdown(R)) \in Nat
  <2> DEFINE S == VersionsIn(R)
             F == [v \in S |-> DevicesIn({p \in R : p.body.version = v})]
             n == [v \in S |-> Cardinality(F[v])]
  <2>1. DevicesIn(R) = UNION {F[v] : v \in S}
    <3>1. \A v \in S : F[v] \subseteq DevicesIn(R)
      BY DEF DevicesIn
    <3>2. ASSUME NEW p \in R PROVE p.body.version \in S /\ p.body.device \in F[p.body.version]
      BY DEF DevicesIn, VersionsIn
    <3> HIDE DEF S, F
    <3> QED BY <3>1, <3>2 DEF DevicesIn
  <2>2. VersionBreakdown(R) = n /\ DOMAIN n = S
    BY DEF VersionBreakdown
  <2>3. IsFiniteSet(S) /\ \A v \in S : IsFiniteSet(F[v])
    BY <1>1, CountsFinite
  <2>4. Cardinality(UNION {F[v] : v \in S}) <= SumFunctionOnSet(n, S)
    <3> HIDE DEF S, F
    <3> QED BY <2>3, UnionAtMostSizes
  <2>5. SumFunctionOnSet(n, S) \in Nat
    <3>1. \A v \in S : n[v] \in Nat
      BY <2>3, FS_CardinalityType
    <3> HIDE DEF S, n
    <3> QED BY <2>3, <3>1, SumNat
  <2> HIDE DEF S, F, n
  <2> QED BY <2>1, <2>2, <2>4, <2>5 DEF SumFunction
<1> QED BY <1>2, <1>3

\* A company's latest version is one of those listed.
LEMMA LatestListed ==
    ASSUME NEW R, Distinct(R), NEW Q, R \subseteq Q, NEW c \in DOMAIN CompanyBreakdown(R)
    PROVE  CompanyBreakdown(R)[c].latest \in DOMAIN VersionBreakdown(Q)
<1> DEFINE p == Latest(OfCompany(R, c))
<1>1. CompanyBreakdown(R)[c].latest = p.body.version /\ OfCompany(R, c) # {}
  BY DEF CompanyBreakdown, CompaniesIn, OfCompany
<1>2. p \in OfCompany(R, c)
  BY <1>1, DistinctPart, LatestIs DEF OfCompany
<1> HIDE DEF p
<1> QED BY <1>1, <1>2 DEF VersionBreakdown, VersionsIn, OfCompany

Healthy(t) == t.active1h <= t.active24h /\ t.active24h + t.stale7d <= t.devices

\* A device heard from within the day is not one that has been quiet for a week.
LEMMA TotalsHealthy == ASSUME TableInv PROVE Healthy(Totals)
<1> DEFINE A == DevicesIn(Within(rows, Day))
           B == Stale(rows)
           D == DevicesIn(rows)
<1>1. IsFiniteSet(rows) /\ clock \in Nat /\ \A p \in rows : p.at \in Nat
  BY TableAssumption, RowNumbers DEF TableInv, TableTypeOK
<1>2. Within(rows, Hour) \subseteq Within(rows, Day) /\ Within(rows, Day) \subseteq rows
  BY <1>1, WindowsAssumption DEF Within
<1>3. Cardinality(DevicesIn(Within(rows, Hour))) <= Cardinality(A)
  BY <1>1, <1>2, FS_Subset, MoreDevices
<1>4. A \cap B = {}
  BY <1>1, WindowsAssumption DEF Stale, DevicesIn, Within
<1>5. A \subseteq D /\ B \subseteq D /\ IsFiniteSet(D)
  BY <1>1, <1>2, CountsFinite DEF Stale, DevicesIn
<1>6. Cardinality(A) + Cardinality(B) <= Cardinality(D)
  <2> HIDE DEF A, B, D
  <2>1. IsFiniteSet(A) /\ IsFiniteSet(B) /\ Cardinality(A) \in Nat /\ Cardinality(B) \in Nat
    BY <1>5, FS_Subset, FS_CardinalityType
  <2>2. Cardinality(A \cup B) = Cardinality(A) + Cardinality(B) - Cardinality(A \cap B)
    BY <2>1, FS_Union
  <2>3. Cardinality(A \cap B) = 0
    BY <1>4, FS_EmptySet
  <2>4. Cardinality(A \cup B) <= Cardinality(D)
    BY <1>5, FS_Subset
  <2> QED BY <2>1, <2>2, <2>3, <2>4
<1> HIDE DEF A, B, D
<1> QED BY <1>3, <1>6 DEF Healthy, Totals, A, B, D

-----------------------------------------------------------------------------
(* The summary under way.                                                  *)

(* The totals were read of R, the companies of Q and the versions of P,    *)
(* parts of the table, each of them all of it at its time; missed counts   *)
(* what came after R.                                                      *)
ReadOf(s, R, T) ==
    /\ {"at", "totals", "missed"} \subseteq DOMAIN s
    /\ s.missed = Cardinality(T \ R)
    /\ s.totals.companies = Cardinality(CompaniesIn(R))
    /\ s.totals.devices = Cardinality(DevicesIn(R))
    /\ Healthy(s.totals)
CompaniesReadOf(s, R, T) ==
    \E Q \in SUBSET T : R \subseteq Q /\ "companies" \in DOMAIN s /\ s.companies = CompanyBreakdown(Q)
AnsweredFrom(s, R, T) ==
    \E Q, P \in SUBSET T : /\ R \subseteq Q /\ Q \subseteq P
                              /\ s.companies = CompanyBreakdown(Q) /\ s.versions = VersionBreakdown(P)
Reading(s, T) ==
    \E R \in SUBSET T :
        /\ ReadOf(s, R, T)
        /\ \/ s.at = "companies"
           \/ s.at = "versions" /\ CompaniesReadOf(s, R, T)
           \/ s.at = "answered" /\ AnsweredFrom(s, R, T)
SummaryInv == summary # NoSummary => Reading(summary, rows)

LEMMA ReadTotalsInv == ASSUME TableInv, ReadTotals PROVE SummaryInv'
<1> DEFINE s == [at |-> "companies", totals |-> Totals, missed |-> 0]
<1>1. rows' = rows /\ summary' = s
  BY DEF ReadTotals, tableVars
<1>2. ReadOf(s, rows, rows)
  <2>1. Cardinality(rows \ rows) = 0
    BY FS_EmptySet
  <2>2. Healthy(Totals)
    BY TotalsHealthy
  <2> QED BY <2>1, <2>2 DEF ReadOf, Totals
<1>3. s.at = "companies"
  OBVIOUS
<1> HIDE DEF s
<1>4. Reading(s, rows)
  BY <1>2, <1>3 DEF Reading
<1> QED BY <1>1, <1>4 DEF SummaryInv

LEMMA ReadCompaniesInv == ASSUME TableInv, SummaryInv, ReadCompanies PROVE SummaryInv'
<1> DEFINE s == [at |-> "versions", totals |-> summary.totals, missed |-> summary.missed,
                 companies |-> CompanyBreakdown(rows)]
<1>1. rows' = rows /\ summary' = s
  BY DEF ReadCompanies, tableVars
<1>2. PICK R \in SUBSET rows : ReadOf(summary, R, rows)
  BY DEF ReadCompanies, SummaryInv, Reading
<1>3. ReadOf(s, R, rows)
  BY <1>2 DEF ReadOf
<1>4. s.at = "versions" /\ CompaniesReadOf(s, R, rows)
  BY DEF CompaniesReadOf
<1> HIDE DEF s
<1>5. Reading(s, rows)
  BY <1>3, <1>4 DEF Reading
<1> QED BY <1>1, <1>5 DEF SummaryInv

LEMMA ReadVersionsInv == ASSUME TableInv, SummaryInv, ReadVersions PROVE SummaryInv'
<1> DEFINE s == [at |-> "answered", totals |-> summary.totals, missed |-> summary.missed,
                 companies |-> summary.companies, versions |-> VersionBreakdown(rows)]
<1>1. rows' = rows /\ summary' = s
  BY DEF ReadVersions, tableVars
<1>2. PICK R \in SUBSET rows : ReadOf(summary, R, rows) /\ CompaniesReadOf(summary, R, rows)
  BY DEF ReadVersions, SummaryInv, Reading
<1>3. ReadOf(s, R, rows)
  BY <1>2 DEF ReadOf
<1>4. s.at = "answered" /\ AnsweredFrom(s, R, rows)
  BY <1>2 DEF AnsweredFrom, CompaniesReadOf
<1> HIDE DEF s
<1>5. Reading(s, rows)
  BY <1>3, <1>4 DEF Reading
<1> QED BY <1>1, <1>5 DEF SummaryInv

LEMMA TableStepInv == ASSUME TableInv, TableInv', SummaryInv, Table PROVE SummaryInv'
<1>1. rows \subseteq rows'
  BY DEF Table, Begin, DrawId, Commit, Lose, Tick
<1>2. CASE summary = NoSummary \/ summary.at = "answered"
  BY <1>2 DEF Table, SummaryInv
<1>3. CASE ~(summary = NoSummary \/ summary.at = "answered")
  <2> DEFINE s == [summary EXCEPT !.missed = @ + Cardinality(rows' \ rows)]
  <2>1. summary' = s
    BY <1>3 DEF Table
  <2>2. PICK R \in SUBSET rows :
           /\ ReadOf(summary, R, rows)
           /\ \/ summary.at = "companies"
              \/ summary.at = "versions" /\ CompaniesReadOf(summary, R, rows)
    BY <1>3 DEF SummaryInv, Reading
  <2>3. /\ s.at = summary.at /\ s.totals = summary.totals /\ DOMAIN s = DOMAIN summary
        /\ s.missed = summary.missed + Cardinality(rows' \ rows)
        /\ s.companies = summary.companies \/ "companies" \notin DOMAIN summary
    BY <2>2 DEF ReadOf
  <2>4. Cardinality(rows' \ R) = Cardinality(rows \ R) + Cardinality(rows' \ rows)
    <3> DEFINE A == rows \ R
               B == rows' \ rows
    <3>1. rows' \ R = A \cup B /\ A \cap B = {}
      BY <1>1, <2>2
    <3>2. IsFiniteSet(A) /\ IsFiniteSet(B)
      BY FS_Subset DEF TableInv
    <3> HIDE DEF A, B
    <3>3. Cardinality(A \cup B) = Cardinality(A) + Cardinality(B) - Cardinality(A \cap B)
      BY <3>2, FS_Union
    <3>4. Cardinality(A \cap B) = 0
      BY <3>1, FS_EmptySet
    <3>5. Cardinality(A) \in Nat /\ Cardinality(B) \in Nat
      BY <3>2, FS_CardinalityType
    <3>6. Cardinality(A \cup B) = Cardinality(A) + Cardinality(B)
      BY <3>3, <3>4, <3>5
    <3>7. Cardinality(rows' \ R) = Cardinality(A \cup B)
      BY <3>1
    <3> QED BY <3>6, <3>7 DEF A, B
  <2> HIDE DEF s
  <2>5. ReadOf(s, R, rows')
    BY <2>2, <2>3, <2>4 DEF ReadOf
  <2>6. summary.at = "versions" => CompaniesReadOf(s, R, rows')
    BY <1>1, <2>2, <2>3 DEF CompaniesReadOf
  <2>7. Reading(s, rows')
    <3>1. R \in SUBSET rows'
      BY <1>1
    <3> QED BY <2>2, <2>3, <2>5, <2>6, <3>1 DEF Reading
  <2> QED BY <2>1, <2>7 DEF SummaryInv
<1> QED BY <1>2, <1>3

LEMMA NextSummaryInv == TableInv /\ TableInv' /\ SummaryInv /\ [Next]_vars => SummaryInv'
<1> SUFFICES ASSUME TableInv, TableInv', SummaryInv, [Next]_vars PROVE SummaryInv'
  OBVIOUS
<1>1. CASE UNCHANGED vars
  BY <1>1 DEF vars, SummaryInv
<1>2. CASE EndSummary
  BY <1>2 DEF EndSummary, SummaryInv
<1> QED BY <1>1, <1>2, ReadTotalsInv, ReadCompaniesInv, ReadVersionsInv, TableStepInv DEF Next

LEMMA SummaryInductive == Spec => [](TableInv /\ SummaryInv)
<1>1. Init => SummaryInv
  BY DEF Init, SummaryInv
<1> QED BY <1>1, TableInductive, NextSummaryInv, PTL DEF Spec

\* Every value has its type; a stored fix may lack its accuracy.
THEOREM TypesHold == Spec => []TypeOK
<1>1. TableInv /\ SummaryInv => TypeOK
  <2> SUFFICES ASSUME TableInv, SummaryInv PROVE TypeOK
    OBVIOUS
  <2>1. \A p \in rows : p.body \in
          [company : Companies, device : Devices, user : Users, version : Versions,
           fix : [place : Places \cup OffGlobe \cup {NoPlace}, accurate : BOOLEAN]]
    BY StoredBody DEF TableInv
  <2>2. summary # NoSummary => summary.at \in {"companies", "versions", "answered"}
    BY DEF SummaryInv, Reading
  <2> QED BY <2>1, <2>2 DEF TypeOK, TableInv
<1> QED BY <1>1, SummaryInductive, PTL

\* No device is counted both as active and as gone quiet.
THEOREM HealthAddsUp == Spec => []FleetHealth
<1>1. SummaryInv => FleetHealth
  BY DEF SummaryInv, Reading, ReadOf, Healthy, FleetHealth
<1> QED BY <1>1, SummaryInductive, PTL

\* The device counts per company add up to the length of the inventory.
THEOREM CountsAreCards == Spec => []CardsCounted
<1>1. TableInv => CardsCounted
  <2> SUFFICES ASSUME TableInv PROVE CardsCounted
    OBVIOUS
  <2> DEFINE S == CompaniesIn(rows)
             F == [c \in S |-> {c} \X DevicesIn(OfCompany(rows, c))]
             n == [c \in S |-> Cardinality(F[c])]
             cards == {k \in Keys : Inventory(rows)[k] # NoCard}
  <2>1. \A c \in S : IsFiniteSet(DevicesIn(OfCompany(rows, c)))
    BY FS_Subset, CountsFinite DEF OfCompany, TableInv
  <2>2. ASSUME NEW c \in S
        PROVE  IsFiniteSet(F[c]) /\ Cardinality(F[c]) = Cardinality(DevicesIn(OfCompany(rows, c)))
    <3> DEFINE D == DevicesIn(OfCompany(rows, c))
    <3>1. IsFiniteSet(D) /\ IsFiniteSet({c}) /\ Cardinality({c}) = 1 /\ Cardinality(D) \in Nat
      BY <2>1, FS_Singleton, FS_CardinalityType
    <3> HIDE DEF D
    <3>2. IsFiniteSet({c} \X D) /\ Cardinality({c} \X D) = Cardinality({c}) * Cardinality(D)
      BY <3>1, FS_Product
    <3>3. Cardinality({c} \X D) = Cardinality(D)
      BY <3>1, <3>2
    <3> QED BY <3>2, <3>3 DEF D
  <2>3. SumFunction(DeviceCounts(CompanyBreakdown(rows))) = SumFunctionOnSet(n, S)
    <3>1. DeviceCounts(CompanyBreakdown(rows)) = n /\ DOMAIN n = S
      BY <2>2 DEF DeviceCounts, CompanyBreakdown
    <3> HIDE DEF n, S
    <3> QED BY <3>1 DEF SumFunction
  <2>4. Cardinality(UNION {F[c] : c \in S}) = SumFunctionOnSet(n, S)
    <3>1. \A c \in S : IsFiniteSet(F[c])
      BY <2>2
    <3>2. \A c, d \in S : c # d => F[c] \cap F[d] = {}
      OBVIOUS
    <3>3. IsFiniteSet(S)
      BY CountsFinite DEF TableInv
    <3> HIDE DEF S, F
    <3> QED BY <3>1, <3>2, <3>3, SumOfSizes
  <2>5. cards = UNION {F[c] : c \in S}
    <3>1. ASSUME NEW k \in Keys
          PROVE  Inventory(rows)[k] # NoCard <=> \E p \in rows : <<p.body.company, p.body.device>> = k
      <4>1. RowsOf(rows, k) # {} => Card(RowsOf(rows, k)) # NoCard
        <5>1. Distinct(RowsOf(rows, k)) /\ \A p \in RowsOf(rows, k) : p.body \in StoredBodies
          BY RowsDistinct, DistinctPart DEF RowsOf, TableInv
        <5> QED BY <5>1, CardIsCard
      <4>2. RowsOf(rows, k) # {} <=> \E p \in rows : <<p.body.company, p.body.device>> = k
        BY DEF RowsOf
      <4> QED BY <4>1, <4>2, InventoryAt
    <3>2. ASSUME NEW k \in cards PROVE \E c \in S : k \in F[c]
      <4>1. PICK p \in rows : <<p.body.company, p.body.device>> = k
        BY <3>1, <3>2
      <4>2. p.body.company \in S /\ k \in F[p.body.company]
        BY <4>1 DEF CompaniesIn, OfCompany, DevicesIn
      <4> HIDE DEF S, F
      <4> QED BY <4>2
    <3>3. ASSUME NEW c \in S, NEW k \in F[c] PROVE k \in cards
      <4>1. PICK p \in rows : <<p.body.company, p.body.device>> = k
        BY <3>3 DEF OfCompany, DevicesIn
      <4>2. k \in Keys
        BY <4>1, StoredBody DEF TableInv
      <4> QED BY <3>1, <4>1, <4>2
    <3> HIDE DEF S, F, cards
    <3> QED BY <3>2, <3>3
  <2> HIDE DEF S, F, n
  <2> QED BY <2>3, <2>4, <2>5 DEF CardsCounted
<1> QED BY <1>1, TableInductive, PTL

\* The three parts of one answer come from three moments, in that order.
THEOREM PartsInOrder == Spec => []SummaryCovers
<1>1. TableInv /\ SummaryInv => SummaryCovers
  <2> SUFFICES ASSUME TableInv, SummaryInv, summary # NoSummary, summary.at = "answered"
               PROVE  LET t == summary.totals  C == summary.companies  V == summary.versions IN
                      /\ t.companies <= Cardinality(DOMAIN C)
                      /\ Cardinality(DOMAIN C) <= t.companies + summary.missed
                      /\ t.devices <= SumFunction(DeviceCounts(C)) /\ t.devices <= SumFunction(V)
                      /\ \A c \in DOMAIN C : C[c].latest \in DOMAIN V
    BY DEF SummaryCovers
  <2>1. PICK R \in SUBSET rows : ReadOf(summary, R, rows) /\ AnsweredFrom(summary, R, rows)
    BY DEF SummaryInv, Reading
  <2>2. PICK Q, P \in SUBSET rows :
           /\ R \subseteq Q /\ Q \subseteq P
           /\ summary.companies = CompanyBreakdown(Q) /\ summary.versions = VersionBreakdown(P)
    BY <2>1 DEF AnsweredFrom
  <2>3. IsFiniteSet(R) /\ IsFiniteSet(Q) /\ IsFiniteSet(P) /\ IsFiniteSet(rows \ R)
    BY FS_Subset DEF TableInv
  <2>4. DOMAIN CompanyBreakdown(Q) = CompaniesIn(Q)
    BY DEF CompanyBreakdown
  <2>5. /\ Cardinality(CompaniesIn(R)) <= Cardinality(CompaniesIn(Q))
        /\ Cardinality(CompaniesIn(Q)) <= Cardinality(CompaniesIn(R)) + Cardinality(Q \ R)
    BY <2>2, <2>3, MoreCompanies
  <2>6. Cardinality(Q \ R) <= Cardinality(rows \ R)
    <3>1. Q \ R \in SUBSET (rows \ R)
      OBVIOUS
    <3> QED BY <2>3, <3>1, FS_Subset
  <2>7. /\ Cardinality(DevicesIn(R)) <= Cardinality(DevicesIn(Q))
        /\ Cardinality(DevicesIn(R)) <= Cardinality(DevicesIn(P))
    BY <2>2, <2>3, MoreDevices
  <2>8. /\ Cardinality(DevicesIn(Q)) <= SumFunction(DeviceCounts(CompanyBreakdown(Q)))
        /\ Cardinality(DevicesIn(P)) <= SumFunction(VersionBreakdown(P))
    BY <2>3, DevicesSpread
  <2>9. \A c \in DOMAIN CompanyBreakdown(Q) :
           CompanyBreakdown(Q)[c].latest \in DOMAIN VersionBreakdown(P)
    <3>1. Distinct(Q)
      BY RowsDistinct, DistinctPart
    <3> QED BY <2>2, <3>1, LatestListed
  <2>10. /\ Cardinality(CompaniesIn(R)) \in Nat /\ Cardinality(CompaniesIn(Q)) \in Nat
         /\ Cardinality(DevicesIn(R)) \in Nat /\ Cardinality(DevicesIn(Q)) \in Nat
         /\ Cardinality(DevicesIn(P)) \in Nat
         /\ SumFunction(DeviceCounts(CompanyBreakdown(Q))) \in Nat
         /\ SumFunction(VersionBreakdown(P)) \in Nat
    BY <2>3, CountsFinite, DevicesSpread
  <2>11. Cardinality(Q \ R) \in Nat /\ Cardinality(rows \ R) \in Nat
    BY <2>3, FS_Subset, FS_CardinalityType
  <2>12. Cardinality(CompaniesIn(Q)) <= Cardinality(CompaniesIn(R)) + Cardinality(rows \ R)
    BY <2>5, <2>6, <2>10, <2>11
  <2>13. /\ Cardinality(DevicesIn(R)) <= SumFunction(DeviceCounts(CompanyBreakdown(Q)))
         /\ Cardinality(DevicesIn(R)) <= SumFunction(VersionBreakdown(P))
    BY <2>7, <2>8, <2>10
  <2> QED BY <2>1, <2>2, <2>4, <2>5, <2>9, <2>12, <2>13 DEF ReadOf
<1> QED BY <1>1, SummaryInductive, PTL
=============================================================================
