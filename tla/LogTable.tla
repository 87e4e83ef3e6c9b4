------------------------------- MODULE LogTable -------------------------------
(***************************************************************************)
(* An append-only table of the server: app_pings (telemetry/pings.rs,      *)
(* migration 001) and bulk_milk_submission_log (bulk_milk_log/             *)
(* submissions.rs, migration 008).  A public POST inserts a row and        *)
(* nothing ever changes or deletes one.  An INSERT is not one moment:      *)
(* NOW() is the time its statement began, the BIGSERIAL id is drawn while  *)
(* it runs, and the row is there for others when it commits, so that these *)
(* three orders differ when inserts overlap.                               *)
(***************************************************************************)
EXTENDS Naturals, FiniteSets

CONSTANTS Handlers,   \* concurrent POSTs
          Bodies,     \* what a row holds besides its id and its time
          NoRow,      \* no INSERT under way
          MaxRows,    \* bound: ids given
          MaxTime     \* bound: the clock's last tick

ASSUME TableAssumption == MaxRows \in Nat /\ MaxTime \in Nat /\ IsFiniteSet(Handlers)
\* NoRow is no row.
ASSUME NoRowAssumption == NoRow \notin [at : Nat, id : Nat, body : Bodies]

VARIABLES clock,     \* the database's clock
          rows,      \* the rows committed
          running,   \* running[h]: the row h is inserting, id 0 before it has one
          lastId     \* the sequence

tableVars == <<clock, rows, running, lastId>>

Row == [at : Nat, id : Nat, body : Bodies]

TableTypeOK == /\ clock \in 0..MaxTime
               /\ rows \subseteq Row
               /\ running \in [Handlers -> Row \cup {NoRow}]
               /\ lastId \in 0..MaxRows

TableInit == /\ clock = 0
             /\ rows = {}
             /\ running = [h \in Handlers |-> NoRow]
             /\ lastId = 0

\* The statement reaches the database: DEFAULT NOW().
Begin(h, body) ==
    /\ running[h] = NoRow
    /\ lastId + Cardinality({o \in Handlers : running[o] # NoRow /\ running[o].id = 0}) < MaxRows
    /\ running' = [running EXCEPT ![h] = [at |-> clock, id |-> 0, body |-> body]]
    /\ UNCHANGED <<clock, rows, lastId>>

\* nextval() of the sequence.
DrawId(h) ==
    /\ running[h] # NoRow /\ running[h].id = 0
    /\ lastId' = lastId + 1
    /\ running' = [running EXCEPT ![h].id = lastId']
    /\ UNCHANGED <<clock, rows>>

Commit(h) ==
    /\ running[h] # NoRow /\ running[h].id # 0
    /\ rows' = rows \cup {running[h]}
    /\ running' = [running EXCEPT ![h] = NoRow]
    /\ UNCHANGED <<clock, lastId>>

\* The INSERT fails (500), or the server dies with it.
Lose(h) ==
    /\ running[h] # NoRow
    /\ running' = [running EXCEPT ![h] = NoRow]
    /\ UNCHANGED <<clock, rows, lastId>>

Tick == /\ clock < MaxTime
        /\ clock' = clock + 1
        /\ UNCHANGED <<rows, running, lastId>>

\* DrawId and Commit at once, for readers that do not look at ids.
DrawAndCommit(h) ==
    /\ running[h] # NoRow /\ running[h].id = 0
    /\ lastId' = lastId + 1
    /\ rows' = rows \cup {[running[h] EXCEPT !.id = lastId']}
    /\ running' = [running EXCEPT ![h] = NoRow]
    /\ UNCHANGED clock
=============================================================================
