---------------------------- MODULE MeterNozzle ----------------------------
(***************************************************************************)
(* One nozzle of the meter-OCR service (src/meter_ocr/operations.rs): what  *)
(* /read compares a photo with, and how /confirm records the attendant's   *)
(* numbers: an audit row, then the "last known" row, two statements with   *)
(* no transaction around them.  Several devices photograph the same nozzle *)
(* while the pump's two counters go on.  A sale count is kept here without *)
(* its wraps; Shown is what the display has left of it.                    *)
(***************************************************************************)
EXTENDS Naturals, FiniteSets

CONSTANTS Devices,
          Ceiling,      \* sale_number_rollover_ceiling: the display's last number
          MaxDelta,     \* max_liters_delta_per_shift
          MaxLiters,    \* bound on the totalizer
          MaxSales,     \* bound on the number of sales
          MaxConfirms,  \* bound on the number of confirmations
          Failures,     \* "db": queries fail; "hangup": clients go away
          Misreads,     \* what the model may return for a photo that shows another
          Null          \* a NULL column, a field that is not sent

ASSUME BoundsAssumption == /\ Ceiling \in Nat /\ MaxDelta \in Nat
                           /\ MaxLiters \in Nat /\ MaxSales \in Nat /\ MaxConfirms \in Nat
ASSUME NullAssumption == Null \notin Nat
ASSUME NozzleFailuresAssumption == Failures \subseteq {"db", "hangup"}
ASSUME MisreadsAssumption ==
    Misreads \subseteq [liters : 0..MaxLiters \cup {Null}, sale : 0..MaxSales \cup {Null}]

VARIABLES meter,   \* the pump's true totals
          row,     \* pump_reading_state: last_liters and last_sale_number
          audit,   \* pump_reading_audit; two rows for one confirmation are one here
          taps,    \* how many confirmations attendants have made
          dv,      \* dv[d]: what device d and its request are at
          acked    \* history: the confirmations answered 200

vars == <<meter, row, audit, taps, dv, acked>>

Totals == [liters : 0..MaxLiters, sale : 0..MaxSales]
Baseline == [liters : 0..MaxLiters \cup {Null}, sale : 0..MaxSales \cup {Null}]
\* at stands for the client's timestamp: the order in which attendants confirmed.
Confirmed == [at : 1..MaxConfirms, liters : 0..MaxLiters \cup {Null}, sale : 0..MaxSales \cup {Null}]
Flags == {"liters_decreased", "delta_too_large", "sale_number_regression"}

Idle == [pc |-> "idle"]
Photo == [pc : {"photo"}, shot : Totals]
Compared == [pc : {"model"}, shot : Totals, base : Baseline]
Answered == [pc : {"answer"}, shot : Totals, base : Baseline, seen : Baseline,
             flags : SUBSET Flags, review : BOOLEAN]
Confirming == [pc : {"insert", "upsert", "lost"}, rec : Confirmed]

TypeOK == /\ meter \in Totals
          /\ row \in Baseline
          /\ audit \subseteq Confirmed
          /\ taps \in 0..MaxConfirms
          /\ dv \in [Devices -> {Idle} \cup Photo \cup Compared \cup Answered \cup Confirming]
          /\ acked \subseteq 1..MaxConfirms

\* The pump has run for some time before its first photo.
Init == /\ meter \in Totals
        /\ row = [liters |-> Null, sale |-> Null]
        /\ audit = {}
        /\ taps = 0
        /\ dv = [d \in Devices |-> Idle]
        /\ acked = {}

\* The pump: a sale moves both counters.
Dispense(l) ==
    /\ meter.liters + l <= MaxLiters
    /\ meter.sale < MaxSales
    /\ meter' = [liters |-> meter.liters + l, sale |-> meter.sale + 1]
    /\ UNCHANGED <<row, audit, taps, dv, acked>>

-----------------------------------------------------------------------------
(* The anomaly rules.                                                      *)

Shown(sale) == sale % (Ceiling + 1)

\* Mutant: the two numbers are swapped.
LitersIncreased(liters, last) == last < liters
LitersDecreased(liters, last) == liters < last
DeltaTooLarge(liters, last) == liters > last + MaxDelta

\* Mutant: no allowance for a wrap of the display.
AnyDrop(sale, last) == sale < last
SaleNumberRegression(sale, last) ==
    sale < last /\ last - sale < (Ceiling * 9) \div 10

Anomalies(seen, base) ==
    {f \in Flags :
       \/ /\ seen.liters # Null /\ base.liters # Null
          /\ \/ f = "liters_decreased" /\ LitersDecreased(seen.liters, base.liters)
             \/ f = "delta_too_large" /\ DeltaTooLarge(seen.liters, base.liters)
       \/ /\ seen.sale # Null /\ base.sale # Null
          /\ f = "sale_number_regression"
          /\ SaleNumberRegression(Shown(seen.sale), Shown(base.sale))}

-----------------------------------------------------------------------------
(* POST /read.                                                             *)

Goto(d, state) == dv' = [dv EXCEPT ![d] = state]

TakePhoto(d) ==
    /\ dv[d] = Idle
    /\ Goto(d, [pc |-> "photo", shot |-> meter])
    /\ UNCHANGED <<meter, row, audit, taps, acked>>

\* A failed query is "no row": (None, None).
ReadBaseline(d) ==
    /\ dv[d].pc = "photo"
    /\ \E base \in {row} \cup IF "db" \in Failures
                              THEN {[liters |-> Null, sale |-> Null]} ELSE {} :
          Goto(d, [pc |-> "model", shot |-> dv[d].shot, base |-> base])
    /\ UNCHANGED <<meter, row, audit, taps, acked>>

\* What the model makes of the photo: a row it leaves empty, or that does not
\* parse, is Null.
SeenIn(shot) == {shot} \cup Misreads

NeedsReview(seen, flags, low) == low \/ flags # {} \/ seen.sale = Null \/ seen.liters = Null

Answer(d, seen, low) ==
    LET flags == Anomalies(seen, dv[d].base) IN
    Goto(d, [pc |-> "answer", shot |-> dv[d].shot, base |-> dv[d].base, seen |-> seen,
             flags |-> flags, review |-> NeedsReview(seen, flags, low)])

\* Mutant: the model's numbers become the baseline.
ModelAnswersAndStores(d, seen, low) ==
    /\ dv[d].pc = "model"
    /\ seen \in SeenIn(dv[d].shot)
    /\ Answer(d, seen, low)
    /\ row' = seen
    /\ UNCHANGED <<meter, audit, taps, acked>>

\* low: the model reports low confidence.
ModelAnswers(d, seen, low) ==
    /\ dv[d].pc = "model"
    /\ seen \in SeenIn(dv[d].shot)
    /\ Answer(d, seen, low)
    /\ UNCHANGED <<meter, row, audit, taps, acked>>

\* The photo is retaken, the call fails or the client goes away.
Abandon(d) ==
    /\ dv[d].pc \in {"photo", "model", "answer"}
    /\ Goto(d, Idle)
    /\ UNCHANGED <<meter, row, audit, taps, acked>>

-----------------------------------------------------------------------------
(* POST /confirm.                                                          *)

\* The attendant confirms what the display showed, with or without a cloud
\* read, either number possibly left out.
Confirm(d, l, s) ==
    /\ dv[d].pc \in {"photo", "answer"}
    /\ taps < MaxConfirms
    /\ l \in {dv[d].shot.liters, Null}
    /\ s \in {dv[d].shot.sale, Null}
    /\ taps' = taps + 1
    /\ Goto(d, [pc |-> "insert", rec |-> [at |-> taps + 1, liters |-> l, sale |-> s]])
    /\ UNCHANGED <<meter, row, audit, acked>>

\* Mutant: the audit insert's error is swallowed like the upsert's.
SwallowInsertFailure(d) ==
    /\ "db" \in Failures
    /\ dv[d].pc = "insert"
    /\ dv' = [dv EXCEPT ![d].pc = "upsert"]
    /\ UNCHANGED <<meter, row, audit, taps, acked>>

\* 500 "Could not record the confirmed reading - try again."
InsertAuditFails(d) ==
    /\ "db" \in Failures
    /\ dv[d].pc = "insert"
    /\ dv' = [dv EXCEPT ![d].pc = "lost"]
    /\ UNCHANGED <<meter, row, audit, taps, acked>>

InsertAudit(d) ==
    /\ dv[d].pc = "insert"
    /\ audit' = audit \cup {dv[d].rec}
    /\ dv' = [dv EXCEPT ![d].pc = "upsert"]
    /\ UNCHANGED <<meter, row, taps, acked>>

\* COALESCE(EXCLUDED.x, pump_reading_state.x)
Coalesce(new, old) == IF new = Null THEN old ELSE new

UpsertState(d) ==
    /\ dv[d].pc = "upsert"
    /\ row' = [liters |-> Coalesce(dv[d].rec.liters, row.liters),
               sale |-> Coalesce(dv[d].rec.sale, row.sale)]
    /\ acked' = acked \cup {dv[d].rec.at}
    /\ Goto(d, Idle)
    /\ UNCHANGED <<meter, audit, taps>>

\* The audit row is the durable record: the failure is traced, the answer 200.
UpsertStateFails(d) ==
    /\ "db" \in Failures
    /\ dv[d].pc = "upsert"
    /\ acked' = acked \cup {dv[d].rec.at}
    /\ Goto(d, Idle)
    /\ UNCHANGED <<meter, row, audit, taps>>

\* The client goes away: the statement it was waiting for may or may not run.
Hangup(d) ==
    /\ "hangup" \in Failures
    /\ \/ /\ dv[d].pc = "insert"
          /\ audit' \in {audit, audit \cup {dv[d].rec}}
          /\ row' = row
       \/ /\ dv[d].pc = "upsert"
          /\ row' \in {row, [liters |-> Coalesce(dv[d].rec.liters, row.liters),
                             sale |-> Coalesce(dv[d].rec.sale, row.sale)]}
          /\ audit' = audit
    /\ dv' = [dv EXCEPT ![d].pc = "lost"]
    /\ UNCHANGED <<meter, taps, acked>>

\* A confirmation without an answer is sent again, or given up.
Resend(d) ==
    /\ dv[d].pc = "lost"
    /\ dv' = [dv EXCEPT ![d].pc = "insert"]
    /\ UNCHANGED <<meter, row, audit, taps, acked>>

GiveUp(d) ==
    /\ dv[d].pc = "lost"
    /\ Goto(d, Idle)
    /\ UNCHANGED <<meter, row, audit, taps, acked>>

ReadStep(d) == \/ TakePhoto(d) \/ ReadBaseline(d) \/ Abandon(d)
               \/ \E seen \in Baseline, low \in BOOLEAN : ModelAnswers(d, seen, low)
ConfirmStep(d) == \/ \E l \in 0..MaxLiters \cup {Null}, s \in 0..MaxSales \cup {Null} : Confirm(d, l, s)
                  \/ InsertAudit(d) \/ InsertAuditFails(d)
                  \/ UpsertState(d) \/ UpsertStateFails(d)
                  \/ Hangup(d) \/ Resend(d) \/ GiveUp(d)

Next == \/ \E l \in 1..MaxLiters : Dispense(l)
        \/ \E d \in Devices : ReadStep(d) \/ ConfirmStep(d)

Spec == Init /\ [][Next]_vars

-----------------------------------------------------------------------------
(* Properties.                                                             *)

\* The baseline holds numbers an attendant confirmed and the audit trail
\* keeps, never a guess of the model (177-179), whatever fails in between.
BaselineAudited ==
    /\ row.liters # Null => \E c \in audit : c.liters = row.liters
    /\ row.sale # Null => \E c \in audit : c.sale = row.sale

\* An attendant who was told "success" has a row in the audit trail: "the
\* audit row is already safely written" (995-998).
AckedAudited == \A a \in acked : \E c \in audit : c.at = a

\* How far a sale number may go on from the baseline: what 90 % of the ceiling
\* (474-490) leave of the display.
SaleSlack == Ceiling - ((Ceiling * 9) \div 10)

\* No false alarm.  A right read of the display is flagged only if the pump
\* did move further than it may between two confirmations, or if another
\* device has confirmed a later photo while this one was on its way; not
\* because the display has wrapped in between.
AlarmsJustified ==
    \A d \in Devices : (dv[d].pc = "answer" /\ dv[d].seen = dv[d].shot /\ dv[d].flags # {}) =>
        LET b == dv[d].base
            n == dv[d].shot
        IN  \/ b.liters # Null /\ n.liters \notin b.liters..(b.liters + MaxDelta)
            \/ b.sale # Null /\ n.sale \notin b.sale..(b.sale + SaleSlack)

\* A misread that nobody is asked to review (235-238) is harmless: both
\* numbers are there and, if the pump itself has stayed within MaxDelta of the
\* baseline, the litres are off by no more than MaxDelta.  The sale number has
\* no such bound: it may be any later one, and any that looks like a wrap.
QuietReadsClose ==
    \A d \in Devices : (dv[d].pc = "answer" /\ ~dv[d].review) =>
        LET b == dv[d].base
            n == dv[d].seen
            s == dv[d].shot
        IN  /\ n.liters # Null /\ n.sale # Null
            /\ (b.liters # Null /\ s.liters \in b.liters..(b.liters + MaxDelta)) =>
                  n.liters <= s.liters + MaxDelta /\ s.liters <= n.liters + MaxDelta

\* Migration 007, 29-30: the table "only ever holds the latest value":
\* whenever no confirmation is on its way, the baseline is the number of the
\* latest confirmation that has one.  Not so with two devices, as the upsert
\* (977) overwrites whatever is there.
LatestBaseline ==
    (\A d \in Devices : dv[d].pc \notin {"insert", "upsert", "lost"}) =>
        /\ \A c \in audit : (c.liters # Null /\ \A e \in audit : e.liters # Null => e.at <= c.at)
                => row.liters = c.liters
        /\ \A c \in audit : (c.sale # Null /\ \A e \in audit : e.sale # Null => e.at <= c.at)
                => row.sale = c.sale
=============================================================================
