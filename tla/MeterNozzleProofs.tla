--------------------------- MODULE MeterNozzleProofs ---------------------------
(***************************************************************************)
(* Proofs about MeterNozzle: whatever fails between the audit insert and   *)
(* the upsert, for any number of devices and any bounds, only audited      *)
(* numbers become the baseline and an answer of success has its audit row; *)
(* and what the anomaly rules promise of right reads and of misreads.      *)
(***************************************************************************)
EXTENDS MeterNozzle, TLAPS

\* A request that is past the audit insert has its row.
InsertedFirst == \A d \in Devices : dv[d].pc = "upsert" => dv[d].rec \in audit

IInv == TypeOK /\ InsertedFirst /\ BaselineAudited /\ AckedAudited

State == {Idle} \cup Photo \cup Compared \cup Answered \cup Confirming

LEMMA InitIInv == Init => IInv
  BY BoundsAssumption, NullAssumption
  DEF Init, IInv, TypeOK, Totals, Baseline, Idle, InsertedFirst, BaselineAudited, AckedAudited

-----------------------------------------------------------------------------
(* What the step a device is at says of the rest of its state.             *)

LEMMA AtPhoto ==
    ASSUME TypeOK, NEW d \in Devices, dv[d].pc = "photo"
    PROVE  dv[d] \in Photo
  BY DEF TypeOK, Idle, Photo, Compared, Answered, Confirming

LEMMA AtModel ==
    ASSUME TypeOK, NEW d \in Devices, dv[d].pc = "model"
    PROVE  dv[d] \in Compared
  BY DEF TypeOK, Idle, Photo, Compared, Answered, Confirming

LEMMA AtAnswer ==
    ASSUME TypeOK, NEW d \in Devices, dv[d].pc = "answer"
    PROVE  dv[d] \in Answered
  BY DEF TypeOK, Idle, Photo, Compared, Answered, Confirming

LEMMA AtConfirm ==
    ASSUME TypeOK, NEW d \in Devices, dv[d].pc \in {"insert", "upsert", "lost"}
    PROVE  dv[d] \in Confirming /\ dv[d].rec \in Confirmed
  BY DEF TypeOK, Idle, Photo, Compared, Answered, Confirming

\* A confirmation that goes from one step to the next is the same one.
LEMMA SameConfirmation ==
    ASSUME NEW c \in Confirming, NEW pc \in {"insert", "upsert", "lost"}
    PROVE  /\ [c EXCEPT !.pc = pc] \in Confirming
           /\ [c EXCEPT !.pc = pc].pc = pc
           /\ [c EXCEPT !.pc = pc].rec = c.rec
  BY DEF Confirming

\* COALESCE keeps the columns' types and makes up no number.
LEMMA CoalesceColumn ==
    ASSUME NEW S, NEW a \in S, NEW b \in S
    PROVE  Coalesce(a, b) \in S /\ Coalesce(a, b) \in {a, b}
  BY DEF Coalesce

-----------------------------------------------------------------------------
(* Each step preserves IInv.                                               *)

\* A device moves on and neither the row nor the audit trail is written.
LEMMA QuietStep ==
    ASSUME IInv, NEW d \in Devices, NEW state \in State,
           dv' = [dv EXCEPT ![d] = state], state.pc # "upsert",
           UNCHANGED <<meter, row, audit, acked>>, taps' \in 0..MaxConfirms
    PROVE  IInv'
<1> USE DEF IInv
<1>1. \A o \in Devices : dv'[o] = IF o = d THEN state ELSE dv[o]
  BY DEF TypeOK
<1>2. TypeOK'
  BY DEF TypeOK, State
<1>3. InsertedFirst'
  BY <1>1 DEF InsertedFirst
<1>4. BaselineAudited' /\ AckedAudited'
  BY DEF BaselineAudited, AckedAudited
<1> QED BY <1>2, <1>3, <1>4

LEMMA ReadStepIInv ==
    ASSUME IInv, NEW d \in Devices, ReadStep(d)
    PROVE  IInv'
<1> USE DEF Goto
<1>0. TypeOK /\ taps \in 0..MaxConfirms /\ Idle \in State /\ Idle.pc # "upsert"
  BY DEF IInv, TypeOK, State, Idle
<1>1. CASE TakePhoto(d)
  <2> DEFINE state == [pc |-> "photo", shot |-> meter]
  <2>1. state \in State /\ state.pc # "upsert"
    BY <1>0 DEF TypeOK, State, Photo
  <2>2. dv' = [dv EXCEPT ![d] = state] /\ UNCHANGED <<meter, row, audit, taps, acked>>
    BY <1>1 DEF TakePhoto
  <2> QED BY <1>0, <2>1, <2>2, QuietStep
<1>2. CASE ReadBaseline(d)
  <2>1. PICK base \in Baseline :
            dv' = [dv EXCEPT ![d] = [pc |-> "model", shot |-> dv[d].shot, base |-> base]]
    BY <1>0, <1>2 DEF ReadBaseline, TypeOK, Baseline
  <2> DEFINE state == [pc |-> "model", shot |-> dv[d].shot, base |-> base]
  <2>2. state \in State /\ state.pc # "upsert"
    BY <1>0, <1>2, AtPhoto DEF ReadBaseline, State, Photo, Compared
  <2>3. UNCHANGED <<meter, row, audit, taps, acked>>
    BY <1>2 DEF ReadBaseline
  <2> HIDE DEF state
  <2> QED BY <1>0, <2>1, <2>2, <2>3, QuietStep DEF state
<1>3. CASE Abandon(d)
  BY <1>0, <1>3, QuietStep DEF Abandon
<1>4. ASSUME NEW seen \in Baseline, NEW low \in BOOLEAN, ModelAnswers(d, seen, low)
      PROVE  IInv'
  <2> DEFINE flags == Anomalies(seen, dv[d].base)
             review == NeedsReview(seen, flags, low)
             state == [pc |-> "answer", shot |-> dv[d].shot, base |-> dv[d].base, seen |-> seen,
                       flags |-> flags, review |-> review]
  <2>1. dv' = [dv EXCEPT ![d] = state] /\ UNCHANGED <<meter, row, audit, taps, acked>>
    BY <1>4 DEF ModelAnswers, Answer
  <2>2. flags \in SUBSET Flags
    BY DEF Anomalies
  <2>3. review \in BOOLEAN
    BY Zenon DEF NeedsReview
  <2>4. dv[d].shot \in Totals /\ dv[d].base \in Baseline
    BY <1>0, <1>4, AtModel DEF ModelAnswers, Compared
  <2> HIDE DEF flags, review
  <2>5. state \in State /\ state.pc # "upsert"
    BY <2>2, <2>3, <2>4 DEF State, Answered
  <2> HIDE DEF state
  <2> QED BY <1>0, <2>1, <2>5, QuietStep
<1> QED BY <1>1, <1>2, <1>3, <1>4 DEF ReadStep

LEMMA ConfirmIInv ==
    ASSUME IInv, NEW d \in Devices, NEW l \in 0..MaxLiters \cup {Null},
           NEW s \in 0..MaxSales \cup {Null}, Confirm(d, l, s)
    PROVE  IInv'
<1> DEFINE state == [pc |-> "insert", rec |-> [at |-> taps + 1, liters |-> l, sale |-> s]]
<1>1. dv' = [dv EXCEPT ![d] = state] /\ taps' = taps + 1 /\ taps < MaxConfirms
      /\ UNCHANGED <<meter, row, audit, acked>>
  BY DEF Confirm, Goto
<1>2. taps + 1 \in 1..MaxConfirms
  BY <1>1, BoundsAssumption DEF IInv, TypeOK
<1>3. state \in State /\ state.pc # "upsert"
  BY <1>2 DEF State, Confirming, Confirmed
<1>4. taps' \in 0..MaxConfirms
  BY <1>1, <1>2
<1> HIDE DEF state
<1> QED BY <1>1, <1>3, <1>4, QuietStep

LEMMA InsertFailsIInv ==
    ASSUME IInv, NEW d \in Devices, InsertAuditFails(d) \/ Resend(d) \/ GiveUp(d)
    PROVE  IInv'
<1>0. TypeOK /\ taps \in 0..MaxConfirms /\ Idle \in State /\ Idle.pc # "upsert"
  BY DEF IInv, TypeOK, State, Idle
<1>1. CASE GiveUp(d)
  BY <1>0, <1>1, QuietStep DEF GiveUp, Goto
<1>2. CASE InsertAuditFails(d) \/ Resend(d)
  <2>1. PICK pc \in {"insert", "lost"} : dv' = [dv EXCEPT ![d].pc = pc]
    BY <1>2 DEF InsertAuditFails, Resend
  <2> DEFINE state == [dv[d] EXCEPT !.pc = pc]
  <2>2. dv' = [dv EXCEPT ![d] = state]
    BY <2>1
  <2>3. dv[d] \in Confirming
    BY <1>0, <1>2, AtConfirm DEF InsertAuditFails, Resend
  <2>4. state \in Confirming /\ state.pc = pc
    BY <2>3, SameConfirmation
  <2>5. UNCHANGED <<meter, row, audit, taps, acked>>
    BY <1>2 DEF InsertAuditFails, Resend
  <2> HIDE DEF state
  <2>6. state \in State /\ state.pc # "upsert"
    BY <2>4 DEF State
  <2> QED BY <1>0, <2>2, <2>5, <2>6, QuietStep
<1> QED BY <1>1, <1>2

\* The audit row is there before the request goes on.
LEMMA InsertAuditIInv ==
    ASSUME IInv, NEW d \in Devices, InsertAudit(d)
    PROVE  IInv'
<1> USE DEF IInv
<1> DEFINE state == [dv[d] EXCEPT !.pc = "upsert"]
<1>1. /\ dv' = [dv EXCEPT ![d] = state] /\ audit' = audit \cup {dv[d].rec}
      /\ UNCHANGED <<meter, row, taps, acked>>
  BY DEF InsertAudit
<1>2. dv[d] \in Confirming /\ dv[d].rec \in Confirmed
  BY AtConfirm DEF InsertAudit
<1>3. state \in Confirming /\ state.rec = dv[d].rec
  BY <1>2, SameConfirmation
<1> HIDE DEF state
<1>4. \A o \in Devices : dv'[o] = IF o = d THEN state ELSE dv[o]
  BY <1>1 DEF TypeOK
<1>5. TypeOK'
  BY <1>1, <1>2, <1>3 DEF TypeOK
<1>6. InsertedFirst'
  BY <1>1, <1>3, <1>4 DEF InsertedFirst
<1>7. BaselineAudited' /\ AckedAudited'
  BY <1>1 DEF BaselineAudited, AckedAudited
<1> QED BY <1>5, <1>6, <1>7

\* A row upserted from an audited confirmation.
LEMMA UpsertedRow ==
    ASSUME IInv, NEW rec \in Confirmed, rec \in audit,
           row' \in {row, [liters |-> Coalesce(rec.liters, row.liters),
                           sale |-> Coalesce(rec.sale, row.sale)]},
           audit' = audit
    PROVE  row' \in Baseline /\ BaselineAudited'
<1> USE DEF IInv
<1> DEFINE new == [liters |-> Coalesce(rec.liters, row.liters), sale |-> Coalesce(rec.sale, row.sale)]
<1>1. rec.liters \in 0..MaxLiters \cup {Null} /\ rec.sale \in 0..MaxSales \cup {Null}
  BY DEF Confirmed
<1>2. row.liters \in 0..MaxLiters \cup {Null} /\ row.sale \in 0..MaxSales \cup {Null}
  BY DEF TypeOK, Baseline
<1>3. new \in Baseline
  BY <1>1, <1>2, CoalesceColumn DEF Baseline
<1>4. new.liters \in {rec.liters, row.liters} /\ new.sale \in {rec.sale, row.sale}
  BY <1>1, <1>2, CoalesceColumn
<1> HIDE DEF new
<1>5. row' \in {row, new}
  BY DEF new
<1> QED BY <1>3, <1>4, <1>5 DEF BaselineAudited, TypeOK

LEMMA UpsertIInv ==
    ASSUME IInv, NEW d \in Devices, UpsertState(d) \/ UpsertStateFails(d)
    PROVE  IInv'
<1> USE DEF IInv
<1> DEFINE rec == dv[d].rec
<1>1. /\ row' \in {row, [liters |-> Coalesce(rec.liters, row.liters),
                         sale |-> Coalesce(rec.sale, row.sale)]}
      /\ acked' = acked \cup {rec.at} /\ dv' = [dv EXCEPT ![d] = Idle]
      /\ UNCHANGED <<meter, audit, taps>> /\ dv[d].pc = "upsert"
  BY DEF UpsertState, UpsertStateFails, Goto
<1>2. rec \in Confirmed /\ rec \in audit
  BY <1>1, AtConfirm DEF InsertedFirst
<1>3. rec.at \in 1..MaxConfirms
  BY <1>2 DEF Confirmed
<1> HIDE DEF rec
<1>4. row' \in Baseline /\ BaselineAudited'
  BY <1>1, <1>2, UpsertedRow
<1>5. TypeOK'
  BY <1>1, <1>3, <1>4 DEF TypeOK
<1>6. \A o \in Devices : dv'[o] = IF o = d THEN Idle ELSE dv[o]
  BY <1>1 DEF TypeOK
<1>7. InsertedFirst'
  BY <1>1, <1>6 DEF InsertedFirst, Idle
<1>8. AckedAudited'
  BY <1>1, <1>2 DEF AckedAudited
<1> QED BY <1>4, <1>5, <1>7, <1>8

LEMMA HangupIInv ==
    ASSUME IInv, NEW d \in Devices, Hangup(d)
    PROVE  IInv'
<1> USE DEF IInv
<1> DEFINE rec == dv[d].rec
           state == [dv[d] EXCEPT !.pc = "lost"]
<1>1. /\ dv' = [dv EXCEPT ![d] = state] /\ UNCHANGED <<meter, taps, acked>>
      /\ dv[d].pc \in {"insert", "upsert", "lost"}
  BY DEF Hangup
<1>2. dv[d] \in Confirming /\ rec \in Confirmed
  BY <1>1, AtConfirm
<1>3. state \in Confirming /\ state.pc = "lost"
  BY <1>2, SameConfirmation
<1>4. /\ audit \subseteq audit' /\ audit' \subseteq Confirmed
      /\ row' \in Baseline /\ BaselineAudited'
  <2>1. CASE dv[d].pc = "insert"
    <3>1. audit' \in {audit, audit \cup {rec}} /\ row' = row
      BY <2>1 DEF Hangup
    <3> QED BY <3>1, <1>2 DEF TypeOK, BaselineAudited
  <2>2. CASE dv[d].pc = "upsert"
    <3>1. /\ row' \in {row, [liters |-> Coalesce(rec.liters, row.liters),
                             sale |-> Coalesce(rec.sale, row.sale)]}
          /\ audit' = audit
      BY <2>2 DEF Hangup
    <3>2. rec \in audit
      BY <2>2 DEF InsertedFirst
    <3> HIDE DEF rec
    <3> QED BY <3>1, <3>2, <1>2, UpsertedRow DEF TypeOK
  <2> QED BY <2>1, <2>2 DEF Hangup
<1> HIDE DEF rec, state
<1>5. \A o \in Devices : dv'[o] = IF o = d THEN state ELSE dv[o]
  BY <1>1 DEF TypeOK
<1>6. TypeOK'
  BY <1>1, <1>3, <1>4 DEF TypeOK
<1>7. InsertedFirst'
  BY <1>3, <1>4, <1>5 DEF InsertedFirst
<1>8. AckedAudited'
  BY <1>1, <1>4 DEF AckedAudited
<1> QED BY <1>4, <1>6, <1>7, <1>8

LEMMA DispenseIInv ==
    ASSUME IInv, NEW l \in 1..MaxLiters, Dispense(l)
    PROVE  IInv'
<1>1. TypeOK'
  BY BoundsAssumption DEF IInv, Dispense, TypeOK, Totals
<1>2. InsertedFirst' /\ BaselineAudited' /\ AckedAudited'
  BY DEF IInv, Dispense, InsertedFirst, BaselineAudited, AckedAudited
<1> QED BY <1>1, <1>2 DEF IInv

LEMMA NextIInv == IInv /\ [Next]_vars => IInv'
<1> SUFFICES ASSUME IInv, [Next]_vars PROVE IInv'
  OBVIOUS
<1>1. CASE UNCHANGED vars
  BY <1>1 DEF vars, IInv, TypeOK, InsertedFirst, BaselineAudited, AckedAudited
<1>2. CASE \E l \in 1..MaxLiters : Dispense(l)
  BY <1>2, DispenseIInv
<1>3. ASSUME NEW d \in Devices, ConfirmStep(d) PROVE IInv'
  BY <1>3, ConfirmIInv, InsertFailsIInv, InsertAuditIInv, UpsertIInv, HangupIInv DEF ConfirmStep
<1> QED BY <1>1, <1>2, <1>3, ReadStepIInv DEF Next

-----------------------------------------------------------------------------

\* The invariant of the nozzle under failing queries, hang-ups and resends.
THEOREM NozzleInductive == Spec => []IInv
  BY InitIInv, NextIInv, PTL DEF Spec

\* Counters, baseline, audit trail and requests keep their types.
THEOREM NozzleTypeCorrect == Spec => []TypeOK
  BY NozzleInductive, PTL DEF IInv

\* The baseline only ever holds numbers an attendant confirmed and the audit
\* trail keeps, whatever fails between the two statements of a confirmation.
THEOREM BaselineIsAudited == Spec => []BaselineAudited
  BY NozzleInductive, PTL DEF IInv

\* Whoever was told "success" has a row in the audit trail.
THEOREM SuccessIsAudited == Spec => []AckedAudited
  BY NozzleInductive, PTL DEF IInv

-----------------------------------------------------------------------------
(* The anomaly rules, for every display: the rules see what is left of the *)
(* sale numbers modulo Ceiling + 1, the properties speak of the numbers.   *)

LEMMA Laps ==
    ASSUME NEW n \in Nat, NEW m \in Nat \ {0}
    PROVE  /\ n \div m \in Nat /\ n % m \in 0..(m - 1)
           /\ n = m * (n \div m) + (n % m)
  OBVIOUS

\* Who goes on by less than a lap and shows less has gone into the next lap.
LEMMA IntoNextLap ==
    ASSUME NEW m \in Nat \ {0}, NEW b \in Nat, NEW n \in Nat,
           b <= n, n - b < m, n % m < b % m
    PROVE  (b % m) - (n % m) = m - (n - b)
<1> DEFINE q == b \div m
           p == n \div m
           r == b % m
           s == n % m
<1>1. q \in Nat /\ p \in Nat /\ r \in 0..(m - 1) /\ s \in 0..(m - 1) /\ b = m * q + r /\ n = m * p + s
  BY Laps
<1> HIDE DEF q, p, r, s
<1>2. s < r
  BY DEF r, s
<1>3. p # q
  BY <1>1, <1>2
<1>4. ~(p < q)
  <2>1. p < q => m * (p + 1) <= m * q
    BY <1>1
  <2> QED BY <1>1, <2>1
<1>5. ~(p > q + 1)
  <2>1. p > q + 1 => m * (q + 2) <= m * p
    BY <1>1
  <2> QED BY <1>1, <2>1
<1>6. p = q + 1 /\ m * p = m * q + m
  BY <1>1, <1>3, <1>4, <1>5
<1> QED BY <1>1, <1>6 DEF r, s

\* A number that went on by at most SaleSlack is no regression, wrapped or not.
LEMMA AdvanceIsNoRegression ==
    ASSUME NEW b \in Nat, NEW n \in b..(b + SaleSlack)
    PROVE  ~SaleNumberRegression(Shown(n), Shown(b))
<1> DEFINE m == Ceiling + 1
           most == (Ceiling * 9) \div 10
<1>1. m \in Nat \ {0} /\ most \in Nat /\ SaleSlack \in Nat
      /\ SaleSlack < m /\ most <= m - SaleSlack
  BY BoundsAssumption DEF SaleSlack
<1>2. n \in Nat /\ b <= n /\ n - b <= SaleSlack
  BY <1>1
<1>3. n % m \in 0..(m - 1) /\ b % m \in 0..(m - 1)
  BY <1>1, <1>2, Laps
<1> HIDE DEF m, most
<1>4. n % m < b % m => (b % m) - (n % m) >= m - SaleSlack
  <2> SUFFICES ASSUME n % m < b % m PROVE (b % m) - (n % m) >= m - SaleSlack
    OBVIOUS
  <2>1. n - b < m
    BY <1>1, <1>2
  <2>2. (b % m) - (n % m) = m - (n - b)
    BY <1>1, <1>2, <2>1, IntoNextLap
  <2>3. m - (n - b) >= m - SaleSlack
    BY <1>1, <1>2
  <2> QED BY <2>2, <2>3
<1> QED BY <1>1, <1>3, <1>4 DEF SaleNumberRegression, Shown, m, most

-----------------------------------------------------------------------------
(* What an answer says: its flags are those of the rules, and a review is  *)
(* left out only if there is nothing to review.                            *)

Judged == \A d \in Devices : dv[d].pc = "answer" =>
              /\ dv[d].flags = Anomalies(dv[d].seen, dv[d].base)
              /\ ~dv[d].review => /\ dv[d].flags = {}
                                  /\ dv[d].seen.sale # Null /\ dv[d].seen.liters # Null

\* Every step but the model's answer leaves the answers there are alone.
LEMMA NextJudged == IInv /\ Judged /\ [Next]_vars => Judged'
<1> SUFFICES ASSUME IInv, Judged, [Next]_vars PROVE Judged'
  OBVIOUS
<1>0. dv \in [Devices -> State]
  BY DEF IInv, TypeOK, State
<1>1. ASSUME NEW d \in Devices, NEW state, dv' = [dv EXCEPT ![d] = state], state.pc # "answer"
      PROVE  Judged'
  BY <1>0, <1>1 DEF Judged
<1>2. ASSUME NEW d \in Devices, ReadStep(d) PROVE Judged'
  <2>1. CASE TakePhoto(d) \/ ReadBaseline(d) \/ Abandon(d)
    BY <1>1, <2>1 DEF TakePhoto, ReadBaseline, Abandon, Goto, Idle
  <2>2. ASSUME NEW seen \in Baseline, NEW low \in BOOLEAN, ModelAnswers(d, seen, low)
        PROVE  Judged'
    <3> DEFINE flags == Anomalies(seen, dv[d].base)
               review == NeedsReview(seen, flags, low)
               state == [pc |-> "answer", shot |-> dv[d].shot, base |-> dv[d].base, seen |-> seen,
                         flags |-> flags, review |-> review]
    <3>1. dv' = [dv EXCEPT ![d] = state]
      BY <2>2 DEF ModelAnswers, Answer, Goto
    <3>2. ~review => flags = {} /\ seen.sale # Null /\ seen.liters # Null
      BY Zenon DEF NeedsReview
    <3>3. \A o \in Devices : dv'[o] = IF o = d THEN state ELSE dv[o]
      BY <1>0, <3>1
    <3>4. /\ state.flags = Anomalies(state.seen, state.base) /\ state.review = review
          /\ state.seen = seen /\ state.flags = flags
      OBVIOUS
    <3> HIDE DEF state, review, flags
    <3> QED BY <3>2, <3>3, <3>4 DEF Judged
  <2> QED BY <1>2, <2>1, <2>2 DEF ReadStep
<1>3. ASSUME NEW d \in Devices, ConfirmStep(d) PROVE Judged'
  <2>1. CASE \E l \in 0..MaxLiters \cup {Null}, s \in 0..MaxSales \cup {Null} : Confirm(d, l, s)
    <3>1. PICK l, s : Confirm(d, l, s)
      BY <2>1
    <3> DEFINE state == [pc |-> "insert", rec |-> [at |-> taps + 1, liters |-> l, sale |-> s]]
    <3>2. dv' = [dv EXCEPT ![d] = state] /\ state.pc = "insert"
      BY <3>1 DEF Confirm, Goto
    <3> HIDE DEF state
    <3> QED BY <1>1, <3>2
  <2>2. CASE UpsertState(d) \/ UpsertStateFails(d) \/ GiveUp(d)
    BY <1>1, <2>2 DEF UpsertState, UpsertStateFails, GiveUp, Goto, Idle
  <2>3. CASE InsertAudit(d) \/ InsertAuditFails(d) \/ Hangup(d) \/ Resend(d)
    <3>1. PICK pc \in {"insert", "upsert", "lost"} : dv' = [dv EXCEPT ![d].pc = pc]
      BY <2>3 DEF InsertAudit, InsertAuditFails, Hangup, Resend
    <3>2. dv[d] \in Confirming
      BY <2>3, AtConfirm DEF IInv, InsertAudit, InsertAuditFails, Hangup, Resend
    <3> DEFINE state == [dv[d] EXCEPT !.pc = pc]
    <3>3. state.pc = pc /\ dv' = [dv EXCEPT ![d] = state]
      BY <3>1, <3>2, SameConfirmation
    <3> HIDE DEF state
    <3> QED BY <1>1, <3>3
  <2> QED BY <1>3, <2>1, <2>2, <2>3 DEF ConfirmStep
<1>4. CASE UNCHANGED dv
  BY <1>4 DEF Judged
<1> QED BY <1>2, <1>3, <1>4 DEF Next, Dispense, vars

LEMMA JudgedInductive == Spec => [](IInv /\ Judged)
<1>1. Init => Judged
  BY DEF Init, Judged, Idle
<1> QED BY <1>1, InitIInv, NextIInv, NextJudged, PTL DEF Spec

\* The numbers an answer compares.
LEMMA ComparedNumbers ==
    ASSUME IInv, NEW d \in Devices, dv[d].pc = "answer"
    PROVE  /\ dv[d].base \in Baseline /\ dv[d].seen \in Baseline
           /\ \A x \in {dv[d].base, dv[d].seen} :
                 /\ x.liters # Null => x.liters \in Nat
                 /\ x.sale # Null => x.sale \in Nat
<1>1. dv[d] \in Answered
  BY AtAnswer DEF IInv
<1>2. dv[d].base \in Baseline /\ dv[d].seen \in Baseline
  BY <1>1 DEF Answered
<1> QED BY <1>2, BoundsAssumption DEF Baseline

\* A right read is flagged only if the pump moved further than it may, or
\* another device confirmed a later photo meanwhile: for every ceiling, delta
\* and pair of numbers, and across every wrap of the display.
THEOREM NoFalseAlarm == Spec => []AlarmsJustified
<1>1. IInv /\ Judged => AlarmsJustified
  <2> SUFFICES ASSUME IInv, Judged, NEW d \in Devices,
                      dv[d].pc = "answer", dv[d].seen = dv[d].shot, dv[d].flags # {}
               PROVE  LET b == dv[d].base
                          n == dv[d].shot
                      IN  \/ b.liters # Null /\ n.liters \notin b.liters..(b.liters + MaxDelta)
                          \/ b.sale # Null /\ n.sale \notin b.sale..(b.sale + SaleSlack)
    BY DEF AlarmsJustified
  <2> DEFINE b == dv[d].base
             n == dv[d].seen
             f == dv[d].flags
  <2>1. f = Anomalies(n, b) /\ n = dv[d].shot /\ f # {}
    BY DEF Judged
  <2>2. \A x \in {b, n} : (x.liters # Null => x.liters \in Nat) /\ (x.sale # Null => x.sale \in Nat)
    BY ComparedNumbers
  <2> HIDE DEF b, n, f
  <2>3. PICK x \in Flags : x \in Anomalies(n, b)
    BY <2>1 DEF Anomalies
  <2>4. (n.liters # Null /\ b.liters # Null
            /\ (LitersDecreased(n.liters, b.liters) \/ DeltaTooLarge(n.liters, b.liters)))
        => n.liters \notin b.liters..(b.liters + MaxDelta)
    BY <2>2, BoundsAssumption DEF LitersDecreased, DeltaTooLarge
  <2>5. (n.sale # Null /\ b.sale # Null /\ SaleNumberRegression(Shown(n.sale), Shown(b.sale)))
        => n.sale \notin b.sale..(b.sale + SaleSlack)
    BY <2>2, AdvanceIsNoRegression
  <2>6. \/ n.liters # Null /\ b.liters # Null
              /\ (LitersDecreased(n.liters, b.liters) \/ DeltaTooLarge(n.liters, b.liters))
        \/ n.sale # Null /\ b.sale # Null /\ SaleNumberRegression(Shown(n.sale), Shown(b.sale))
    BY <2>3, Zenon DEF Anomalies
  <2>7. \/ b.liters # Null /\ n.liters \notin b.liters..(b.liters + MaxDelta)
        \/ b.sale # Null /\ n.sale \notin b.sale..(b.sale + SaleSlack)
    BY <2>4, <2>5, <2>6
  <2> QED BY <2>1, <2>7 DEF b, n
<1> QED BY <1>1, JudgedInductive, PTL

\* A misread that nobody is asked to review is off by no more than MaxDelta
\* litres, if the pump itself stayed within MaxDelta of the baseline.
THEOREM QuietMisreadsClose == Spec => []QuietReadsClose
<1>1. IInv /\ Judged => QuietReadsClose
  <2> SUFFICES ASSUME IInv, Judged, NEW d \in Devices, dv[d].pc = "answer", ~dv[d].review
               PROVE  LET b == dv[d].base
                          n == dv[d].seen
                          s == dv[d].shot
                      IN  /\ n.liters # Null /\ n.sale # Null
                          /\ (b.liters # Null /\ s.liters \in b.liters..(b.liters + MaxDelta)) =>
                                n.liters <= s.liters + MaxDelta /\ s.liters <= n.liters + MaxDelta
    BY DEF QuietReadsClose
  <2> DEFINE b == dv[d].base
             n == dv[d].seen
             s == dv[d].shot
  <2>1. Anomalies(n, b) = {} /\ n.liters # Null /\ n.sale # Null
    BY DEF Judged
  <2>2. \A x \in {b, n} : (x.liters # Null => x.liters \in Nat) /\ (x.sale # Null => x.sale \in Nat)
    BY ComparedNumbers
  <2> HIDE DEF b, n, s
  <2>3. "liters_decreased" \notin Anomalies(n, b) /\ "delta_too_large" \notin Anomalies(n, b)
    BY <2>1
  <2>4. b.liters # Null => ~LitersDecreased(n.liters, b.liters) /\ ~DeltaTooLarge(n.liters, b.liters)
    BY <2>1, <2>3 DEF Anomalies, Flags
  <2>5. (b.liters # Null /\ s.liters \in b.liters..(b.liters + MaxDelta)) =>
            n.liters <= s.liters + MaxDelta /\ s.liters <= n.liters + MaxDelta
    <3> SUFFICES ASSUME b.liters # Null, s.liters \in b.liters..(b.liters + MaxDelta)
                 PROVE  n.liters <= s.liters + MaxDelta /\ s.liters <= n.liters + MaxDelta
      OBVIOUS
    <3>1. b.liters \in Nat /\ n.liters \in Nat /\ s.liters \in Nat /\ MaxDelta \in Nat
      BY <2>1, <2>2, BoundsAssumption
    <3>2. b.liters <= n.liters /\ n.liters <= b.liters + MaxDelta
      BY <2>4, <3>1 DEF LitersDecreased, DeltaTooLarge
    <3>3. b.liters <= s.liters /\ s.liters <= b.liters + MaxDelta
      BY <3>1
    <3> QED BY <3>1, <3>2, <3>3
  <2> QED BY <2>1, <2>5 DEF b, n, s
<1> QED BY <1>1, JudgedInductive, PTL
=============================================================================
