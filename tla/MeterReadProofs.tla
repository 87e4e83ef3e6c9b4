-------------------------- MODULE MeterReadProofs --------------------------
(***************************************************************************)
(* Proofs about MeterRead: the two layers of retries, for any companies,   *)
(* any number of concurrent requests and any failures, and what the daily  *)
(* cap bounds in spite of them.                                            *)
(***************************************************************************)
EXTENDS MeterRead, SumTheorems, TLAPS

TransientOutcomes == {"network", "5xx", "429"}

(* Where a request stands in its two rounds of two says what its POSTs came *)
(* to so far.                                                              *)
SendProgress(x) ==
    LET t == x.trail IN
    \/ x.round = 0 /\ x.attempt = 0 /\ t = <<>>
    \/ x.round = 0 /\ x.attempt = 1 /\ Len(t) = 1 /\ t[1] \in TransientOutcomes
    \/ x.round = 0 /\ x.attempt = 2 /\ Len(t) = 2 /\ t[1] \in TransientOutcomes
          /\ t[2] \in TransientOutcomes
    \/ x.round = 1 /\ x.attempt = 0 /\ Len(t) = 1 /\ t[1] = "schema"
    \/ x.round = 1 /\ x.attempt = 0 /\ Len(t) = 2 /\ t[1] \in TransientOutcomes /\ t[2] = "schema"
    \/ x.round = 1 /\ x.attempt = 1 /\ Len(t) = 2 /\ t[1] = "schema" /\ t[2] \in TransientOutcomes
    \/ x.round = 1 /\ x.attempt = 1 /\ Len(t) = 3 /\ t[1] \in TransientOutcomes /\ t[2] = "schema"
          /\ t[3] \in TransientOutcomes
    \/ x.round = 1 /\ x.attempt = 2 /\ Len(t) = 3 /\ t[1] = "schema" /\ t[2] \in TransientOutcomes
          /\ t[3] \in TransientOutcomes
    \/ x.round = 1 /\ x.attempt = 2 /\ Len(t) = 4 /\ t[1] \in TransientOutcomes /\ t[2] = "schema"
          /\ t[3] \in TransientOutcomes /\ t[4] \in TransientOutcomes

(* last_was_rate_limited is about the last failed attempt of this round.   *)
FlagFits(x) == /\ x.attempt = 0 => ~x.limited
               /\ x.attempt > 0 => (x.limited <=> x.trail[Len(x.trail)] = "429")

(* What the trail of a finished call looks like.                           *)
CallOver(x) ==
    /\ Len(x.trail) <= 4
    /\ Justified(x.trail)
    /\ x.result = "rate_limited" <=> (x.trail # <<>> /\ x.trail[Len(x.trail)] = "429")

Advanced(x) ==
    /\ x.pc \in {"lookup", "count", "send"} => SendProgress(x) /\ FlagFits(x)
    /\ x.pc \in {"lookup", "count"} => x.trail = <<>> /\ x.round = 0 /\ x.attempt = 0 /\ ~x.checked
    /\ x.pc = "log" => CallOver(x)

RetryInv == TypeOK /\ \A r \in Readers : rd[r] # Idle => Advanced(rd[r])

-----------------------------------------------------------------------------
(* Trails of one and two rounds.                                           *)

\* What SendProgress says of the length.
LEMMA ProgressLen ==
    ASSUME NEW x \in Read, SendProgress(x)
    PROVE  /\ Len(x.trail) \in 0..4
           /\ x.attempt < 2 => Len(x.trail) \in 0..3
           /\ x.attempt > 0 => Len(x.trail) > 0
<1> DEFINE n == Len(x.trail)
<1>1. x.trail = <<>> => n = 0
  OBVIOUS
<1>2. \/ x.attempt = 0 /\ n \in {0, 1, 2}
      \/ x.attempt = 1 /\ n \in {1, 2, 3}
      \/ x.attempt = 2 /\ n \in {2, 3, 4}
  BY <1>1 DEF SendProgress
<1> HIDE DEF n
<1>3. n \in 0..4 /\ (x.attempt < 2 => n \in 0..3) /\ (x.attempt > 0 => n > 0)
  BY <1>2
<1> QED BY <1>3 DEF n

LEMMA AppendFacts ==
    ASSUME NEW t \in Seq(Outcomes), NEW o \in Outcomes
    PROVE  /\ Append(t, o) \in Seq(Outcomes)
           /\ Len(Append(t, o)) = Len(t) + 1
           /\ Append(t, o)[Len(t) + 1] = o
           /\ \A i \in 1..Len(t) : Append(t, o)[i] = t[i]
  OBVIOUS

\* A finished round on its own.
LEMMA OneRoundJustified ==
    ASSUME NEW t \in Seq(Outcomes), RoundDone(t), t[Len(t)] # "schema"
    PROVE  Justified(t)
  BY DEF Justified

\* An unusable payload at the first POST, and a second round.
LEMMA AfterOnePost ==
    ASSUME NEW t \in Seq(Outcomes), Len(t) \in {2, 3},
           t[1] = "schema",
           Len(t) = 2 => t[2] \notin TransientOutcomes,
           Len(t) = 3 => t[2] \in TransientOutcomes
    PROVE  Justified(t)
<1> DEFINE a == SubSeq(t, 1, 1)
           b == SubSeq(t, 2, Len(t))
<1>1. Len(a) = 1 /\ a[1] = t[1]
  OBVIOUS
<1>2. Len(b) = Len(t) - 1 /\ b[1] = t[2]
  OBVIOUS
<1>3. RoundDone(a)
  BY <1>1 DEF RoundDone, TransientOutcomes
<1>4. RoundDone(b)
  BY <1>2 DEF RoundDone, TransientOutcomes
<1>5. 1 \in 1..(Len(t) - 1)
  OBVIOUS
<1> QED BY <1>3, <1>4, <1>5 DEF Justified

\* An unusable payload at the retry of the first POST, and a second round.
LEMMA AfterTwoPosts ==
    ASSUME NEW t \in Seq(Outcomes), Len(t) \in {3, 4}, t[1] \in TransientOutcomes,
           t[2] = "schema",
           Len(t) = 3 => t[3] \notin TransientOutcomes,
           Len(t) = 4 => t[3] \in TransientOutcomes
    PROVE  Justified(t)
<1> DEFINE a == SubSeq(t, 1, 2)
           b == SubSeq(t, 3, Len(t))
<1>1. Len(a) = 2 /\ a[1] = t[1]
  OBVIOUS
<1>2. Len(b) = Len(t) - 2 /\ b[1] = t[3]
  OBVIOUS
<1>3. RoundDone(a)
  BY <1>1 DEF RoundDone, TransientOutcomes
<1>4. RoundDone(b)
  BY <1>2 DEF RoundDone, TransientOutcomes
<1>5. 2 \in 1..(Len(t) - 1)
  OBVIOUS
<1> QED BY <1>3, <1>4, <1>5 DEF Justified

-----------------------------------------------------------------------------
(* The POSTs of one call keep SendProgress and end in CallOver.            *)

LEMMA RetryProgress ==
    ASSUME NEW x \in Read, SendProgress(x), NEW o \in Outcomes,
           o \in TransientOutcomes, x.attempt < 2,
           NEW y \in Read, y.round = x.round, y.attempt = x.attempt + 1,
           y.trail = Append(x.trail, o), y.limited <=> o = "429"
    PROVE  SendProgress(y) /\ FlagFits(y)
<1>1. x.trail \in Seq(Outcomes) /\ x.round \in 0..1 /\ x.attempt \in 0..1
  BY DEF Read
<1>2. /\ Len(y.trail) = Len(x.trail) + 1
      /\ y.trail[Len(x.trail) + 1] = o
      /\ \A i \in 1..Len(x.trail) : y.trail[i] = x.trail[i]
  BY <1>1, AppendFacts
<1>3. FlagFits(y)
  BY <1>1, <1>2 DEF FlagFits
<1>4. SendProgress(y)
  BY <1>1, <1>2 DEF SendProgress
<1> QED BY <1>3, <1>4

LEMMA SecondRoundProgress ==
    ASSUME NEW x \in Read, SendProgress(x), x.round = 0, x.attempt < 2,
           NEW y \in Read, y.round = 1, y.attempt = 0, y.trail = Append(x.trail, "schema"),
           "schema" \in Outcomes
    PROVE  SendProgress(y)
<1>1. x.trail \in Seq(Outcomes)
  BY DEF Read
<1>2. /\ Len(y.trail) = Len(x.trail) + 1
      /\ y.trail[Len(x.trail) + 1] = "schema"
      /\ \A i \in 1..Len(x.trail) : y.trail[i] = x.trail[i]
  BY <1>1, AppendFacts
<1> QED BY <1>1, <1>2 DEF SendProgress

\* The last POST was answered, with a reading or without.
LEMMA CallEnded ==
    ASSUME NEW x \in Read, SendProgress(x), x.attempt < 2, NEW o \in Outcomes,
           o \notin TransientOutcomes, ~(o = "schema" /\ x.round = 0),
           NEW y \in Read, y.trail = Append(x.trail, o), y.result # "rate_limited"
    PROVE  CallOver(y)
<1> DEFINE t == y.trail
<1>1. x.trail \in Seq(Outcomes) /\ x.round \in 0..1 /\ x.attempt \in 0..1
  BY DEF Read
<1>2. /\ t \in Seq(Outcomes)
      /\ Len(t) = Len(x.trail) + 1
      /\ t[Len(x.trail) + 1] = o
      /\ \A i \in 1..Len(x.trail) : t[i] = x.trail[i]
  BY <1>1, AppendFacts
<1>3. Len(x.trail) \in 0..3 /\ Len(t) <= 4 /\ t[Len(t)] = o
  BY <1>1, <1>2, ProgressLen
<1>4. o = "schema" => x.round = 1
  BY <1>1 DEF TransientOutcomes
<1>5. ~(y.result = "rate_limited") /\ t[Len(t)] # "429"
  BY <1>3 DEF TransientOutcomes
<1>6. SUFFICES Justified(t)
  BY <1>3, <1>5, Zenon DEF CallOver, t
<1> HIDE DEF t
<1>7. CASE x.round = 0 /\ x.attempt = 0 /\ x.trail = <<>>
  <2>1. Len(t) = 1 /\ t[1] = o
    BY <1>2, <1>7
  <2>2. o # "schema"
    BY <1>4, <1>7
  <2>3. RoundDone(t)
    BY <2>1 DEF RoundDone, TransientOutcomes
  <2> QED BY <1>2, <2>1, <2>2, <2>3, OneRoundJustified
<1>8. CASE x.round = 0 /\ x.attempt = 1 /\ Len(x.trail) = 1 /\ x.trail[1] \in TransientOutcomes
  <2>1. Len(t) = 2 /\ t[1] \in TransientOutcomes /\ t[2] = o
    BY <1>2, <1>8
  <2>2. o # "schema"
    BY <1>4, <1>8
  <2>3. RoundDone(t)
    BY <2>1 DEF RoundDone, TransientOutcomes
  <2> QED BY <1>2, <2>1, <2>2, <2>3, OneRoundJustified
<1>9. CASE x.round = 1 /\ x.attempt = 0 /\ Len(x.trail) = 1 /\ x.trail[1] = "schema"
  <2>1. Len(t) = 2 /\ t[1] = "schema" /\ t[2] \notin TransientOutcomes
    BY <1>2, <1>9
  <2>2. /\ Len(t) \in {2, 3} /\ t[1] = "schema"
        /\ Len(t) = 2 => t[2] \notin TransientOutcomes
        /\ Len(t) = 3 => t[2] \in TransientOutcomes
    BY <2>1
  <2> QED BY <1>2, <2>2, AfterOnePost, Zenon
<1>10. CASE /\ x.round = 1 /\ x.attempt = 0 /\ Len(x.trail) = 2
            /\ x.trail[1] \in TransientOutcomes /\ x.trail[2] = "schema"
  <2>1. /\ Len(t) = 3 /\ t[1] \in TransientOutcomes /\ t[2] = "schema"
        /\ t[3] \notin TransientOutcomes
    BY <1>2, <1>10
  <2>2. /\ Len(t) \in {3, 4} /\ t[1] \in TransientOutcomes /\ t[2] = "schema"
        /\ Len(t) = 3 => t[3] \notin TransientOutcomes
        /\ Len(t) = 4 => t[3] \in TransientOutcomes
    BY <2>1
  <2> QED BY <1>2, <2>2, AfterTwoPosts, Zenon
<1>11. CASE /\ x.round = 1 /\ x.attempt = 1 /\ Len(x.trail) = 2
            /\ x.trail[1] = "schema" /\ x.trail[2] \in TransientOutcomes
  <2>1. Len(t) = 3 /\ t[1] = "schema" /\ t[2] \in TransientOutcomes
    BY <1>2, <1>11
  <2>2. /\ Len(t) \in {2, 3} /\ t[1] = "schema"
        /\ Len(t) = 2 => t[2] \notin TransientOutcomes
        /\ Len(t) = 3 => t[2] \in TransientOutcomes
    BY <2>1
  <2> QED BY <1>2, <2>2, AfterOnePost, Zenon
<1>12. CASE /\ x.round = 1 /\ x.attempt = 1 /\ Len(x.trail) = 3
            /\ x.trail[1] \in TransientOutcomes /\ x.trail[2] = "schema"
            /\ x.trail[3] \in TransientOutcomes
  <2>1. /\ Len(t) = 4 /\ t[1] \in TransientOutcomes /\ t[2] = "schema"
        /\ t[3] \in TransientOutcomes
    BY <1>2, <1>12
  <2>2. /\ Len(t) \in {3, 4} /\ t[1] \in TransientOutcomes /\ t[2] = "schema"
        /\ Len(t) = 3 => t[3] \notin TransientOutcomes
        /\ Len(t) = 4 => t[3] \in TransientOutcomes
    BY <2>1
  <2> QED BY <1>2, <2>2, AfterTwoPosts, Zenon
<1> QED BY <1>1, <1>7, <1>8, <1>9, <1>10, <1>11, <1>12 DEF SendProgress, t

\* Both turns of a round's loop failed: the flag is about the second.
LEMMA CallExhausted ==
    ASSUME NEW x \in Read, SendProgress(x), FlagFits(x), x.attempt = 2,
           NEW y \in Read, y.trail = x.trail, y.result = "rate_limited" <=> x.limited
    PROVE  CallOver(y)
<1> DEFINE t == y.trail
<1>1. t \in Seq(Outcomes) /\ t = x.trail
  BY DEF Read
<1> DEFINE n == Len(t)
<1>2. n \in 0..4 /\ n > 0
  BY ProgressLen
<1>3. t = <<>> => n = 0
  OBVIOUS
<1> HIDE DEF n
<1>4. n <= 4 /\ t # <<>>
  BY <1>2, <1>3
<1>5. Len(t) <= 4 /\ (y.result = "rate_limited" <=> (t # <<>> /\ t[Len(t)] = "429"))
  BY <1>4 DEF FlagFits, n
<1>6. SUFFICES Justified(t)
  BY <1>5, Zenon DEF CallOver, t
<1> HIDE DEF t
<1>7. CASE Len(t) = 2 /\ t[1] \in TransientOutcomes /\ t[2] \in TransientOutcomes
  <2>1. RoundDone(t) /\ t[Len(t)] # "schema"
    BY <1>7 DEF RoundDone, TransientOutcomes
  <2> QED BY <1>1, <2>1, OneRoundJustified
<1>8. CASE Len(t) = 3 /\ t[1] = "schema" /\ t[2] \in TransientOutcomes
  <2>1. /\ Len(t) \in {2, 3} /\ t[1] = "schema"
        /\ Len(t) = 2 => t[2] \notin TransientOutcomes
        /\ Len(t) = 3 => t[2] \in TransientOutcomes
    BY <1>8
  <2> QED BY <1>1, <2>1, AfterOnePost, Zenon
<1>9. CASE /\ Len(t) = 4 /\ t[1] \in TransientOutcomes /\ t[2] = "schema"
           /\ t[3] \in TransientOutcomes
  <2>1. /\ Len(t) \in {3, 4} /\ t[1] \in TransientOutcomes /\ t[2] = "schema"
        /\ Len(t) = 3 => t[3] \notin TransientOutcomes
        /\ Len(t) = 4 => t[3] \in TransientOutcomes
    BY <1>9
  <2> QED BY <1>1, <2>1, AfterTwoPosts, Zenon
<1> QED BY <1>1, <1>7, <1>8, <1>9 DEF SendProgress

-----------------------------------------------------------------------------
(* The steps of a read keep RetryInv.                                      *)

LEMMA InitRetryInv == Init => RetryInv
  BY DEF Init, RetryInv, TypeOK, Idle

\* A step of one request that leaves the others alone.
LEMMA OneReadMoves ==
    ASSUME RetryInv, NEW r \in Readers, NEW y \in Read \cup {Idle},
           y # Idle => Advanced(y),
           rd' = [rd EXCEPT ![r] = y],
           rows' \in [Companies -> Nat], free' \in [Companies -> Nat]
    PROVE  RetryInv'
<1>1. rd' \in [Readers -> Read \cup {Idle}]
  BY DEF RetryInv, TypeOK
<1>2. ASSUME NEW s \in Readers, rd'[s] # Idle PROVE Advanced(rd'[s])
  BY <1>2 DEF RetryInv, TypeOK
<1> QED BY <1>1, <1>2 DEF RetryInv, TypeOK

\* The read a step is about, with the type of its fields.
LEMMA Busy ==
    ASSUME RetryInv, NEW r \in Readers, rd[r].pc \in {"lookup", "count", "send", "log"}
    PROVE  rd[r] \in Read /\ rd[r] # Idle /\ Advanced(rd[r])
  BY DEF RetryInv, TypeOK, Idle

LEMMA StopStep ==
    ASSUME RetryInv, NEW r \in Readers, Stop(r),
           rows' \in [Companies -> Nat], free' \in [Companies -> Nat]
    PROVE  RetryInv'
  BY OneReadMoves DEF Stop

LEMMA ReceiveStep ==
    ASSUME RetryInv, NEW r \in Readers, NEW c \in Companies, Receive(r, c)
    PROVE  RetryInv'
<1> DEFINE y == [pc |-> "lookup", company |-> c, checked |-> FALSE,
                 round |-> 0, attempt |-> 0, limited |-> FALSE,
                 trail |-> <<>>, result |-> "none"]
<1>1. y \in Read
  BY DEF Read
<1>2. SendProgress(y)
  BY Zenon DEF SendProgress
<1>3. Advanced(y)
  BY <1>2 DEF Advanced, FlagFits
<1>4. rd' = [rd EXCEPT ![r] = y] /\ rows' = rows /\ free' = free
  BY DEF Receive
<1> HIDE DEF y
<1> QED BY <1>1, <1>3, <1>4, OneReadMoves DEF RetryInv, TypeOK

\* The lookup and the cap check send nothing.
LEMMA QueryStep ==
    ASSUME RetryInv, NEW r \in Readers, Query(r)
    PROVE  RetryInv'
<1>1. ASSUME NEW y \in Read, rd[r].pc \in {"lookup", "count"}, rd' = [rd EXCEPT ![r] = y],
             rows' = rows, free' = free,
             y.pc = "send" \/ (y.pc = "count" /\ ~y.checked),
             y.trail = rd[r].trail, y.round = rd[r].round, y.attempt = rd[r].attempt,
             y.limited = rd[r].limited
      PROVE  RetryInv'
  <2>1. Advanced(rd[r])
    BY <1>1, Busy
  <2>2. SendProgress(rd[r]) /\ FlagFits(rd[r]) /\ rd[r].trail = <<>> /\ rd[r].round = 0 /\ rd[r].attempt = 0
    BY <1>1, <2>1 DEF Advanced
  <2>3. SendProgress(y)
    BY <1>1, <2>2 DEF SendProgress
  <2>4. Advanced(y)
    BY <1>1, <2>2, <2>3 DEF Advanced, FlagFits
  <2> QED BY <1>1, <2>4, OneReadMoves DEF RetryInv, TypeOK
<1>2. CASE LookupCompany(r) \/ CountFails(r)
  <2>1. PICK p \in {"count", "send"} :
           rd' = [rd EXCEPT ![r].pc = p] /\ (p = "count" => rd[r].pc = "lookup")
    BY <1>2 DEF LookupCompany, CountFails
  <2> DEFINE y == [rd[r] EXCEPT !.pc = p]
  <2>2. rd[r].pc \in {"lookup", "count"} /\ rows' = rows /\ free' = free
    BY <1>2 DEF LookupCompany, CountFails
  <2>3. rd[r] \in Read /\ ~rd[r].checked
    BY <2>2, Busy DEF Advanced
  <2>4. /\ y \in Read /\ y.pc = p /\ y.checked = rd[r].checked
        /\ y.trail = rd[r].trail /\ y.round = rd[r].round /\ y.attempt = rd[r].attempt
        /\ y.limited = rd[r].limited
    BY <2>3 DEF Read
  <2>5. rd' = [rd EXCEPT ![r] = y]
    BY <2>1
  <2> HIDE DEF y
  <2> QED BY <1>1, <2>2, <2>3, <2>4, <2>5
<1>3. CASE LookupFails(r)
  BY <1>3, StopStep DEF LookupFails, RetryInv, TypeOK
<1>4. CASE UnderCap(r)
  <2> DEFINE y == [rd[r] EXCEPT !.pc = "send", !.checked = TRUE]
  <2>1. rd[r].pc = "count" /\ rows' = rows /\ free' = free /\ rd' = [rd EXCEPT ![r] = y]
    BY <1>4 DEF UnderCap
  <2>2. rd[r] \in Read
    BY <2>1, Busy
  <2>3. /\ y \in Read /\ y.pc = "send"
        /\ y.trail = rd[r].trail /\ y.round = rd[r].round /\ y.attempt = rd[r].attempt
        /\ y.limited = rd[r].limited
    BY <2>2 DEF Read
  <2> HIDE DEF y
  <2> QED BY <1>1, <2>1, <2>3
<1>5. CASE CapReached(r)
  BY <1>5, StopStep DEF CapReached, RetryInv, TypeOK
<1> QED BY <1>2, <1>3, <1>4, <1>5 DEF Query

\* The fields of a request whose round goes on or starts again.
LEMMA Resent ==
    ASSUME NEW x \in Read, NEW t \in Seq(Outcomes), NEW j \in 0..2, NEW f \in BOOLEAN
    PROVE  /\ [x EXCEPT !.attempt = j, !.limited = f, !.trail = t] \in Read
           /\ [x EXCEPT !.round = 1, !.attempt = j, !.limited = f, !.trail = t] \in Read
<1>1. [x EXCEPT !.attempt = j, !.limited = f, !.trail = t] \in Read
  BY DEF Read
<1>2. ASSUME NEW i \in 0..1
      PROVE  [x EXCEPT !.round = i, !.attempt = j, !.limited = f, !.trail = t] \in Read
  BY DEF Read
<1>3. 1 \in 0..1
  OBVIOUS
<1>4. [x EXCEPT !.round = 1, !.attempt = j, !.limited = f, !.trail = t] \in Read
  BY <1>2, <1>3, Zenon
<1> QED BY <1>1, <1>4

\* ... or that is over.
Results == {"reading", "declined", "no_text", "rate_limited", "upstream"}

LEMMA Ended ==
    ASSUME NEW x \in Read, NEW t \in Seq(Outcomes), NEW k \in Results
    PROVE  [x EXCEPT !.pc = "log", !.result = k, !.trail = t] \in Read
  BY DEF Read, Results

LEMMA EndedUnsent ==
    ASSUME NEW x \in Read, NEW k \in Results
    PROVE  [x EXCEPT !.pc = "log", !.result = k] \in Read
  BY DEF Read, Results

\* One POST, or the call that could not be made.
LEMMA SendStep ==
    ASSUME RetryInv, NEW r \in Readers, Send(r)
    PROVE  RetryInv'
<1> DEFINE x == rd[r]
<1>1. x.pc = "send" /\ rows' = rows /\ free' = free
  BY DEF Send, FailSend, SendExhausted, SecondRound, CallEnds, NoCall
<1>2. x \in Read /\ SendProgress(x) /\ FlagFits(x)
  BY <1>1, Busy DEF Advanced
<1>3. x.attempt \in 0..2 /\ x.round \in 0..1 /\ x.trail \in Seq(Outcomes)
  BY <1>2 DEF Read
<1>4. ASSUME NEW y \in Read, rd' = [rd EXCEPT ![r] = y], Advanced(y)
      PROVE  RetryInv'
  BY <1>1, <1>4, OneReadMoves DEF RetryInv, TypeOK
<1>5. ASSUME NEW o \in Outcomes PROVE Append(x.trail, o) \in Seq(Outcomes)
  BY <1>3, AppendFacts
<1>6. ASSUME NEW o \in Outcomes, FailSend(r, o) PROVE RetryInv'
  <2> DEFINE j == x.attempt + 1
             f == LimitedAfter(r, o)
             t == Append(x.trail, o)
             y == [x EXCEPT !.attempt = j, !.limited = f, !.trail = t]
  <2>1. o \in TransientOutcomes /\ x.attempt < 2
    BY <1>6 DEF FailSend, Transient, TurnsLeft, TransientOutcomes
  <2>2. j \in 0..2 /\ f \in BOOLEAN /\ (f <=> o = "429") /\ t \in Seq(Outcomes)
    BY <1>3, <1>5, <2>1 DEF LimitedAfter
  <2>3. rd' = [rd EXCEPT ![r] = y]
    BY <1>6 DEF FailSend
  <2> HIDE DEF x, j, f, t
  <2>4. y \in Read
    BY <1>2, <2>2, Resent, Zenon
  <2>5. /\ y.pc = "send" /\ y.round = x.round /\ y.attempt = j /\ y.trail = t /\ y.limited = f
    BY <1>1, <1>2 DEF Read
  <2> HIDE DEF y
  <2>6. SendProgress(y) /\ FlagFits(y)
    BY <1>2, <2>1, <2>2, <2>4, <2>5, RetryProgress DEF j, t
  <2>7. Advanced(y)
    BY <2>5, <2>6 DEF Advanced
  <2> QED BY <1>4, <2>3, <2>4, <2>7 DEF x
<1>7. ASSUME NEW o \in Outcomes, SecondRound(r, o) PROVE RetryInv'
  <2> DEFINE t == Append(x.trail, o)
             y == [x EXCEPT !.round = 1, !.attempt = 0, !.limited = FALSE, !.trail = t]
  <2>1. o = "schema" /\ x.round = 0 /\ x.attempt < 2 /\ t \in Seq(Outcomes)
    BY <1>5, <1>7 DEF SecondRound, SchemaMismatch, TurnsLeft
  <2>2. rd' = [rd EXCEPT ![r] = y]
    BY <1>7 DEF SecondRound
  <2> HIDE DEF x, t
  <2>3. y \in Read
    <3>1. 0 \in 0..2 /\ FALSE \in BOOLEAN
      OBVIOUS
    <3> QED BY <1>2, <2>1, <3>1, Resent, Zenon
  <2>4. y.pc = "send" /\ y.round = 1 /\ y.attempt = 0 /\ y.trail = t /\ y.limited = FALSE
    BY <1>1, <1>2 DEF Read
  <2> HIDE DEF y
  <2>5. SendProgress(y)
    BY <1>2, <2>1, <2>3, <2>4, SecondRoundProgress DEF t
  <2>6. Advanced(y)
    BY <2>4, <2>5 DEF Advanced, FlagFits
  <2> QED BY <1>4, <2>2, <2>3, <2>6 DEF x
<1>8. ASSUME NEW o \in Outcomes, CallEnds(r, o) PROVE RetryInv'
  <2> DEFINE k == Kind(o)
             t == Append(x.trail, o)
             y == [x EXCEPT !.pc = "log", !.result = k, !.trail = t]
  <2>1. /\ o \notin TransientOutcomes /\ ~(o = "schema" /\ x.round = 0) /\ x.attempt < 2
        /\ t \in Seq(Outcomes)
    BY <1>5, <1>8 DEF CallEnds, Transient, SchemaMismatch, TurnsLeft, TransientOutcomes
  <2>2. k \in Results /\ k # "rate_limited"
    BY DEF Kind, Results
  <2>3. rd' = [rd EXCEPT ![r] = y]
    BY <1>8 DEF CallEnds
  <2> HIDE DEF x, t, k
  <2>4. y \in Read
    BY <1>2, <2>1, <2>2, Ended, Zenon
  <2>5. y.pc = "log" /\ y.result = k /\ y.trail = t
    BY <1>2 DEF Read
  <2> HIDE DEF y
  <2>6. CallOver(y)
    BY <1>2, <2>1, <2>2, <2>4, <2>5, CallEnded DEF t
  <2>7. Advanced(y)
    BY <2>5, <2>6 DEF Advanced
  <2> QED BY <1>4, <2>3, <2>4, <2>7 DEF x
<1>9. ASSUME NEW k \in Results,
             rd' = [rd EXCEPT ![r].pc = "log", ![r].result = k],
             \A y \in Read : (y.trail = x.trail /\ y.result = k) => CallOver(y)
      PROVE  RetryInv'
  <2> DEFINE y == [x EXCEPT !.pc = "log", !.result = k]
  <2>1. rd' = [rd EXCEPT ![r] = y]
    BY <1>9
  <2> HIDE DEF x
  <2>2. y \in Read
    BY <1>2, EndedUnsent
  <2>3. y.pc = "log" /\ y.result = k /\ y.trail = x.trail
    BY <1>2 DEF Read
  <2> HIDE DEF y
  <2>4. Advanced(y)
    BY <1>9, <2>2, <2>3 DEF Advanced, x
  <2> QED BY <1>4, <2>1, <2>2, <2>4 DEF x
<1>10. CASE SendExhausted(r)
  <2> DEFINE k == IF x.limited THEN "rate_limited" ELSE "upstream"
  <2>1. rd' = [rd EXCEPT ![r].pc = "log", ![r].result = k] /\ x.attempt = 2
    BY <1>3, <1>10 DEF SendExhausted, TurnsLeft
  <2>2. \A y \in Read : (y.trail = x.trail /\ y.result = k) => CallOver(y)
    BY <1>2, <2>1, CallExhausted
  <2>3. k \in Results
    BY DEF Results
  <2> HIDE DEF k
  <2> QED BY <1>9, <2>1, <2>2, <2>3
<1>11. CASE NoCall(r)
  <2>1. ASSUME NEW y \in Read, y.trail = x.trail, y.result = "upstream"
        PROVE  CallOver(y)
    <3>1. y.trail = <<>>
      BY <1>11, <2>1 DEF NoCall
    <3>2. Len(y.trail) = 0
      BY <3>1
    <3>3. Justified(y.trail)
      BY <3>1 DEF Justified
    <3> QED BY <2>1, <3>1, <3>2, <3>3 DEF CallOver
  <2>2. "upstream" \in Results
    BY DEF Results
  <2> QED BY <1>9, <1>11, <2>1, <2>2 DEF NoCall
<1> QED BY <1>6, <1>7, <1>8, <1>10, <1>11 DEF Send

\* The insert, its failure, and the client that goes away.
LEMMA EndStep ==
    ASSUME RetryInv, NEW r \in Readers, Log(r) \/ Hangup(r)
    PROVE  RetryInv'
<1>1. Stop(r)
  BY DEF Log, InsertLog, InsertLogFails, Hangup
<1>2. (rows' = rows /\ free' = free) \/ (rd[r].pc = "log" /\ LogRow(r))
  BY DEF Log, InsertLog, InsertLogFails, Hangup
<1>3. CASE rows' = rows /\ free' = free
  BY <1>1, <1>3, StopStep DEF RetryInv, TypeOK
<1>4. CASE rd[r].pc = "log" /\ LogRow(r)
  <2>1. rd[r].company \in Companies
    BY <1>4, Busy DEF Read
  <2>2. rows' \in [Companies -> Nat] /\ free' \in [Companies -> Nat]
    BY <1>4, <2>1 DEF LogRow, RetryInv, TypeOK
  <2> QED BY <1>1, <2>2, StopStep
<1> QED BY <1>2, <1>3, <1>4

LEMMA AgeStep ==
    ASSUME RetryInv, NEW c \in Companies, Age(c)
    PROVE  RetryInv'
  BY DEF Age, RetryInv, TypeOK

LEMMA NextRetryInv == RetryInv /\ [Next]_vars => RetryInv'
<1> SUFFICES ASSUME RetryInv, [Next]_vars PROVE RetryInv'
  OBVIOUS
<1>1. CASE UNCHANGED vars
  BY <1>1 DEF vars, RetryInv, TypeOK
<1>2. ASSUME NEW r \in Readers, NEW c \in Companies, Receive(r, c) PROVE RetryInv'
  BY <1>2, ReceiveStep
<1>3. ASSUME NEW r \in Readers, Query(r) PROVE RetryInv'
  BY <1>3, QueryStep
<1>4. ASSUME NEW r \in Readers, Send(r) PROVE RetryInv'
  BY <1>4, SendStep
<1>5. ASSUME NEW r \in Readers, Log(r) \/ Hangup(r) PROVE RetryInv'
  BY <1>5, EndStep
<1>6. ASSUME NEW c \in Companies, Age(c) PROVE RetryInv'
  BY <1>6, AgeStep
<1> QED BY <1>1, <1>2, <1>3, <1>4, <1>5, <1>6 DEF Next

\* RetryInv holds of every state, so its consequences do.
LEMMA RetryInductive == Spec => []RetryInv
<1> QED BY InitRetryInv, NextRetryInv, PTL DEF Spec

-----------------------------------------------------------------------------
(* What the runs check, for every value of the constants.                  *)

\* Every count of log rows and every request stays well formed.
THEOREM ReadTypeCorrect == Spec => []TypeOK
<1>1. RetryInv => TypeOK
  BY DEF RetryInv
<1> QED BY <1>1, RetryInductive, PTL

\* A read never spends more than four POSTs to Gemini (call_gemini,
\* send_with_retry), whatever they come to.
THEOREM BudgetKept == Spec => []RetryBudget
<1>1. ASSUME RetryInv, NEW r \in Readers, rd[r] # Idle PROVE Len(rd[r].trail) <= 4
  <2>1. rd[r] \in Read /\ Advanced(rd[r])
    BY <1>1 DEF RetryInv, TypeOK
  <2>2. CASE rd[r].pc = "log"
    BY <2>1, <2>2 DEF Advanced, CallOver
  <2>3. CASE rd[r].pc # "log"
    <3>1. SendProgress(rd[r])
      BY <2>1, <2>3 DEF Advanced, Read
    <3> DEFINE n == Len(rd[r].trail)
    <3>2. n \in 0..4
      BY <2>1, <3>1, ProgressLen
    <3> HIDE DEF n
    <3>3. n <= 4
      BY <3>2
    <3> QED BY <3>3 DEF n
  <2> QED BY <2>2, <2>3
<1>2. RetryInv => RetryBudget
  BY <1>1 DEF RetryBudget
<1> QED BY <1>2, RetryInductive, PTL

\* No POST is repeated, or left out, without one of the reasons the comments
\* of call_gemini and send_with_retry give.
THEOREM NoIdleRetry == Spec => []RetriesJustified
<1>1. RetryInv => RetriesJustified
  BY Busy DEF RetriesJustified, Advanced, CallOver
<1> QED BY <1>1, RetryInductive, PTL

\* The answer is "rate_limited" exactly when the last POST came to a 429.
THEOREM BusyMeansBusy == Spec => []RateLimitedLast
<1>1. RetryInv => RateLimitedLast
  BY Busy DEF RateLimitedLast, Advanced, CallOver
<1> QED BY <1>1, RetryInductive, PTL

-----------------------------------------------------------------------------
(* The daily cap.                                                          *)

\* PassedRows before and after a step.
LEMMA PassedIsSum ==
    ASSUME NEW c
    PROVE  /\ PassedRows(c) = SumFunctionOnSet(rows, SamePrefix(c))
           /\ PassedRows(c)' = SumFunctionOnSet(rows', SamePrefix(c))
  BY DEF PassedRows, SamePrefix

LEMMA PassedNat ==
    ASSUME NEW c \in Companies
    PROVE  /\ rows \in [Companies -> Nat] => PassedRows(c) \in Nat
           /\ rows' \in [Companies -> Nat] => PassedRows(c)' \in Nat
           /\ free \in [Companies -> Nat] => SumFunctionOnSet(free, SamePrefix(c)) \in Nat
<1>1. IsFiniteSet(SamePrefix(c)) /\ SamePrefix(c) \subseteq Companies
  BY ReadersAssumption, FS_Subset DEF SamePrefix
<1> QED BY <1>1, PassedIsSum, SumNat

\* One row more of company d.
LEMMA CountedStep ==
    ASSUME NEW d \in Companies, NEW c \in Companies,
           NEW g \in [Companies -> Nat], NEW h \in [Companies -> Nat],
           h[d] = g[d] + 1, \A e \in Companies \ {d} : h[e] = g[e]
    PROVE  SumFunctionOnSet(h, SamePrefix(c)) =
              SumFunctionOnSet(g, SamePrefix(c)) + IF PrefixOf[d] = PrefixOf[c] THEN 1 ELSE 0
<1> DEFINE S == SamePrefix(c)
<1>1. IsFiniteSet(S) /\ S \subseteq Companies
  BY ReadersAssumption, FS_Subset DEF SamePrefix
<1>2. \A e \in S : g[e] \in Nat /\ h[e] \in Nat
  BY <1>1
<1>3. SumFunctionOnSet(g, S) \in Nat
  BY <1>1, <1>2, SumNat
<1>4. d \in S <=> PrefixOf[d] = PrefixOf[c]
  BY DEF SamePrefix
<1> HIDE DEF S
<1>5. d \in S => SumFunctionOnSet(h, S) = SumFunctionOnSet(g, S) + 1
  <2>1. 1 \in Nat /\ \A e \in S \ {d} : h[e] = g[e]
    BY <1>1
  <2> QED BY <1>1, <1>2, <2>1, SumRaised
<1>6. d \notin S => SumFunctionOnSet(h, S) = SumFunctionOnSet(g, S)
  <2>1. d \notin S => \A e \in S : g[e] = h[e]
    BY <1>1
  <2> QED BY <1>1, <1>2, <2>1, SumSame
<1> QED BY <1>3, <1>4, <1>5, <1>6 DEF S

\* Who is under way at most fills the set of requests.
LEMMA UncountedFinite ==
    ASSUME NEW c
    PROVE  /\ IsFiniteSet(Uncounted(c)) /\ Cardinality(Uncounted(c)) \in Nat
           /\ IsFiniteSet(Uncounted(c)') /\ Cardinality(Uncounted(c)') \in Nat
           /\ Cardinality(Uncounted(c)') <= Cardinality(Readers)
           /\ Cardinality(Readers) \in Nat
<1>1. Uncounted(c) \in SUBSET Readers /\ Uncounted(c)' \in SUBSET Readers
  BY DEF Uncounted
<1> QED BY <1>1, ReadersAssumption, FS_Subset, FS_CardinalityType

\* No row more, and nobody new past the check.
LEMMA CapKept ==
    ASSUME TypeOK, CapOvershoot, rows' = rows,
           NEW c \in Companies, Uncounted(c)' \subseteq Uncounted(c)
    PROVE  PassedRows(c)' + Cardinality(Uncounted(c)') < DailyCap + Cardinality(Readers)
<1>1. PassedRows(c)' = PassedRows(c)
  BY PassedIsSum
<1>2. Cardinality(Uncounted(c)') <= Cardinality(Uncounted(c))
  BY UncountedFinite, FS_Subset
<1>3. PassedRows(c) \in Nat
  BY PassedNat DEF TypeOK
<1>4. Cardinality(Uncounted(c)) \in Nat /\ Cardinality(Uncounted(c)') \in Nat
      /\ Cardinality(Readers) \in Nat /\ DailyCap \in Nat
  BY UncountedFinite, CapAssumption
<1>5. PassedRows(c) + Cardinality(Uncounted(c)) < DailyCap + Cardinality(Readers)
  BY DEF CapOvershoot
<1> QED BY <1>1, <1>2, <1>3, <1>4, <1>5

\* A read that is logged leaves the uncounted ones as its row arrives.
LEMMA LoggedCap ==
    ASSUME RetryInv, CapOvershoot,
           NEW r \in Readers, rd[r].pc = "log", LogRow(r), Stop(r)
    PROVE  CapOvershoot'
<1> DEFINE d == rd[r].company
<1>0. TypeOK /\ rd[r] \in Read /\ d \in Companies
  BY Busy DEF RetryInv, Read
<1>1. \A q \in Readers : rd'[q] = IF q = r THEN Idle ELSE rd[q]
  BY <1>0 DEF Stop, TypeOK
<1> SUFFICES ASSUME NEW c \in Companies
             PROVE  PassedRows(c)' + Cardinality(Uncounted(c)') < DailyCap + Cardinality(Readers)
  BY DEF CapOvershoot
<1>2. Uncounted(c)' = Uncounted(c) \ {r}
  BY <1>1 DEF Uncounted, Idle
<1>3. CASE ~rd[r].checked
  <2>1. rows' = rows
    BY <1>3 DEF LogRow
  <2> QED BY <1>0, <1>2, <2>1, CapKept
<1>4. CASE rd[r].checked
  <2>1. /\ rows \in [Companies -> Nat] /\ rows' \in [Companies -> Nat]
        /\ rows'[d] = rows[d] + 1 /\ \A e \in Companies \ {d} : rows'[e] = rows[e]
    BY <1>0, <1>4 DEF LogRow, TypeOK
  <2>2. r \in Uncounted(c) <=> PrefixOf[d] = PrefixOf[c]
    BY <1>4 DEF Uncounted
  <2> HIDE DEF d
  <2>3. /\ PassedRows(c) \in Nat /\ PassedRows(c)' \in Nat
        /\ PassedRows(c)' = PassedRows(c) + IF PrefixOf[d] = PrefixOf[c] THEN 1 ELSE 0
    <3>1. SumFunctionOnSet(rows', SamePrefix(c)) =
             SumFunctionOnSet(rows, SamePrefix(c)) + IF PrefixOf[d] = PrefixOf[c] THEN 1 ELSE 0
      BY <1>0, <2>1, CountedStep
    <3> QED BY <2>1, <3>1, PassedIsSum, PassedNat
  <2>4. Cardinality(Uncounted(c)') =
           IF r \in Uncounted(c) THEN Cardinality(Uncounted(c)) - 1 ELSE Cardinality(Uncounted(c))
    BY <1>2, UncountedFinite, FS_RemoveElement
  <2>5. Cardinality(Uncounted(c)) \in Nat /\ Cardinality(Uncounted(c)') \in Nat
        /\ Cardinality(Readers) \in Nat /\ DailyCap \in Nat
    BY UncountedFinite, CapAssumption
  <2>6. PassedRows(c) + Cardinality(Uncounted(c)) < DailyCap + Cardinality(Readers)
    BY DEF CapOvershoot
  <2> QED BY <2>2, <2>3, <2>4, <2>5, <2>6
<1> QED BY <1>3, <1>4

\* A read below the cap goes past the check: everyone may be past it by now.
LEMMA UnderCapKept ==
    ASSUME RetryInv, CapOvershoot,
           NEW r \in Readers, UnderCap(r)
    PROVE  CapOvershoot'
<1> DEFINE d == rd[r].company
           y == [rd[r] EXCEPT !.pc = "send", !.checked = TRUE]
<1>0. TypeOK /\ rd[r] \in Read /\ d \in Companies
  BY Busy DEF RetryInv, Read, UnderCap
<1>1. CountedRows(d) < DailyCap /\ rd[r].pc = "count" /\ rows' = rows /\ rd' = [rd EXCEPT ![r] = y]
  BY DEF UnderCap, BelowCap
<1>2. y.pc = "send" /\ y.company = d
  BY <1>0 DEF Read
<1> HIDE DEF y
<1>3. \A q \in Readers : rd'[q] = IF q = r THEN y ELSE rd[q]
  BY <1>0, <1>1 DEF TypeOK
<1>4. PassedRows(d) \in Nat /\ PassedRows(d) < DailyCap
  <2>1. PassedRows(d) \in Nat /\ SumFunctionOnSet(free, SamePrefix(d)) \in Nat
    BY <1>0, PassedNat DEF TypeOK
  <2>2. CountedRows(d) = PassedRows(d) + SumFunctionOnSet(free, SamePrefix(d))
    BY DEF CountedRows, PassedRows
  <2> QED BY <1>1, <2>1, <2>2, CapAssumption
<1> SUFFICES ASSUME NEW c \in Companies
             PROVE  PassedRows(c)' + Cardinality(Uncounted(c)') < DailyCap + Cardinality(Readers)
  BY DEF CapOvershoot
<1>5. CASE PrefixOf[d] = PrefixOf[c]
  <2>1. SamePrefix(c) = SamePrefix(d)
    BY <1>5 DEF SamePrefix
  <2>2. PassedRows(c)' = PassedRows(d)
    BY <1>1, <2>1, PassedIsSum
  <2> QED BY <1>4, <2>2, UncountedFinite, CapAssumption
<1>6. CASE PrefixOf[d] # PrefixOf[c]
  <2>1. Uncounted(c)' \subseteq Uncounted(c)
    BY <1>2, <1>3, <1>6 DEF Uncounted
  <2> QED BY <1>0, <1>1, <2>1, CapKept
<1> QED BY <1>5, <1>6

\* An old row leaves the window.
LEMMA AgeCap ==
    ASSUME RetryInv, CapOvershoot,
           NEW d \in Companies, Age(d)
    PROVE  CapOvershoot'
<1>0. TypeOK
  BY DEF RetryInv
<1> SUFFICES ASSUME NEW c \in Companies
             PROVE  PassedRows(c)' + Cardinality(Uncounted(c)') < DailyCap + Cardinality(Readers)
  BY DEF CapOvershoot
<1>1. Uncounted(c)' = Uncounted(c)
  BY DEF Uncounted, Age
<1>2. CASE rows' = rows
  BY <1>0, <1>1, <1>2, CapKept
<1>3. CASE rows[d] > 0 /\ rows' = [rows EXCEPT ![d] = @ - 1]
  <2>1. /\ rows' \in [Companies -> Nat] /\ rows \in [Companies -> Nat]
        /\ rows[d] = rows'[d] + 1 /\ \A e \in Companies \ {d} : rows[e] = rows'[e]
    BY <1>0, <1>3 DEF TypeOK
  <2>2. PassedRows(c) \in Nat /\ PassedRows(c)' \in Nat /\ PassedRows(c)' <= PassedRows(c)
    <3>1. SumFunctionOnSet(rows, SamePrefix(c)) =
             SumFunctionOnSet(rows', SamePrefix(c)) + IF PrefixOf[d] = PrefixOf[c] THEN 1 ELSE 0
      BY <2>1, CountedStep
    <3> QED BY <2>1, <3>1, PassedIsSum, PassedNat
  <2>3. Cardinality(Uncounted(c)) \in Nat /\ Cardinality(Readers) \in Nat /\ DailyCap \in Nat
    BY UncountedFinite, CapAssumption
  <2>4. PassedRows(c) + Cardinality(Uncounted(c)) < DailyCap + Cardinality(Readers)
    BY DEF CapOvershoot
  <2> QED BY <1>1, <2>2, <2>3, <2>4
<1> QED BY <1>2, <1>3 DEF Age

\* Any other step of a read goes past no check and writes no row.
LEMMA OtherCap ==
    ASSUME RetryInv, CapOvershoot,
           NEW r \in Readers, NEW y, rd' = [rd EXCEPT ![r] = y], rows' = rows,
           (y.pc \in {"send", "log"} /\ y.checked) =>
              rd[r].pc \in {"send", "log"} /\ rd[r].checked /\ y.company = rd[r].company
    PROVE  CapOvershoot'
<1>1. \A q \in Readers : rd'[q] = IF q = r THEN y ELSE rd[q]
  BY DEF RetryInv, TypeOK
<1>2. \A c \in Companies : Uncounted(c)' \subseteq Uncounted(c)
  BY <1>1 DEF Uncounted
<1>3. TypeOK
  BY DEF RetryInv
<1>4. \A c \in Companies :
         PassedRows(c)' + Cardinality(Uncounted(c)') < DailyCap + Cardinality(Readers)
  BY <1>2, <1>3, CapKept
<1> QED BY <1>4 DEF CapOvershoot

\* A POST keeps the request at the call or takes it to its log row.
SameCheck(x, y) == y.pc \in {"send", "log"} /\ y.checked = x.checked /\ y.company = x.company

LEMMA SendMoves ==
    ASSUME RetryInv, NEW r \in Readers, Send(r)
    PROVE  /\ rd[r].pc = "send" /\ rows' = rows
           /\ \E y : rd' = [rd EXCEPT ![r] = y] /\ SameCheck(rd[r], y)
<1>1. rd[r].pc = "send" /\ rows' = rows
  BY DEF Send, FailSend, SendExhausted, SecondRound, CallEnds, NoCall
<1>2. rd[r] \in Read
  BY <1>1, Busy
<1>3. ASSUME NEW o \in Outcomes, FailSend(r, o)
      PROVE  \E y : rd' = [rd EXCEPT ![r] = y] /\ SameCheck(rd[r], y)
  <2> DEFINE y == [rd[r] EXCEPT !.attempt = @ + 1, !.limited = LimitedAfter(r, o), !.trail = Append(@, o)]
  <2>1. rd' = [rd EXCEPT ![r] = y] /\ SameCheck(rd[r], y)
    BY <1>1, <1>2, <1>3 DEF FailSend, Read, SameCheck
  <2> HIDE DEF y
  <2> QED BY <2>1
<1>4. ASSUME NEW o \in Outcomes, SecondRound(r, o)
      PROVE  \E y : rd' = [rd EXCEPT ![r] = y] /\ SameCheck(rd[r], y)
  <2> DEFINE y == [rd[r] EXCEPT !.round = 1, !.attempt = 0, !.limited = FALSE, !.trail = Append(@, o)]
  <2>1. rd' = [rd EXCEPT ![r] = y] /\ SameCheck(rd[r], y)
    BY <1>1, <1>2, <1>4 DEF SecondRound, Read, SameCheck
  <2> HIDE DEF y
  <2> QED BY <2>1
<1>5. ASSUME NEW o \in Outcomes, CallEnds(r, o)
      PROVE  \E y : rd' = [rd EXCEPT ![r] = y] /\ SameCheck(rd[r], y)
  <2> DEFINE y == [rd[r] EXCEPT !.pc = "log", !.result = Kind(o), !.trail = Append(@, o)]
  <2>1. rd' = [rd EXCEPT ![r] = y] /\ SameCheck(rd[r], y)
    BY <1>2, <1>5 DEF CallEnds, Read, SameCheck
  <2> HIDE DEF y
  <2> QED BY <2>1
<1>6. ASSUME NEW k, rd' = [rd EXCEPT ![r].pc = "log", ![r].result = k]
      PROVE  \E y : rd' = [rd EXCEPT ![r] = y] /\ SameCheck(rd[r], y)
  <2> DEFINE y == [rd[r] EXCEPT !.pc = "log", !.result = k]
  <2>1. rd' = [rd EXCEPT ![r] = y] /\ SameCheck(rd[r], y)
    BY <1>2, <1>6 DEF Read, SameCheck
  <2> HIDE DEF y
  <2> QED BY <2>1
<1> QED BY <1>1, <1>3, <1>4, <1>5, <1>6 DEF Send, SendExhausted, NoCall

\* Of the requests that the COUNT let pass, those that race past it overshoot
\* the cap by less than one each, for any number of companies with any
\* prefixes, whichever queries fail and whoever hangs up.
THEOREM CapHolds == Spec => []CapOvershoot
<1>1. Init => CapOvershoot
  <2> SUFFICES ASSUME Init, NEW c \in Companies
               PROVE  PassedRows(c) + Cardinality(Uncounted(c)) < DailyCap + Cardinality(Readers)
    BY DEF CapOvershoot
  <2>1. Uncounted(c) = {}
    BY DEF Init, Uncounted, Idle
  <2>2. PassedRows(c) = 0
    <3>1. IsFiniteSet(SamePrefix(c)) /\ \A d \in SamePrefix(c) : rows[d] = 0
      BY ReadersAssumption, FS_Subset DEF SamePrefix, Init
    <3> QED BY <3>1, PassedIsSum, SumZero
  <2>3. Cardinality(Readers) \in Nat /\ Cardinality(Readers) # 0
    BY ReadersAssumption, FS_CardinalityType, FS_EmptySet
  <2> QED BY <2>1, <2>2, <2>3, FS_EmptySet, CapAssumption
<1>2. RetryInv /\ CapOvershoot /\ [Next]_vars => CapOvershoot'
  <2> SUFFICES ASSUME RetryInv, CapOvershoot, [Next]_vars PROVE CapOvershoot'
    OBVIOUS
  <2>1. CASE UNCHANGED vars
    <3>1. \A c \in Companies : Uncounted(c)' = Uncounted(c) /\ rows' = rows /\ TypeOK
      BY <2>1 DEF vars, Uncounted, RetryInv
    <3>2. \A c \in Companies :
             PassedRows(c)' + Cardinality(Uncounted(c)') < DailyCap + Cardinality(Readers)
      BY <3>1, CapKept
    <3> QED BY <3>2 DEF CapOvershoot
  <2>2. ASSUME NEW r \in Readers, NEW c \in Companies, Receive(r, c) PROVE CapOvershoot'
    <3> DEFINE y == [pc |-> "lookup", company |-> c, checked |-> FALSE,
                     round |-> 0, attempt |-> 0, limited |-> FALSE,
                     trail |-> <<>>, result |-> "none"]
    <3>1. rd' = [rd EXCEPT ![r] = y] /\ rows' = rows /\ y.pc = "lookup"
      BY <2>2 DEF Receive
    <3> HIDE DEF y
    <3> QED BY <3>1, OtherCap
  <2>3. ASSUME NEW r \in Readers, Query(r) PROVE CapOvershoot'
    <3>1. CASE LookupCompany(r) \/ CountFails(r)
      <4>1. PICK p \in {"count", "send"} : rd' = [rd EXCEPT ![r].pc = p]
        BY <3>1 DEF LookupCompany, CountFails
      <4> DEFINE y == [rd[r] EXCEPT !.pc = p]
      <4>2. rd[r].pc \in {"lookup", "count"} /\ rows' = rows
        BY <3>1 DEF LookupCompany, CountFails
      <4>3. rd[r] \in Read /\ ~rd[r].checked
        BY <4>2, Busy DEF Advanced
      <4>4. rd' = [rd EXCEPT ![r] = y] /\ ~y.checked
        BY <4>1, <4>3 DEF Read
      <4> HIDE DEF y
      <4> QED BY <4>2, <4>4, OtherCap
    <3>2. CASE LookupFails(r) \/ CapReached(r)
      BY <3>2, OtherCap DEF LookupFails, CapReached, Stop, Idle
    <3> QED BY <2>3, <3>1, <3>2, UnderCapKept DEF Query
  <2>4. ASSUME NEW r \in Readers, Log(r) \/ Hangup(r) PROVE CapOvershoot'
    <3>1. Stop(r) /\ (rows' = rows \/ (rd[r].pc = "log" /\ LogRow(r)))
      BY <2>4 DEF Log, InsertLog, InsertLogFails, Hangup
    <3>2. Idle.pc = "idle"
      BY DEF Idle
    <3> QED BY <3>1, <3>2, LoggedCap, OtherCap DEF Stop
  <2>5. ASSUME NEW r \in Readers, Send(r) PROVE CapOvershoot'
    <3>1. PICK y : rd' = [rd EXCEPT ![r] = y] /\ SameCheck(rd[r], y)
      BY <2>5, SendMoves
    <3>2. rd[r].pc = "send" /\ rows' = rows
      BY <2>5, SendMoves
    <3> QED BY <3>1, <3>2, OtherCap DEF SameCheck
  <2> QED BY <2>1, <2>2, <2>3, <2>4, <2>5, AgeCap DEF Next
<1> QED BY <1>1, <1>2, InitRetryInv, NextRetryInv, PTL DEF Spec
=============================================================================
