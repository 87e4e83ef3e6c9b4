------------------------------ MODULE MeterRead ------------------------------
(***************************************************************************)
(* POST /meter-ocr/read (src/meter_ocr/operations.rs): the company lookup, *)
(* the daily cap, the Gemini call with its two layers of retries, and the  *)
(* log row the cap counts.  Requests are concurrent; every database and    *)
(* network call is an await between which the others run.                  *)
(***************************************************************************)
EXTENDS Naturals, Sequences, FiniteSets, Functions

CONSTANTS Companies,   \* the (company_url, company_prefix) pairs of the directory
          PrefixOf,    \* the company_prefix of each
          Readers,     \* read requests served at the same time
          DailyCap,    \* METER_OCR_DAILY_CAP_PER_COMPANY
          MaxRows,     \* bound: no new request while a company has that many rows
          Outcomes,    \* what one POST to Gemini can come to
          Failures     \* "db": queries fail; "hangup": clients go away

ASSUME ReadersAssumption == IsFiniteSet(Companies) /\ IsFiniteSet(Readers) /\ Readers # {}
ASSUME CapAssumption == DailyCap \in Nat /\ MaxRows \in Nat
ASSUME OutcomesAssumption ==
    Outcomes \subseteq {"network", "5xx", "429", "4xx", "bad_json", "schema",
                        "declined", "no_text", "reading"}
ASSUME ReadFailuresAssumption == Failures \subseteq {"db", "hangup"}

VARIABLES rows,   \* rows[c]: log rows of company c not older than 24 hours, of
                  \* requests that the COUNT let pass ...
          free,   \* ... and of requests that a failed COUNT let pass
          rd      \* rd[r]: the progress of request r

vars == <<rows, free, rd>>

\* checked: the COUNT succeeded; round: the call of call_gemini_once; attempt:
\* the failed turns of the loop in send_with_retry; limited:
\* last_was_rate_limited; trail: what the POSTs came to; result: the answer's
\* kind.
Read == [pc : {"lookup", "count", "send", "log"}, company : Companies, checked : BOOLEAN,
         round : 0..1, attempt : 0..2, limited : BOOLEAN, trail : Seq(Outcomes),
         result : {"none", "reading", "declined", "no_text", "rate_limited", "upstream"}]
Idle == [pc |-> "idle"]

TypeOK == /\ rows \in [Companies -> Nat]
          /\ free \in [Companies -> Nat]
          /\ rd \in [Readers -> Read \cup {Idle}]

Init == /\ rows = [c \in Companies |-> 0]
        /\ free = [c \in Companies |-> 0]
        /\ rd = [r \in Readers |-> Idle]

SamePrefix(c) == {d \in Companies : PrefixOf[d] = PrefixOf[c]}

\* SELECT COUNT(*) ... WHERE company_prefix = $1 AND created_at > NOW() - 24h
CountedRows(c) == SumFunctionOnSet(rows, SamePrefix(c)) + SumFunctionOnSet(free, SamePrefix(c))

Stop(r) == rd' = [rd EXCEPT ![r] = Idle]

-----------------------------------------------------------------------------
(* The checks before any money is spent.                                   *)

\* The form parses and shift_event is "open" or "close".
Receive(r, c) ==
    /\ rd[r] = Idle
    /\ rows[c] + free[c] < MaxRows
    /\ rd' = [rd EXCEPT ![r] = [pc |-> "lookup", company |-> c, checked |-> FALSE,
                                round |-> 0, attempt |-> 0, limited |-> FALSE,
                                trail |-> <<>>, result |-> "none"]]
    /\ UNCHANGED <<rows, free>>

LookupCompany(r) ==
    /\ rd[r].pc = "lookup"
    /\ rd' = [rd EXCEPT ![r].pc = "count"]
    /\ UNCHANGED <<rows, free>>

\* unwrap_or(None): a failed query reads "unrecognized_company" (400).
LookupFails(r) ==
    /\ "db" \in Failures
    /\ rd[r].pc = "lookup"
    /\ Stop(r)
    /\ UNCHANGED <<rows, free>>

\* Mutant: > instead of >= in the refusal.
AtMostCap(c) == CountedRows(c) <= DailyCap
BelowCap(c) == CountedRows(c) < DailyCap

UnderCap(r) ==
    /\ rd[r].pc = "count"
    /\ BelowCap(rd[r].company)
    /\ rd' = [rd EXCEPT ![r].pc = "send", ![r].checked = TRUE]
    /\ UNCHANGED <<rows, free>>

\* 429 "daily_cap_reached".
CapReached(r) ==
    /\ rd[r].pc = "count"
    /\ ~BelowCap(rd[r].company)
    /\ Stop(r)
    /\ UNCHANGED <<rows, free>>

\* Mutant: after a failed COUNT the checks start over.
StartOver(r) ==
    /\ "db" \in Failures
    /\ rd[r].pc = "count"
    /\ rd' = [rd EXCEPT ![r].pc = "lookup"]
    /\ UNCHANGED <<rows, free>>

\* A failed COUNT is taken for zero.
CountFails(r) ==
    /\ "db" \in Failures
    /\ rd[r].pc = "count"
    /\ DailyCap > 0
    /\ rd' = [rd EXCEPT ![r].pc = "send"]
    /\ UNCHANGED <<rows, free>>

-----------------------------------------------------------------------------
(* call_gemini, call_gemini_once and send_with_retry.                      *)

\* Mutant: what a POST came to is passed on as it is.
AsIs(o) == o
\* The kind of answer an unretried outcome gets.
Kind(o) == IF o \in {"reading", "declined", "no_text"} THEN o ELSE "upstream"

\* Mutants: any HTTP error is retried; the loop has a third turn.
AnyHttpError(o) == o \in {"network", "5xx", "429", "4xx"}
ThreeTurns(r) == rd[r].attempt < 3

\* Worth the one retry of send_with_retry.
Transient(o) == o \in {"network", "5xx", "429"}
\* Worth the one retry of call_gemini.
SchemaMismatch(o) == o = "schema"
\* for attempt in 0..2
TurnsLeft(r) == rd[r].attempt < 2

\* Mutant: only a 429 touches the flag, so it is left standing.
LeftStanding(r, o) == rd[r].limited \/ o = "429"
\* last_was_rate_limited as the failed attempt leaves it.
LimitedAfter(r, o) == o = "429"

\* `continue`: the next turn of the loop, if there is one.
FailSend(r, o) ==
    /\ rd[r].pc = "send"
    /\ TurnsLeft(r)
    /\ Transient(o)
    /\ rd' = [rd EXCEPT ![r].attempt = @ + 1, ![r].limited = LimitedAfter(r, o),
                        ![r].trail = Append(@, o)]
    /\ UNCHANGED <<rows, free>>

\* After the loop the flag the attempts left decides between "rate_limited"
\* and "upstream_error".
SendExhausted(r) ==
    /\ rd[r].pc = "send"
    /\ ~TurnsLeft(r)
    /\ rd' = [rd EXCEPT ![r].pc = "log",
                        ![r].result = IF rd[r].limited THEN "rate_limited" ELSE "upstream"]
    /\ UNCHANGED <<rows, free>>

SecondRound(r, o) ==
    /\ rd[r].pc = "send"
    /\ TurnsLeft(r)
    /\ ~Transient(o)
    /\ SchemaMismatch(o)
    /\ rd[r].round = 0
    /\ rd' = [rd EXCEPT ![r].round = 1, ![r].attempt = 0, ![r].limited = FALSE,
                        ![r].trail = Append(@, o)]
    /\ UNCHANGED <<rows, free>>

CallEnds(r, o) ==
    /\ rd[r].pc = "send"
    /\ TurnsLeft(r)
    /\ ~Transient(o)
    /\ ~(SchemaMismatch(o) /\ rd[r].round = 0)
    /\ rd' = [rd EXCEPT ![r].pc = "log", ![r].result = Kind(o), ![r].trail = Append(@, o)]
    /\ UNCHANGED <<rows, free>>

\* GEMINI_API_KEY is not set, or no client can be built: the same for both
\* rounds, so it shows in the first.
NoCall(r) ==
    /\ rd[r].pc = "send"
    /\ rd[r].trail = <<>>
    /\ rd' = [rd EXCEPT ![r].pc = "log", ![r].result = "upstream"]
    /\ UNCHANGED <<rows, free>>

Send(r) == \/ \E o \in Outcomes : FailSend(r, o) \/ SecondRound(r, o) \/ CallEnds(r, o)
           \/ SendExhausted(r) \/ NoCall(r)

-----------------------------------------------------------------------------
(* The log row and the answer: the insert is awaited before the reply.     *)

LogRow(r) ==
    \/ /\ rd[r].checked
       /\ rows' = [rows EXCEPT ![rd[r].company] = @ + 1]
       /\ UNCHANGED free
    \/ /\ ~rd[r].checked
       /\ free' = [free EXCEPT ![rd[r].company] = @ + 1]
       /\ UNCHANGED rows

InsertLog(r) ==
    /\ rd[r].pc = "log"
    /\ LogRow(r)
    /\ Stop(r)

\* A failed insert is traced and the answer goes out all the same.
InsertLogFails(r) ==
    /\ "db" \in Failures
    /\ rd[r].pc = "log"
    /\ Stop(r)
    /\ UNCHANGED <<rows, free>>

\* A row leaves the 24-hour window.
Age(c) ==
    /\ \/ rows[c] > 0 /\ rows' = [rows EXCEPT ![c] = @ - 1] /\ UNCHANGED free
       \/ free[c] > 0 /\ free' = [free EXCEPT ![c] = @ - 1] /\ UNCHANGED rows
    /\ UNCHANGED rd

\* The client goes away and the handler is dropped where it waits; an insert
\* it was waiting for may have reached the database.
Hangup(r) ==
    /\ "hangup" \in Failures
    /\ rd[r] # Idle
    /\ Stop(r)
    /\ \/ UNCHANGED <<rows, free>>
       \/ rd[r].pc = "log" /\ LogRow(r)

Query(r) == \/ LookupCompany(r) \/ LookupFails(r)
            \/ UnderCap(r) \/ CapReached(r) \/ CountFails(r)
Log(r) == InsertLog(r) \/ InsertLogFails(r)

Next == \/ \E r \in Readers : \/ \E c \in Companies : Receive(r, c)
                              \/ Query(r) \/ Send(r) \/ Log(r) \/ Hangup(r)
        \/ \E c \in Companies : Age(c)

Spec == Init /\ [][Next]_vars

\* reqwest gives up after 25 seconds, so a POST always ends; the database is
\* relied on to answer, also to the insert before the reply.
FairSpec == Spec /\ \A r \in Readers : WF_vars(Query(r)) /\ WF_vars(Send(r)) /\ WF_vars(Log(r))

-----------------------------------------------------------------------------
(* Properties.                                                             *)

\* The rows of one prefix that the COUNT let pass.
PassedRows(c) == SumFunctionOnSet(rows, SamePrefix(c))

\* Let pass by the COUNT but not yet counted by it.
Uncounted(c) == {r \in Readers : /\ rd[r].pc \in {"send", "log"}
                                 /\ rd[r].checked
                                 /\ PrefixOf[rd[r].company] = PrefixOf[c]}

\* The check and the row it counts are far apart (151 and 320), yet requests
\* that race past it overshoot the cap by less than one each: of what
\* the companies of a prefix are billed for in 24 hours, only the calls that a
\* failed COUNT let pass come on top.
CapOvershoot ==
    \A c \in Companies :
        PassedRows(c) + Cardinality(Uncounted(c)) < DailyCap + Cardinality(Readers)

\* A read spends at most four POSTs, two rounds of two.
RetryBudget == \A r \in Readers : rd[r] # Idle => Len(rd[r].trail) <= 4

\* The doc comments of call_gemini and send_with_retry, as a definition: a
\* round is one POST, or two if the first one's failure was transient; there
\* is a second round exactly if the first ended with an unusable payload.
RoundDone(t) == \/ Len(t) = 1 /\ t[1] \notin {"network", "5xx", "429"}
                \/ Len(t) = 2 /\ t[1] \in {"network", "5xx", "429"}
Justified(t) ==
    \/ t = <<>>
    \/ RoundDone(t) /\ t[Len(t)] # "schema"
    \/ \E k \in 1..(Len(t) - 1) : /\ RoundDone(SubSeq(t, 1, k))
                                  /\ t[k] = "schema"
                                  /\ RoundDone(SubSeq(t, k + 1, Len(t)))
\* No POST is repeated, or left out, without a reason the comments give
\* (541-546 and 687-700), whichever way the two layers of retries interact.
RetriesJustified ==
    \A r \in Readers : rd[r].pc = "log" => Justified(rd[r].trail)

\* The app is told "busy, try again" exactly when Gemini's last word was 429:
\* last_was_rate_limited, which outlives an attempt, is never left standing by
\* a later failure, nor carried into the second round.
RateLimitedLast ==
    \A r \in Readers : rd[r].pc = "log" =>
        (rd[r].result = "rate_limited" <=>
            rd[r].trail # <<>> /\ rd[r].trail[Len(rd[r].trail)] = "429")

\* Migration 006, 1-2: "Every call to the meter-OCR cloud fallback ..., win or
\* lose": a request that is over and has sent a POST has its row.  Not so if
\* its client goes away or its insert fails.
EveryCallLogged ==
    [][\A r \in Readers : (rd[r] # Idle /\ rd'[r] = Idle /\ rd[r].trail # <<>>) => LogRow(r)]_vars

\* Every request is answered, whatever Gemini does.
EveryReadAnswered == \A r \in Readers : rd[r] # Idle ~> rd[r] = Idle
=============================================================================
