------------------------------- MODULE MCAuditLog -------------------------------
(* A small instance of AuditLog for TLC: days of two ticks, pages of one row. *)
EXTENDS AuditLog, TLC

CONSTANTS h1, h2, a, b

TwoHandlers == {h1, h2}
HandlerSymmetry == Permutations(Handlers)

TwoPings == {[company |-> c] : c \in {a, b}}
TwoSubmissions == {[company |-> a, status |-> "partial", records |-> <<2, 1>>],
                   [company |-> a, status |-> "success", records |-> NoRecords],
                   [company |-> a, status |-> "failure", records |-> <<1>>]}
StoredBodies == TwoPings \cup {SubmissionOf(p) : p \in Sent}

All == [eq |-> <<>>, from |-> Open, to |-> Open]
FirstDay == [All EXCEPT !.from = <<"day", 0>>, !.to = <<"day", 0>>]
SinceOne == [All EXCEPT !.from = <<"time", 1>>, !.to = <<"other">>]
PingFilters == {[All EXCEPT !.eq = [company |-> a]], FirstDay, SinceOne}
SubmissionFilters == {All} \cup {[All EXCEPT !.eq = [status |-> s]] : s \in {"success", "partial", "failure"}}
=============================================================================
