-------------------------------- MODULE Accounts --------------------------------
(***************************************************************************)
(* Accounts and sessions (src/authentication): sign-up, edit and delete    *)
(* (signup.rs), log-in (login.rs) and the guard of the admin routes        *)
(* (guard.rs).  A session is a signed token; the guard looks at its        *)
(* signature and its expiry and never at the accounts, so that what a      *)
(* token claims may be out of date.  The tokens are those this server      *)
(* signed: nothing is said of others who know the fallback key.            *)
(*                                                                         *)
(* Time is counted in ticks, and only as what is left or has passed.       *)
(***************************************************************************)
EXTENDS Integers, FiniteSets

CONSTANTS Ids,         \* uuids, never drawn twice
          Emails,
          Passwords,   \* each known to one person
          WellFormed,  \* the passwords that validate() of login.rs lets pass
          Secrets,     \* what JWT_SECRET may be set to
          Unset,       \* JWT_SECRET not set
          ChangeMe,    \* the fallback "change_me"
          Handlers,
          Absent, Idle,
          Day,         \* the life of a token, 24 hours
          Leeway,      \* by which Validation::default() takes an expired token
          Slow,        \* the ticks a handler may take
          MaxTokens    \* bound: tokens at a time

ASSUME TimesAssumption == /\ Day \in Nat \ {0} /\ Leeway \in Nat /\ Slow \in Nat
                          /\ MaxTokens \in Nat
ASSUME WellFormedAssumption == WellFormed \subseteq Passwords

VARIABLES users,    \* users[id]: the row, kept with live = FALSE after its deletion
          req,      \* req[h]: the request h is handling
          tokens,   \* the sessions handed out
          secret    \* JWT_SECRET of the running process

vars == <<users, req, tokens, secret>>

\* The longest a claim can be out of date: see ClaimsSettle.
Horizon == Day + Leeway + 2 * Slow + 1

User == [email : Emails, password : Passwords, live : BOOLEAN]
ASSUME AbsentAssumption == Absent \notin User
\* typed: the password the session was opened with; stale: for how many ticks
\* the claims have been out of date, at most Horizon.  Both are history.
Claims == [sub : Ids, email : Emails, typed : Passwords, stale : 0..Horizon]
Token == [claims : Claims, left : -(Leeway + 1)..Day, key : Secrets \cup {ChangeMe}]
Request == [at : {"verify", "admin"}, claims : Claims, age : 0..Slow]

TypeOK == /\ users \in [Ids -> User \cup {Absent}]
          /\ req \in [Handlers -> Request \cup {Idle}]
          /\ tokens \subseteq Token
          /\ secret \in Secrets \cup {Unset}

Init == /\ users = [id \in Ids |-> Absent]
        /\ req = [h \in Handlers |-> Idle]
        /\ tokens = {}
        /\ secret \in Secrets \cup {Unset}

Live(id) == users[id] # Absent /\ users[id].live

-----------------------------------------------------------------------------
(* signup.rs                                                               *)

\* The unique index on users.email.
EmailFree(id, email) == \A o \in Ids \ {id} : Live(o) => users[o].email # email

\* The two passwords typed are equal (otherwise 400); no other rule is checked.
SignUp(id, email, password) ==
    /\ users[id] = Absent
    /\ EmailFree(id, email)
    /\ users' = [users EXCEPT ![id] = [email |-> email, password |-> password, live |-> TRUE]]
    /\ UNCHANGED <<req, tokens, secret>>

UpdateEmail(id, email) ==
    /\ Live(id)
    /\ EmailFree(id, email)
    /\ users' = [users EXCEPT ![id].email = email]
    /\ UNCHANGED <<req, tokens, secret>>

DeleteUser(id) ==
    /\ Live(id)
    /\ users' = [users EXCEPT ![id].live = FALSE]
    /\ UNCHANGED <<req, tokens, secret>>

-----------------------------------------------------------------------------
(* login.rs                                                                *)

\* unwrap_or_else, in login.rs and in guard.rs.
Key == IF secret = Unset THEN ChangeMe ELSE secret

LoggingIn == {h \in Handlers : req[h] # Idle /\ req[h].at = "verify"}

\* SELECT ... WHERE email = $1, after validate().
Lookup(h, id, email, password) ==
    /\ req[h] = Idle
    /\ Cardinality(tokens) + Cardinality(LoggingIn) < MaxTokens
    /\ password \in WellFormed
    /\ Live(id) /\ users[id].email = email
    /\ req' = [req EXCEPT ![h] =
          [at |-> "verify", age |-> 0,
           claims |-> [sub |-> id, email |-> email, typed |-> password, stale |-> 0]]]
    /\ UNCHANGED <<users, tokens, secret>>

\* Mutant: the account is looked up again by its e-mail for the claims.
LookedUpAgain(c) == IF \E id \in Ids : Live(id) /\ users[id].email = c.email
                    THEN CHOOSE id \in Ids : Live(id) /\ users[id].email = c.email
                    ELSE c.sub
Subject(c) == c.sub

\* Mutant: milliseconds for seconds.
InMillis == 1000 * Day
\* exp, measured from the moment the password was verified.
Lifetime == Day

\* bcrypt verifies what was typed against the row read; then the token is
\* signed, whatever has become of the row.
LogIn(h) ==
    /\ h \in LoggingIn
    /\ LET c == req[h].claims IN
       tokens' = IF users[c.sub].password = c.typed
                 THEN tokens \cup {[claims |-> [c EXCEPT !.sub = Subject(c)], left |-> Lifetime, key |-> Key]}
                 ELSE tokens
    /\ req' = [req EXCEPT ![h] = Idle]
    /\ UNCHANGED <<users, secret>>

-----------------------------------------------------------------------------
(* guard.rs                                                                *)

\* Mutant: any token with our signature.
Signed(t) == t.key = Key
Accepts(t) == t.key = Key /\ t.left >= -Leeway

Admit(h, t) ==
    /\ req[h] = Idle
    /\ Accepts(t)
    /\ req' = [req EXCEPT ![h] = [at |-> "admin", age |-> 0, claims |-> t.claims]]
    /\ UNCHANGED <<users, tokens, secret>>

\* The guarded handler does its work.
Serve(h) ==
    /\ req[h] # Idle /\ req[h].at = "admin"
    /\ req' = [req EXCEPT ![h] = Idle]
    /\ UNCHANGED <<users, tokens, secret>>

\* The client forgets a session.
Discard(t) == /\ tokens' = tokens \ {t}
              /\ UNCHANGED <<users, req, secret>>

-----------------------------------------------------------------------------

Current(c) == Live(c.sub) /\ users[c.sub].email = c.email
Aged(c) == [c EXCEPT !.stale = IF Current(c) THEN 0 ELSE IF @ < Horizon THEN @ + 1 ELSE @]

\* Time does not outrun a handler.
Tick ==
    /\ \A h \in Handlers : req[h] # Idle => req[h].age < Slow
    /\ tokens' = {[claims |-> Aged(t.claims), key |-> t.key,
                 left |-> IF t.left < -Leeway THEN t.left ELSE t.left - 1] : t \in tokens}
    /\ req' = [h \in Handlers |-> IF req[h] = Idle THEN Idle
                                  ELSE [req[h] EXCEPT !.age = @ + 1, !.claims = Aged(@)]]
    /\ UNCHANGED <<users, secret>>

\* The server dies with what it is doing and comes up again, with the same
\* JWT_SECRET, another one or none.
Restart(s) == /\ secret' = s
              /\ req' = [h \in Handlers |-> Idle]
              /\ UNCHANGED <<users, tokens>>

Next ==
    \/ \E id \in Ids, email \in Emails :
         \/ \E p \in Passwords : SignUp(id, email, p)
         \/ UpdateEmail(id, email)
         \/ \E h \in Handlers, p \in Passwords : Lookup(h, id, email, p)
    \/ \E id \in Ids : DeleteUser(id)
    \/ \E h \in Handlers : LogIn(h) \/ Serve(h) \/ \E t \in tokens : Admit(h, t)
    \/ \E t \in tokens : Discard(t)
    \/ \E s \in Secrets \cup {Unset} : Restart(s)
    \/ Tick

Spec == Init /\ [][Next]_vars

\* Time passes, verifying ends and the database answers.
FairSpec == Spec /\ WF_vars(Tick) /\ \A h \in Handlers : WF_vars(LogIn(h)) /\ WF_vars(Serve(h))

-----------------------------------------------------------------------------
(* Properties.                                                             *)

Admitted(c) == \E h \in Handlers : req[h] # Idle /\ req[h].at = "admin" /\ req[h].claims = c
Sessions == {t.claims : t \in {s \in tokens : Accepts(s)}}

\* Whoever holds a session of an account, or is served as it, has typed that
\* account's password, although e-mails are edited, handed on to new accounts
\* and freed by deletions while log-ins are between their SELECT and their
\* signature (login.rs 46-96).
SessionsProved ==
    /\ \A t \in tokens : users[t.claims.sub].password = t.claims.typed
    /\ \A h \in Handlers : (req[h] # Idle /\ req[h].at = "admin") =>
          users[req[h].claims.sub].password = req[h].claims.typed

\* The guard asks no table (guard.rs 50-57): a deleted account, or an e-mail
\* that is another account's by now, goes on being accepted - for 24 hours,
\* the leeway and as long as a log-in under way at the time may take; and
\* what is done under it happens at most a handler's time later.
ClaimsSettle ==
    /\ \A c \in Sessions : c.stale <= Day + Leeway + Slow
    /\ \A h \in Handlers : (req[h] # Idle /\ req[h].at = "admin") =>
          req[h].claims.stale <= Day + Leeway + 2 * Slow

\* A deleted account is locked out in the end, and for good.
DeletedLockedOut ==
    \A id \in Ids :
        [](users[id] # Absent /\ ~users[id].live =>
              <>[](\A c \in Sessions : c.sub # id))
=============================================================================
