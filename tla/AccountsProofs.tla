---------------------------- MODULE AccountsProofs ----------------------------
(***************************************************************************)
(* Proofs about Accounts, for any accounts, e-mails, passwords, handlers   *)
(* and lengths of a day, the leeway and a handler's work.                  *)
(***************************************************************************)
EXTENDS Accounts, TLAPS

\* A session, and a request, is of an account that was made.
Known == /\ \A t \in tokens : users[t.claims.sub] # Absent
         /\ \A h \in Handlers : req[h] # Idle => users[req[h].claims.sub] # Absent

\* What a claim is out of date, a log-in or its token has been under way.
Timely ==
    /\ \A t \in tokens : t.left >= -Leeway => t.claims.stale + t.left <= Day + Slow
    /\ \A h \in Handlers : req[h] # Idle =>
          req[h].claims.stale <= req[h].age
              + (IF req[h].at = "verify" THEN 0 ELSE Day + Leeway + Slow)

IInv == TypeOK /\ Known /\ SessionsProved /\ Timely

LEMMA InitIInv == Init => IInv
  BY TimesAssumption DEF Init, IInv, TypeOK, Known, SessionsProved, Timely

\* Ageing a claim, and nothing else, adds at most a tick.
LEMMA AgedClaim ==
    ASSUME TypeOK, NEW c \in Claims
    PROVE  /\ Aged(c) \in Claims
           /\ Aged(c).sub = c.sub /\ Aged(c).typed = c.typed
           /\ Aged(c).stale <= c.stale + 1
<1>1. Horizon \in Nat
  BY TimesAssumption DEF Horizon
<1>2. c.stale \in 0..Horizon
  BY DEF Claims
<1>3. CASE Current(c)
  BY <1>1, <1>2, <1>3 DEF Aged, Claims
<1>4. CASE ~Current(c) /\ c.stale < Horizon
  BY <1>1, <1>2, <1>4 DEF Aged, Claims
<1>5. CASE ~Current(c) /\ ~(c.stale < Horizon)
  BY <1>1, <1>2, <1>5 DEF Aged, Claims
<1> QED BY <1>3, <1>4, <1>5

-----------------------------------------------------------------------------
(* Each step preserves IInv.                                               *)

\* Writes leave the rows of other accounts, and a row's password, alone.
LEMMA UserStep ==
    ASSUME IInv, NEW id \in Ids,
           \/ \E e \in Emails : UpdateEmail(id, e) \/ \E p \in Passwords : SignUp(id, e, p)
           \/ DeleteUser(id)
    PROVE  IInv'
<1> USE DEF IInv
<1>1. UNCHANGED <<req, tokens, secret>> /\ users' \in [Ids -> User \cup {Absent}]
      /\ \A o \in Ids : users[o] # Absent => /\ users'[o] # Absent
                                             /\ users'[o].password = users[o].password
  <2>1. ASSUME NEW e \in Emails, UpdateEmail(id, e) PROVE <1>1!:
    BY <2>1, AbsentAssumption DEF UpdateEmail, Live, TypeOK, User
  <2>2. ASSUME NEW e \in Emails, NEW p \in Passwords, SignUp(id, e, p) PROVE <1>1!:
    BY <2>2, AbsentAssumption DEF SignUp, TypeOK, User
  <2>3. CASE DeleteUser(id)
    BY <2>3, AbsentAssumption DEF DeleteUser, Live, TypeOK, User
  <2> QED BY <2>1, <2>2, <2>3
<1>2. /\ \A t \in tokens : t.claims.sub \in Ids
      /\ \A h \in Handlers : req[h] # Idle => req[h].claims.sub \in Ids
  BY DEF TypeOK, Token, Request, Claims
<1>3. TypeOK'
  BY <1>1 DEF TypeOK
<1>4. Known'
  BY <1>1, <1>2 DEF Known
<1>5. SessionsProved'
  BY <1>1, <1>2 DEF SessionsProved, Known
<1>6. Timely'
  BY <1>1 DEF Timely
<1> QED BY <1>3, <1>4, <1>5, <1>6

LEMMA LookupStep ==
    ASSUME IInv, NEW h \in Handlers, NEW id \in Ids, NEW e \in Emails, NEW p \in Passwords,
           Lookup(h, id, e, p)
    PROVE  IInv'
<1> USE DEF IInv
<1> DEFINE r == [at |-> "verify", age |-> 0,
                 claims |-> [sub |-> id, email |-> e, typed |-> p, stale |-> 0]]
<1>1. req' = [req EXCEPT ![h] = r] /\ UNCHANGED <<users, tokens, secret>> /\ users[id] # Absent
  BY DEF Lookup, Live
<1>2. r \in Request
  BY TimesAssumption DEF Request, Claims, Horizon
<1>3. TypeOK'
  BY <1>1, <1>2 DEF TypeOK
<1>4. \A o \in Handlers : req'[o] = IF o = h THEN r ELSE req[o]
  BY <1>1 DEF TypeOK
<1>5. Known'
  BY <1>1, <1>4 DEF Known
<1>6. SessionsProved'
  BY <1>1, <1>4 DEF SessionsProved
<1>7. Timely'
  BY <1>1, <1>4 DEF Timely
<1> QED BY <1>3, <1>5, <1>6, <1>7

LEMMA LogInStep ==
    ASSUME IInv, NEW h \in Handlers, LogIn(h)
    PROVE  IInv'
<1> USE DEF IInv
<1> DEFINE c == req[h].claims
           t == [claims |-> [c EXCEPT !.sub = Subject(c)], left |-> Lifetime, key |-> Key]
<1>1. /\ req[h] # Idle /\ req[h].at = "verify" /\ req[h] \in Request
      /\ req' = [req EXCEPT ![h] = Idle] /\ UNCHANGED <<users, secret>>
      /\ tokens' = IF users[c.sub].password = c.typed THEN tokens \cup {t} ELSE tokens
  BY DEF LogIn, LoggingIn, TypeOK
<1>2. c \in Claims /\ t.claims = c /\ t.left = Day
  BY <1>1 DEF Request, Claims, Subject, Lifetime
<1>3. t \in Token
  <2>1. Key \in Secrets \cup {ChangeMe}
    BY DEF Key, TypeOK
  <2> QED BY <1>2, <2>1, TimesAssumption DEF Token
<1>4. \A o \in Handlers : req'[o] = IF o = h THEN Idle ELSE req[o]
  BY <1>1 DEF TypeOK
<1>5. TypeOK'
  BY <1>1, <1>3 DEF TypeOK
<1>6. Known'
  BY <1>1, <1>2, <1>4 DEF Known
<1>7. SessionsProved'
  BY <1>1, <1>2, <1>4 DEF SessionsProved
<1>8. t.claims.stale + t.left <= Day + Slow
  BY <1>1, <1>2, TimesAssumption DEF Timely, Request, Claims, Horizon
<1>9. Timely'
  BY <1>1, <1>4, <1>8 DEF Timely
<1> QED BY <1>5, <1>6, <1>7, <1>9

LEMMA AdmitStep ==
    ASSUME IInv, NEW h \in Handlers, NEW t \in tokens, Admit(h, t)
    PROVE  IInv'
<1> USE DEF IInv
<1> DEFINE r == [at |-> "admin", age |-> 0, claims |-> t.claims]
<1>1. req' = [req EXCEPT ![h] = r] /\ UNCHANGED <<users, tokens, secret>> /\ t.left >= -Leeway
  BY DEF Admit, Accepts
<1>2. t \in Token /\ r \in Request
  BY TimesAssumption DEF TypeOK, Token, Request
<1>3. TypeOK'
  BY <1>1, <1>2 DEF TypeOK
<1>4. \A o \in Handlers : req'[o] = IF o = h THEN r ELSE req[o]
  BY <1>1 DEF TypeOK
<1>5. Known'
  BY <1>1, <1>4 DEF Known
<1>6. SessionsProved'
  BY <1>1, <1>4 DEF SessionsProved
<1>7. t.claims.stale <= Day + Leeway + Slow
  BY <1>1, <1>2, TimesAssumption DEF Timely, Token, Claims, Horizon
<1>8. Timely'
  BY <1>1, <1>4, <1>7, TimesAssumption DEF Timely
<1> QED BY <1>3, <1>5, <1>6, <1>8

\* Requests end, sessions are forgotten, the server restarts.
LEMMA EndStep ==
    ASSUME IInv, \/ \E h \in Handlers : Serve(h)
                 \/ \E t \in tokens : Discard(t)
                 \/ \E s \in Secrets \cup {Unset} : Restart(s)
    PROVE  IInv'
<1> USE DEF IInv
<1>1. UNCHANGED users /\ tokens' \subseteq tokens /\ secret' \in Secrets \cup {Unset}
      /\ req' \in [Handlers -> Request \cup {Idle}]
      /\ \A h \in Handlers : req'[h] \in {Idle, req[h]}
  BY DEF Serve, Discard, Restart, TypeOK
<1>2. TypeOK'
  BY <1>1 DEF TypeOK
<1>3. Known' /\ SessionsProved' /\ Timely'
  BY <1>1 DEF Known, SessionsProved, Timely
<1> QED BY <1>2, <1>3

LEMMA TickStep ==
    ASSUME IInv, Tick
    PROVE  IInv'
<1> USE DEF IInv
<1> DEFINE Less(t) == IF t.left < -Leeway THEN t.left ELSE t.left - 1
           Older(t) == [claims |-> Aged(t.claims), left |-> Less(t), key |-> t.key]
<1>1. users' = users /\ secret' = secret /\ tokens' = {Older(t) : t \in tokens}
  BY DEF Tick
<1>2. \A h \in Handlers : req[h] # Idle =>
          /\ req[h] \in Request /\ req[h].age < Slow
          /\ req'[h] = [req[h] EXCEPT !.age = @ + 1, !.claims = Aged(@)]
  BY DEF Tick, TypeOK
<1>3. req' = [h \in Handlers |-> IF req[h] = Idle THEN Idle ELSE req'[h]]
  BY DEF Tick
<1>4. ASSUME NEW t \in tokens
      PROVE  /\ Older(t) \in Token
             /\ Older(t).claims.sub = t.claims.sub /\ Older(t).claims.typed = t.claims.typed
             /\ Older(t).left >= -Leeway => Older(t).claims.stale + Older(t).left <= Day + Slow
  <2>1. t \in Token /\ t.claims \in Claims
    BY DEF TypeOK, Token
  <2>2. Less(t) \in -(Leeway + 1)..Day
    BY <2>1, TimesAssumption DEF Token
  <2>3. Older(t) \in Token
    BY <2>1, <2>2, AgedClaim DEF Token
  <2>4. Aged(t.claims).stale <= t.claims.stale + 1
    BY <2>1, AgedClaim
  <2>5. /\ t.claims.stale \in Int /\ Aged(t.claims).stale \in Int /\ t.left \in Int
    BY <2>1, AgedClaim, TimesAssumption DEF Claims, Token, Horizon
  <2>6. ASSUME Less(t) >= -Leeway
        PROVE  Aged(t.claims).stale + Less(t) <= Day + Slow
    <3>1. t.left >= -Leeway /\ Less(t) = t.left - 1
      BY <2>5, <2>6, TimesAssumption
    <3>2. t.claims.stale + t.left <= Day + Slow
      BY <3>1 DEF Timely
    <3> QED BY <3>1, <3>2, <2>4, <2>5, TimesAssumption
  <2> QED BY <2>1, <2>3, <2>6, AgedClaim
<1>5. ASSUME NEW h \in Handlers, req[h] # Idle
      PROVE  /\ req'[h] \in Request /\ req'[h].at = req[h].at
             /\ req'[h].claims.sub = req[h].claims.sub
             /\ req'[h].claims.typed = req[h].claims.typed
             /\ req'[h].age = req[h].age + 1
             /\ req'[h].claims.stale <= req[h].claims.stale + 1
             /\ req'[h].claims.stale \in Int /\ req[h].claims.stale \in Int /\ req[h].age \in Int
  <2>1. req[h].claims \in Claims /\ req[h].age \in 0..Slow
    BY <1>2, <1>5 DEF Request
  <2>2. /\ req'[h].at = req[h].at /\ req'[h].age = req[h].age + 1
        /\ req'[h].claims = Aged(req[h].claims)
    BY <1>2, <1>5 DEF Request
  <2>3. req'[h] \in Request
    <3>1. req'[h] = [at |-> req[h].at, claims |-> Aged(req[h].claims), age |-> req[h].age + 1]
      BY <1>2, <1>5 DEF Request
    <3>2. Aged(req[h].claims) \in Claims
      BY <2>1, AgedClaim
    <3>3. req[h] \in Request /\ req[h].age < Slow
      BY <1>2, <1>5
    <3>4. req[h].age + 1 \in 0..Slow
      BY <2>1, <3>3, TimesAssumption
    <3>5. req[h].at \in {"verify", "admin"}
      BY <3>3 DEF Request
    <3> QED BY <3>1, <3>2, <3>4, <3>5 DEF Request
  <2> QED BY <2>1, <2>2, <2>3, AgedClaim, TimesAssumption DEF Claims, Horizon
<1>6. TypeOK'
  <2>1. tokens' \subseteq Token
    BY <1>1, <1>4
  <2>2. req' \in [Handlers -> Request \cup {Idle}]
    BY <1>3, <1>5
  <2> QED BY <1>1, <2>1, <2>2 DEF TypeOK
<1>7. \A h \in Handlers : req[h] = Idle => req'[h] = Idle
  BY <1>3
<1>8. Known'
  BY <1>1, <1>4, <1>5, <1>7 DEF Known
<1>9. SessionsProved'
  BY <1>1, <1>4, <1>5, <1>7 DEF SessionsProved
<1>10. Timely'
  <2>1. ASSUME NEW h \in Handlers, req'[h] # Idle
        PROVE  req'[h].claims.stale <= req'[h].age
                   + (IF req'[h].at = "verify" THEN 0 ELSE Day + Leeway + Slow)
    <3>1. req[h] # Idle
      BY <2>1, <1>7
    <3>2. req[h].claims.stale <= req[h].age
              + (IF req[h].at = "verify" THEN 0 ELSE Day + Leeway + Slow)
      BY <3>1 DEF Timely
    <3> QED BY <3>1, <3>2, <1>5, TimesAssumption
  <2> QED BY <1>1, <1>4, <2>1 DEF Timely
<1> QED BY <1>6, <1>8, <1>9, <1>10

LEMMA NextIInv == IInv /\ [Next]_vars => IInv'
<1> SUFFICES ASSUME IInv, [Next]_vars PROVE IInv'
  OBVIOUS
<1>1. CASE UNCHANGED vars
  BY <1>1 DEF vars, IInv, TypeOK, Known, SessionsProved, Timely
<1>2. CASE Next
  BY <1>2, UserStep, LookupStep, LogInStep, AdmitStep, EndStep, TickStep DEF Next
<1> QED BY <1>1, <1>2

\* What the invariant says of the age of claims, from its two sums.
LEMMA TimelySettles == IInv => ClaimsSettle
<1> SUFFICES ASSUME IInv PROVE ClaimsSettle
  OBVIOUS
<1>1. ASSUME NEW t \in tokens, t.left >= -Leeway
      PROVE  t.claims.stale <= Day + Leeway + Slow
  BY <1>1, TimesAssumption DEF IInv, Timely, TypeOK, Token, Claims, Horizon
<1>2. ASSUME NEW h \in Handlers, req[h] # Idle, req[h].at = "admin"
      PROVE  req[h].claims.stale <= Day + Leeway + 2 * Slow
  <2>1. req[h].claims.stale \in Int /\ req[h].age \in 0..Slow
    BY <1>2, TimesAssumption DEF IInv, TypeOK, Request, Claims, Horizon
  <2>2. req[h].claims.stale <= req[h].age + (Day + Leeway + Slow)
    BY <1>2 DEF IInv, Timely
  <2> QED BY <2>1, <2>2, TimesAssumption
<1> QED BY <1>1, <1>2 DEF ClaimsSettle, Sessions, Accepts

-----------------------------------------------------------------------------

\* The invariant of the log-in, the guard and the writes of accounts.
THEOREM AccountsInductive == Spec => []IInv
  BY InitIInv, NextIInv, PTL DEF Spec

\* Accounts, requests and sessions keep their types.
THEOREM AccountsTypeCorrect == Spec => []TypeOK
  BY AccountsInductive, PTL DEF IInv

\* Whoever holds a session of an account has typed that account's password,
\* whatever happens to accounts and e-mails between SELECT and signature.
THEOREM SessionsEarned == Spec => []SessionsProved
  BY AccountsInductive, PTL DEF IInv

\* A session is out of date for no longer than a token's life, the leeway and
\* one log-in, and nothing is done under it more than a handler's time later.
THEOREM ClaimsBounded == Spec => []ClaimsSettle
<1>1. IInv => ClaimsSettle
  BY TimelySettles
<1> QED BY <1>1, AccountsInductive, PTL
=============================================================================
