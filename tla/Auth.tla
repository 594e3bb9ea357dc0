-------------------------------- MODULE Auth --------------------------------
(***************************************************************************)
(* Accounts, passwords, sessions and tokens: AuthService.js with           *)
(* userService.js, sessionStore.js and token.js.                           *)
(*                                                                         *)
(* A request is a thread.  Between two awaits it runs alone, so one action *)
(* is the code between two awaits.  User records are written synchronously *)
(* (utils/db.js); every write of sessions.json goes through the store's    *)
(* FIFO chain, whose head is applied together with the code that awaits    *)
(* it.  What expires (reset links, sessions, tokens) is a token nobody     *)
(* presents any more; of the clock only the lock and the counting window   *)
(* of failed logins are kept, as flags that may end at any time.           *)
(***************************************************************************)
EXTENDS Naturals, FiniteSets, Sequences

CONSTANTS
    Threads,      \* requests being served at the same time
    Emails,       \* addresses of mailboxes
    PhoneMail,    \* the synthetic address of the phone-only account
    Passwords,
    NoPassword,   \* the password of an account made by Google or by phone
    NoUser,
    AutoLink,     \* OAUTH_AUTOLINK
    MaxAttempts,  \* AUTH_MAX_FAILED_ATTEMPTS
    MaxRequests   \* bound on the requests of a behaviour

User == [password : Passwords \union {NoPassword}, hashed : BOOLEAN,
         tokenVersion : Nat, failed : Nat, counting : BOOLEAN, locked : BOOLEAN,
         reset : Nat, verification : Nat, verified : BOOLEAN,
         google : BOOLEAN, phone : BOOLEAN]

ASSUME AuthAssumption ==
    /\ NoUser \notin User
    /\ Threads # {} /\ IsFiniteSet(Threads)
    /\ PhoneMail \notin Emails
    /\ NoPassword \notin Passwords
    /\ AutoLink \in BOOLEAN
    /\ MaxAttempts \in Nat \ {0}
    /\ MaxRequests \in Nat

Addresses == Emails \union {PhoneMail}

VARIABLES
    users,      \* one record per address: the primary key of the table
    sessions,   \* the records of sessions.json
    chain,      \* the updates of sessions.json not yet applied
    issued,     \* every access and refresh token handed out
    mailed,     \* the reset and verification links sent
    thread,     \* where each request stands, and what it holds
    serial,     \* the random identifiers drawn so far
    served,     \* the requests begun
    spent,      \* history: the reset tokens accepted, in order
    exchanged,  \* history: the refresh tokens exchanged, each with the jti it was for
    late,       \* history: wrong passwords judged on an account locked already
    proved      \* history: addresses somebody showed to be theirs

vars == <<users, sessions, chain, issued, mailed, thread, serial, served,
          spent, exchanged, late, proved>>

Idle == [at |-> "idle"]

-----------------------------------------------------------------------------
(* The user records *)

Account(password, hashed) ==
    [password |-> password, hashed |-> hashed, tokenVersion |-> 0,
     failed |-> 0, counting |-> FALSE, locked |-> FALSE, reset |-> 0,
     verification |-> 0, verified |-> FALSE, google |-> FALSE, phone |-> FALSE]

Known(e) == users[e] # NoUser

SetReset(u, token) == [u EXCEPT !.reset = token]
SetVerification(u, token) == [u EXCEPT !.verification = token]

\* writeDb upserts on the address: a second creation replaces the first.
LocalUser(password, phone, token) ==
    SetVerification([Account(password, TRUE) EXCEPT !.phone = phone], token)
GoogleUser == [Account(NoPassword, FALSE) EXCEPT !.google = TRUE, !.verified = TRUE]
PhoneUser == [Account(NoPassword, FALSE) EXCEPT !.phone = TRUE]
HasPhone(e) == Known(e) /\ users[e].phone

LinkGoogle(u) == [u EXCEPT !.google = TRUE, !.verified = TRUE]
SetPassword(u, p) == [u EXCEPT !.password = p, !.hashed = TRUE]
Bumped(u) == [u EXCEPT !.tokenVersion = @ + 1]
\* verifyPassword against the hash or the plain text; an account with neither
\* matches nothing.
Matches(u, p) == u.password = p
NeedsMigration(u) == ~u.hashed /\ u.password # NoPassword

RecordFailed(u) ==
    LET attempts == 1 + IF u.counting THEN u.failed ELSE 0
    IN [u EXCEPT !.failed = attempts, !.counting = TRUE,
                 !.locked = @ \/ attempts >= MaxAttempts]
ResetFailed(u) == [u EXCEPT !.failed = 0, !.counting = FALSE, !.locked = FALSE]

\* Any attempt clears the stored token, whether or not it is the right one.
ConsumesReset(e, token) == Known(e) /\ users[e].reset = token /\ token # 0
ResetTokenKept(e) == users   \* mutant: the token is not cleared
AfterResetAttempt(e) ==
    IF Known(e) THEN [users EXCEPT ![e].reset = 0] ELSE users
ConsumesVerification(e, token) ==
    Known(e) /\ users[e].verification = token /\ token # 0
AfterAnyVerification(u, valid) ==   \* mutant: valid is not asked
    [u EXCEPT !.verification = 0, !.verified = TRUE]
AfterVerification(u, valid) ==
    [u EXCEPT !.verification = 0, !.verified = @ \/ valid]

-----------------------------------------------------------------------------
(* Sessions, and what a token gives access to *)

Session(sid) == {s \in sessions : s.sid = sid}
Active(sid) == \E s \in Session(sid) : ~s.revoked

\* requireAuth, and the checks of refresh up to the one of the jti.
Accepted(token, type) ==
    /\ token.type = type
    /\ Known(token.email)
    /\ token.tokenVersion = users[token.email].tokenVersion
    /\ Active(token.sid)

Tokens(e, version, sid, jti) ==
    {[type |-> "access", email |-> e, tokenVersion |-> version, sid |-> sid, jti |-> 0],
     [type |-> "refresh", email |-> e, tokenVersion |-> version, sid |-> sid, jti |-> jti]}

Revokes(m, s) == \/ m.op = "revoke" /\ s.sid = m.sid
                 \/ m.op = "all" /\ s.email = m.email

\* The mutators of the session store: revoke, revokeAllForUser, rotateJti.
RevokedOnly(m, s) ==   \* mutant: the rotation is not written
    IF Revokes(m, s) THEN [s EXCEPT !.revoked = TRUE] ELSE s
Change(m, s) ==
    IF Revokes(m, s) THEN [s EXCEPT !.revoked = TRUE]
    ELSE IF m.op = "rotate" /\ s.sid = m.sid THEN [s EXCEPT !.jti = m.jti]
    ELSE s

Update(t, op, e, sid, jti, version) ==
    /\ chain' = Append(chain, [op |-> op, by |-> t, email |-> e, sid |-> sid,
                               jti |-> jti, tokenVersion |-> version])
    /\ thread' = [thread EXCEPT ![t] = [at |-> "chain"]]

\* createSession draws the session id and the jti; the tokens are signed with
\* the record the caller holds.
IssueSession(t, e, version, drawn) ==
    /\ Update(t, "create", e, drawn + 1, drawn + 2, version)
    /\ serial' = drawn + 2

Begin(t) ==
    /\ thread[t] = Idle
    /\ served < MaxRequests
    /\ served' = served + 1

Continue(t, at) ==
    /\ thread[t].at = at
    /\ UNCHANGED served

Answer(t) == thread' = [thread EXCEPT ![t] = Idle]

\* What a step that awaits no update of sessions.json leaves alone.
NoUpdate == UNCHANGED <<chain, serial>>
Steady == UNCHANGED <<sessions, issued, exchanged>>

-----------------------------------------------------------------------------
(* Logging in *)

LoginWhenLocked(t, e, p) ==   \* mutant: isLocked is not asked
    /\ Begin(t)
    /\ Known(e)
    /\ thread' = [thread EXCEPT ![t] =
         [at |-> "verify", email |-> e, password |-> p, seen |-> users[e]]]
    /\ NoUpdate /\ Steady
    /\ UNCHANGED <<users, mailed, spent, late, proved>>

\* authenticateLocal up to verifyPassword, which is given the credential read
\* here.  An unknown or locked account is refused.
Login(t, e, p) ==
    /\ Begin(t)
    /\ IF Known(e) /\ ~users[e].locked
         THEN thread' = [thread EXCEPT ![t] =
                [at |-> "verify", email |-> e, password |-> p, seen |-> users[e]]]
         ELSE Answer(t)
    /\ NoUpdate /\ Steady
    /\ UNCHANGED <<users, mailed, spent, late, proved>>

WrongPassword(t) ==
    LET e == thread[t].email
    IN /\ Continue(t, "verify")
       /\ ~Matches(thread[t].seen, thread[t].password)
       /\ users' = [users EXCEPT ![e] = RecordFailed(@)]
       /\ late' = [late EXCEPT ![e] = IF users[e].locked THEN @ + 1 ELSE 0]
       /\ Answer(t)
       /\ NoUpdate /\ Steady
       /\ UNCHANGED <<mailed, spent, proved>>

RightPasswordStale(t) ==   \* mutant: the session is issued for the record read first
    /\ Continue(t, "verify")
    /\ Matches(thread[t].seen, thread[t].password)
    /\ users' = [users EXCEPT ![thread[t].email] = ResetFailed(@)]
    /\ IssueSession(t, thread[t].email, thread[t].seen.tokenVersion, serial)
    /\ Steady
    /\ UNCHANGED <<mailed, spent, late, proved>>

\* The record is read again before the session is issued.
RightPassword(t) ==
    LET e == thread[t].email
    IN /\ Continue(t, "verify")
       /\ Matches(thread[t].seen, thread[t].password)
       /\ users' = [users EXCEPT ![e] = ResetFailed(@)]
       /\ IF NeedsMigration(thread[t].seen)
            THEN /\ thread' = [thread EXCEPT ![t].at = "migrate"]
                 /\ NoUpdate
            ELSE IssueSession(t, e, users'[e].tokenVersion, serial)
       /\ Steady
       /\ UNCHANGED <<mailed, spent, late, proved>>

\* hashPassword has answered; the audit row is awaited next.
Migrate(t) ==
    LET e == thread[t].email
    IN /\ Continue(t, "migrate")
       /\ users' = [users EXCEPT ![e] = SetPassword(@, thread[t].password)]
       /\ thread' = [thread EXCEPT ![t].at = "migrated"]
       /\ NoUpdate /\ Steady
       /\ UNCHANGED <<mailed, spent, late, proved>>

Migrated(t) ==
    LET e == thread[t].email
    IN /\ Continue(t, "migrated")
       /\ IssueSession(t, e, users[e].tokenVersion, serial)
       /\ Steady
       /\ UNCHANGED <<users, mailed, spent, late, proved>>

\* The nonce is burnt and Google's keys are awaited before anything is read.
GoogleLogin(t, e) ==
    /\ Begin(t)
    /\ thread' = [thread EXCEPT ![t] = [at |-> "google", email |-> e]]
    /\ NoUpdate /\ Steady
    /\ UNCHANGED <<users, mailed, spent, late, proved>>

GoogleVerified(t) ==
    LET e == thread[t].email
        u == users[e]
    IN /\ Continue(t, "google")
       /\ proved' = proved \union {e}
       /\ IF Known(e) /\ ~u.google /\ ~AutoLink
            THEN Answer(t) /\ NoUpdate /\ UNCHANGED users
            ELSE /\ users' = [users EXCEPT ![e] =
                      IF ~Known(e) THEN GoogleUser
                      ELSE IF u.google THEN u ELSE LinkGoogle(u)]
                 /\ IssueSession(t, e, users'[e].tokenVersion, serial)
       /\ Steady
       /\ UNCHANGED <<mailed, spent, late>>

\* The token is rejected by the provider.
GoogleRejected(t) ==
    /\ Continue(t, "google")
    /\ Answer(t)
    /\ NoUpdate /\ Steady
    /\ UNCHANGED <<users, mailed, spent, late, proved>>

\* verifyPhoneOtp, for a code the OTP store accepted (module Limits): the
\* number belongs to the first account holding it, or to a new one.
PhoneLogin(t, e) ==
    /\ Begin(t)
    /\ \/ HasPhone(e)
       \/ e = PhoneMail /\ \A a \in Addresses : ~HasPhone(a)
    /\ users' = [users EXCEPT ![e] = IF Known(e) THEN @ ELSE PhoneUser]
    /\ IssueSession(t, e, users'[e].tokenVersion, serial)
    /\ Steady
    /\ UNCHANGED <<mailed, spent, late, proved>>

-----------------------------------------------------------------------------
(* Registering, and the links sent by mail *)

\* The address is looked up before the password is hashed.
Register(t, e, p, hasPhone) ==
    /\ Begin(t)
    /\ IF Known(e) THEN Answer(t)
       ELSE thread' = [thread EXCEPT ![t] =
              [at |-> "register", email |-> e, password |-> p, phone |-> hasPhone]]
    /\ NoUpdate /\ Steady
    /\ UNCHANGED <<users, mailed, spent, late, proved>>

Registered(t) ==
    LET e == thread[t].email
        token == serial + 1
    IN /\ Continue(t, "register")
       /\ users' = [users EXCEPT ![e] =
                      LocalUser(thread[t].password, thread[t].phone, token)]
       /\ mailed' = mailed \union {[kind |-> "verify", email |-> e, token |-> token]}
       /\ IssueSession(t, e, 0, token)
       /\ Steady
       /\ UNCHANGED <<spent, late, proved>>

ResendVerification(t, e) ==
    /\ Begin(t)
    /\ Known(e) /\ ~users[e].verified
    /\ serial' = serial + 1
    /\ users' = [users EXCEPT ![e] = SetVerification(@, serial')]
    /\ mailed' = mailed \union {[kind |-> "verify", email |-> e, token |-> serial']}
    /\ Steady
    /\ UNCHANGED <<thread, chain, spent, late, proved>>

VerifyEmail(t, e, token) ==
    /\ Begin(t)
    /\ Known(e) /\ users[e].verification # 0
    /\ users' = [users EXCEPT ![e] = AfterVerification(@, ConsumesVerification(e, token))]
    /\ proved' = IF [kind |-> "verify", email |-> e, token |-> token] \in mailed
                   THEN proved \union {e} ELSE proved
    /\ NoUpdate /\ Steady
    /\ UNCHANGED <<thread, mailed, spent, late>>

ForgotPassword(t, e) ==
    /\ Begin(t)
    /\ Known(e)
    /\ serial' = serial + 1
    /\ users' = [users EXCEPT ![e] = SetReset(@, serial')]
    /\ mailed' = mailed \union {[kind |-> "reset", email |-> e, token |-> serial']}
    /\ Steady
    /\ UNCHANGED <<thread, chain, spent, late, proved>>

\* The token is consumed before the new password is hashed.
ResetPassword(t, e, token, p) ==
    /\ Begin(t)
    /\ users' = AfterResetAttempt(e)
    /\ IF ConsumesReset(e, token)
         THEN /\ thread' = [thread EXCEPT ![t] =
                              [at |-> "reset", email |-> e, password |-> p]]
              /\ spent' = Append(spent, token)
         ELSE Answer(t) /\ UNCHANGED spent
    /\ NoUpdate /\ Steady
    /\ UNCHANGED <<mailed, late, proved>>

PasswordReset(t) ==
    LET e == thread[t].email
    IN /\ Continue(t, "reset")
       /\ users' = [users EXCEPT ![e] = Bumped(SetPassword(@, thread[t].password))]
       /\ Update(t, "all", e, 0, 0, 0)
       /\ Steady
       /\ UNCHANGED <<mailed, serial, spent, late, proved>>

-----------------------------------------------------------------------------
(* Using tokens *)

\* refresh: a token that is not the session's current one revokes the session.
Refresh(t, token) ==
    /\ Begin(t)
    /\ Accepted(token, "refresh")
    /\ IF \E s \in Session(token.sid) : s.jti = token.jti
         THEN /\ serial' = serial + 1
              /\ exchanged' = exchanged \union {[jti |-> token.jti, next |-> serial']}
              /\ Update(t, "rotate", token.email, token.sid, serial', token.tokenVersion)
         ELSE /\ Update(t, "revoke", token.email, token.sid, 0, 0)
              /\ UNCHANGED <<serial, exchanged>>
    /\ UNCHANGED <<sessions, issued>>
    /\ UNCHANGED <<users, mailed, spent, late, proved>>

Logout(t, token) ==
    /\ Begin(t)
    /\ Accepted(token, "access")
    /\ Update(t, "revoke", token.email, token.sid, 0, 0)
    /\ Steady
    /\ UNCHANGED <<users, mailed, serial, spent, late, proved>>

\* One of the user's own sessions, another device's perhaps.
RevokeSession(t, token, sid) ==
    /\ Begin(t)
    /\ Accepted(token, "access")
    /\ IF \E s \in Session(sid) : s.email = token.email
         THEN Update(t, "revoke", token.email, sid, 0, 0)
         ELSE Answer(t) /\ UNCHANGED chain
    /\ Steady
    /\ UNCHANGED <<users, mailed, serial, spent, late, proved>>

LogoutAll(t, token) ==
    /\ Begin(t)
    /\ Accepted(token, "access")
    /\ users' = [users EXCEPT ![token.email] = Bumped(@)]
    /\ Update(t, "all", token.email, 0, 0, 0)
    /\ Steady
    /\ UNCHANGED <<mailed, serial, spent, late, proved>>

\* The head of the chain is applied; what its caller does next, signing the
\* tokens and answering, reads nothing that others write.
ApplyUpdate ==
    /\ chain # <<>>
    /\ LET m == Head(chain)
       IN /\ sessions' = {Change(m, s) : s \in sessions} \union
               (IF m.op = "create"
                  THEN {[sid |-> m.sid, email |-> m.email, jti |-> m.jti, revoked |-> FALSE]}
                  ELSE {})
          /\ issued' = IF m.op \in {"create", "rotate"}
                         THEN issued \union Tokens(m.email, m.tokenVersion, m.sid, m.jti)
                         ELSE issued
          /\ Answer(m.by)
    /\ chain' = Tail(chain)
    /\ UNCHANGED <<users, mailed, serial, served, spent, exchanged, late, proved>>

\* The lock of an account, or the window its failures are counted in, runs out.
LockEnds(e) ==
    /\ Known(e) /\ users[e].locked
    /\ users' = [users EXCEPT ![e].locked = FALSE]
    /\ NoUpdate /\ Steady
    /\ UNCHANGED <<mailed, thread, served, spent, late, proved>>

WindowEnds(e) ==
    /\ Known(e) /\ users[e].counting
    /\ users' = [users EXCEPT ![e].counting = FALSE]
    /\ NoUpdate /\ Steady
    /\ UNCHANGED <<mailed, thread, served, spent, late, proved>>

-----------------------------------------------------------------------------
LinksFor(kind, e) == {0} \union {l.token : l \in {m \in mailed : m.kind = kind /\ m.email = e}}

Nobody == [e \in Addresses |-> NoUser]

\* An account from before the module holds its password in plain text.
Init ==
    /\ \/ users = Nobody
       \/ \E e \in Emails, p \in Passwords :
            users = [Nobody EXCEPT ![e] = Account(p, FALSE)]
    /\ sessions = {} /\ issued = {} /\ mailed = {}
    /\ chain = <<>> /\ spent = <<>> /\ exchanged = {}
    /\ thread = [t \in Threads |-> Idle]
    /\ serial = 0 /\ served = 0
    /\ late = [e \in Addresses |-> 0]
    /\ proved = {}

SignIn(t) ==
    \/ \E e \in Emails, p \in Passwords :
         \/ Login(t, e, p)
         \/ \E hasPhone \in BOOLEAN : Register(t, e, p, hasPhone)
    \/ \E e \in Emails : GoogleLogin(t, e)
    \/ \E e \in Addresses : PhoneLogin(t, e)

Recover(t) ==
    \E e \in Emails :
      \/ ResendVerification(t, e)
      \/ ForgotPassword(t, e)
      \/ \E token \in LinksFor("verify", e) : VerifyEmail(t, e, token)
      \/ \E token \in LinksFor("reset", e), p \in Passwords : ResetPassword(t, e, token, p)

UseToken(t) ==
    \E token \in issued :
      \/ Refresh(t, token)
      \/ Logout(t, token)
      \/ \E s \in sessions : RevokeSession(t, token, s.sid)
      \/ LogoutAll(t, token)

Resume(t) ==
    \/ WrongPassword(t) \/ RightPassword(t) \/ Migrate(t) \/ Migrated(t)
    \/ GoogleVerified(t) \/ GoogleRejected(t)
    \/ Registered(t) \/ PasswordReset(t)

Next ==
    \/ \E t \in Threads : SignIn(t) \/ Recover(t) \/ UseToken(t) \/ Resume(t)
    \/ ApplyUpdate
    \/ \E e \in Emails : LockEnds(e) \/ WindowEnds(e)

Spec == Init /\ [][Next]_vars

-----------------------------------------------------------------------------
(* What the module promises *)

Pending(op, e) == \E i \in DOMAIN chain : chain[i].op = op /\ chain[i].email = e

\* Signing out everywhere, or resetting the password, leaves no session open:
\* once the revocation it queued is applied, a session some token of an older
\* version belongs to is revoked, also when that login or rotation was still in
\* the chain at the time (logoutAll, resetPassword, README of src/auth).
SignedOutEverywhere ==
    \A token \in issued :
      LET e == token.email
      IN (/\ token.tokenVersion < users[e].tokenVersion
          /\ ~Pending("all", e)) => ~Active(token.sid)

\* Once an exchange has been answered, the token given for it is no session's
\* any more, whatever other rotations were in the chain: presenting it again is
\* seen as a replay and revokes the session.  Until then it still passes: a
\* second refresh that overlaps the first is accepted too, and both get tokens.
ExchangedTokenIsDead ==
    \A s \in sessions, x \in exchanged :
      s.jti = x.jti => \E i \in DOMAIN chain : /\ chain[i].op = "rotate"
                                               /\ chain[i].sid = s.sid
                                               /\ chain[i].jti = x.next

\* A reset link changes the password once, and while its password is hashed no
\* second request gets through with it (resetPassword, consumeResetToken).
ResetLinkWorksOnce ==
    \A i, j \in DOMAIN spent : spent[i] = spent[j] => i = j

\* A locked account judges no password but those in flight when it was locked
\* (authenticateLocal reads the lock before it awaits verifyPassword).
LockStopsGuessing ==
    \A e \in Emails : late[e] < Cardinality(Threads)

\* An address counts as verified only if its owner showed it, by a link mailed
\* to it or by Google; a record created over another starts from nothing.
VerifiedWasProved ==
    \A e \in Addresses : Known(e) /\ users[e].verified => e \in proved

=============================================================================
