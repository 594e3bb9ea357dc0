----------------------------- MODULE AuthProofs -----------------------------
(***************************************************************************)
(* Proofs about Auth for every finite set of threads, every set of         *)
(* mailboxes and passwords, and any number of requests: the four           *)
(* properties the run checks.                                              *)
(*                                                                         *)
(* Every step is described by its effect on the accounts (AccountStep), on *)
(* the sessions and the chain of their updates (SessionStep) and on the    *)
(* logins in flight (LoginStep); the invariants are proved of the effects. *)
(***************************************************************************)
EXTENDS Auth, FiniteSetTheorems, SequenceTheorems, TLAPS

-----------------------------------------------------------------------------
(* Types *)

Waiting ==
  [at : {"idle", "chain"}]
  \union [at : {"verify", "migrate", "migrated"}, email : Emails, password : Passwords, seen : User]
  \union [at : {"google"}, email : Emails]
  \union [at : {"register"}, email : Emails, password : Passwords, phone : BOOLEAN]
  \union [at : {"reset"}, email : Emails, password : Passwords]

Entry == [op : {"create", "rotate", "revoke", "all"}, by : Threads, email : Addresses,
          sid : Nat, jti : Nat, tokenVersion : Nat]
Token == [type : {"access", "refresh"}, email : Addresses, tokenVersion : Nat,
          sid : Nat, jti : Nat]
SessionRecord == [sid : Nat, email : Addresses, jti : Nat, revoked : BOOLEAN]

Exchange == [jti : Nat, next : Nat]

UsersOK == users \in [Addresses -> User \union {NoUser}]
ThreadsOK == /\ thread \in [Threads -> Waiting]
             /\ \A t \in Threads : thread[t].at \in {"verify", "migrate", "migrated", "reset"} =>
                                     Known(thread[t].email)
SessionsOK == /\ chain \in Seq(Entry) /\ issued \subseteq Token
              /\ sessions \subseteq SessionRecord
CountsOK == /\ serial \in Nat /\ spent \in Seq(Nat) /\ exchanged \subseteq Exchange
            /\ late \in [Addresses -> Nat]

TypesOK == UsersOK /\ ThreadsOK /\ SessionsOK /\ CountsOK

-----------------------------------------------------------------------------
(* Sequences *)

LEMMA Appended ==
  ASSUME NEW S, NEW s \in Seq(S), NEW x \in S
  PROVE  /\ Append(s, x) \in Seq(S) /\ Len(s) \in Nat
         /\ DOMAIN s = 1..Len(s) /\ DOMAIN Append(s, x) = 1..Len(s) + 1
         /\ \A i \in DOMAIN s : Append(s, x)[i] = s[i] /\ s[i] \in S
         /\ Append(s, x)[Len(s) + 1] = x
OBVIOUS

LEMMA Shortened ==
  ASSUME NEW S, NEW s \in Seq(S), s # <<>>
  PROVE  /\ Tail(s) \in Seq(S) /\ Len(s) \in Nat \ {0}
         /\ DOMAIN s = 1..Len(s) /\ DOMAIN Tail(s) = 1..Len(s) - 1
         /\ \A i \in DOMAIN Tail(s) : i + 1 \in DOMAIN s /\ Tail(s)[i] = s[i + 1]
         /\ Head(s) = s[1] /\ 1 \in DOMAIN s /\ Head(s) \in S
OBVIOUS

-----------------------------------------------------------------------------
(* What a step does to the accounts *)

Link(e, token) == [kind |-> "verify", email |-> e, token |-> token]

\* The record of e becomes u.
Written(e, u) ==
  /\ users' = [users EXCEPT ![e] = u] /\ u \in User
  /\ u.verified => (Known(e) /\ users[e].verified) \/ e \in proved'
  /\ u.verification # 0 => \/ Known(e) /\ u.verification = users[e].verification
                           \/ Link(e, u.verification) \in mailed'
  /\ \/ (u.reset = 0 \/ (Known(e) /\ u.reset = users[e].reset)) /\ spent' = spent
     \/ u.reset = serial' /\ serial < serial' /\ spent' = spent
     \/ /\ Known(e) /\ u.reset = 0 /\ users[e].reset # 0
        /\ spent' = Append(spent, users[e].reset)

AccountStep ==
  /\ UNCHANGED <<users, spent>> \/ \E e \in Addresses, u \in User : Written(e, u)
  /\ proved \subseteq proved' /\ mailed \subseteq mailed'
  /\ serial' \in Nat /\ serial <= serial'

LEMMA AccountTypes ==
  ASSUME UsersOK, CountsOK, AccountStep
  PROVE  /\ UsersOK'
         /\ \A e \in Addresses : Known(e) => Known(e)'
         /\ spent' \in Seq(Nat)
<1>1. CASE UNCHANGED <<users, spent>>
  BY <1>1 DEF UsersOK, CountsOK, Known
<1>2. ASSUME NEW e \in Addresses, NEW u \in User, Written(e, u)
      PROVE  /\ UsersOK'
             /\ \A f \in Addresses : Known(f) => Known(f)'
             /\ spent' \in Seq(Nat)
  <2>1. UsersOK' /\ \A f \in Addresses : Known(f) => Known(f)'
    BY <1>2, AuthAssumption DEF Written, UsersOK, Known
  <2>2. Known(e) => users[e].reset \in Nat
    BY DEF UsersOK, Known, User
  <2>3. spent' \in Seq(Nat)
    <3>1. spent \in Seq(Nat)
      BY DEF CountsOK
    <3>2. Known(e) => Append(spent, users[e].reset) \in Seq(Nat)
      BY <2>2, <3>1
    <3> QED BY <1>2, <3>1, <3>2 DEF Written
  <2> QED BY <2>1, <2>3
<1> QED BY <1>1, <1>2 DEF AccountStep

\* A verified address was proved, and the token kept for one was mailed to it.
ProofKept(e) == Known(e) => /\ users[e].verified => e \in proved
                            /\ users[e].verification # 0 => Link(e, users[e].verification) \in mailed
AllProved == \A e \in Addresses : ProofKept(e)

LEMMA AccountProved ==
  ASSUME UsersOK, AllProved, AccountStep
  PROVE  AllProved'
<1>1. CASE UNCHANGED <<users, spent>>
  BY <1>1 DEF AllProved, ProofKept, Known, AccountStep
<1>2. ASSUME NEW e \in Addresses, NEW u \in User, Written(e, u)
      PROVE  AllProved'
  <2>1. users'[e] = u /\ \A f \in Addresses \ {e} : users'[f] = users[f]
    BY <1>2 DEF Written, UsersOK
  <2>2. ProofKept(e)'
    BY <1>2, <2>1 DEF Written, AllProved, ProofKept, Known, AccountStep
  <2>3. ASSUME NEW f \in Addresses \ {e} PROVE ProofKept(f)'
    BY <2>1 DEF AllProved, ProofKept, Known, AccountStep
  <2> QED BY <2>2, <2>3 DEF AllProved
<1> QED BY <1>1, <1>2 DEF AccountStep

\* A reset token on file was not accepted yet, and is on file once.
Outstanding(e) == Known(e) /\ users[e].reset # 0
ResetsOK ==
  /\ \A i \in DOMAIN spent : spent[i] <= serial
  /\ \A i, j \in DOMAIN spent : spent[i] = spent[j] => i = j
  /\ \A e \in Addresses : Outstanding(e) =>
       /\ users[e].reset <= serial
       /\ \A i \in DOMAIN spent : spent[i] # users[e].reset
       /\ \A f \in Addresses : Outstanding(f) /\ users[f].reset = users[e].reset => f = e

LEMMA AccountResets ==
  ASSUME UsersOK, CountsOK, ResetsOK, AccountStep
  PROVE  ResetsOK'
<1>0. serial \in Nat /\ serial' \in Nat /\ serial <= serial'
      /\ DOMAIN spent = 1..Len(spent) /\ Len(spent) \in Nat
      /\ \A i \in DOMAIN spent : spent[i] \in Nat
  BY DEF CountsOK, AccountStep
<1>1. CASE UNCHANGED <<users, spent>>
  <2>1. \A e \in Addresses : Outstanding(e) => users[e].reset \in Nat
    BY DEF Outstanding, UsersOK, User, Known
  <2> QED BY <1>0, <1>1, <2>1 DEF ResetsOK, Outstanding, Known
<1>2. ASSUME NEW e \in Addresses, NEW u \in User, Written(e, u)
      PROVE  ResetsOK'
  <2>1. users'[e] = u /\ \A f \in Addresses \ {e} : users'[f] = users[f]
    BY <1>2 DEF Written, UsersOK
  <2>2. u # NoUser /\ u.reset \in Nat
    BY AuthAssumption DEF User
  <2>3. \A f \in Addresses : Outstanding(f) => users[f].reset \in Nat
    BY DEF Outstanding, UsersOK, User, Known
  <2>4. ASSUME NEW f \in Addresses, Outstanding(f)'
        PROVE  (f = e /\ u.reset # 0) \/ (f # e /\ Outstanding(f))
    <3>1. users'[f] # NoUser /\ users'[f].reset # 0
      BY <2>4 DEF Outstanding, Known
    <3>2. CASE f = e
      BY <2>1, <3>1, <3>2
    <3>3. CASE f # e
      BY <2>1, <3>1, <3>3 DEF Outstanding, Known
    <3> QED BY <3>2, <3>3
  <2>5. CASE spent' = spent /\ (u.reset = 0 \/ (Known(e) /\ u.reset = users[e].reset))
    BY <1>0, <2>1, <2>2, <2>3, <2>4, <2>5 DEF ResetsOK, Outstanding
  <2>6. CASE spent' = spent /\ u.reset = serial' /\ serial < serial'
    BY <1>0, <2>1, <2>2, <2>3, <2>4, <2>6 DEF ResetsOK, Outstanding
  <2>7. CASE Known(e) /\ u.reset = 0 /\ users[e].reset # 0 /\ spent' = Append(spent, users[e].reset)
    <3>1. Outstanding(e) /\ users[e].reset \in Nat
      BY <2>3, <2>7 DEF Outstanding
    <3>2. DOMAIN spent' = 1..Len(spent) + 1 /\ spent'[Len(spent) + 1] = users[e].reset
          /\ \A i \in DOMAIN spent : spent'[i] = spent[i]
      BY <2>7, <3>1, Appended DEF CountsOK
    <3>3. \A i \in DOMAIN spent' : i \in DOMAIN spent \/ i = Len(spent) + 1
      BY <1>0, <3>2
    <3> HIDE DEF Outstanding
    <3>4. \A i \in DOMAIN spent' : spent'[i] <= serial'
      BY <1>0, <3>1, <3>2, <3>3 DEF ResetsOK
    <3>5. \A i, j \in DOMAIN spent' : spent'[i] = spent'[j] => i = j
      BY <1>0, <3>1, <3>2, <3>3 DEF ResetsOK
    <3>6. ASSUME NEW f \in Addresses, Outstanding(f)'
          PROVE  /\ users'[f].reset <= serial'
                 /\ \A i \in DOMAIN spent' : spent'[i] # users'[f].reset
                 /\ \A g \in Addresses : Outstanding(g)' /\ users'[g].reset = users'[f].reset => g = f
      <4>1. f # e /\ Outstanding(f) /\ users'[f] = users[f] /\ users[f].reset \in Nat
        BY <2>1, <2>3, <2>4, <2>7, <3>6
      <4>2. users[f].reset # users[e].reset
        BY <3>1, <4>1 DEF ResetsOK
      <4> QED BY <1>0, <2>1, <2>4, <2>7, <3>2, <3>3, <4>1, <4>2 DEF ResetsOK
    <3> QED BY <3>4, <3>5, <3>6 DEF ResetsOK
  <2> QED BY <1>2, <2>5, <2>6, <2>7 DEF Written
<1> QED BY <1>1, <1>2 DEF AccountStep

-----------------------------------------------------------------------------
(* What a step does to the sessions *)

\* No account but those in S gets a newer version of its tokens.
NoNewer(S) == \A e \in Addresses \ S : Known(e) => users'[e].tokenVersion <= users[e].tokenVersion

Queued(m) == chain' = Append(chain, m) /\ UNCHANGED <<sessions, issued>>

CreateQueued(m) ==
  /\ m.op = "create" /\ NoNewer({}) /\ UNCHANGED exchanged
  /\ Known(m.email)' /\ m.tokenVersion = users'[m.email].tokenVersion
  /\ serial < m.sid /\ m.sid <= serial' /\ serial < m.jti /\ m.jti <= serial'

\* The token presented is the session's current one.
RotateQueued(m) ==
  /\ m.op = "rotate" /\ UNCHANGED users
  /\ m.tokenVersion = users[m.email].tokenVersion
  /\ serial < m.jti /\ m.jti <= serial'
  /\ \E token \in issued : token.sid = m.sid /\ token.email = m.email
  /\ \E s \in sessions : s.sid = m.sid /\ exchanged' = exchanged \union {[jti |-> s.jti, next |-> m.jti]}

RevokeQueued(m) == m.op = "revoke" /\ UNCHANGED <<users, exchanged>>

AllQueued(m) == m.op = "all" /\ NoNewer({m.email}) /\ UNCHANGED exchanged

Quiet == NoNewer({}) /\ UNCHANGED <<chain, sessions, issued, exchanged>>

Applied ==
  /\ chain # <<>> /\ chain' = Tail(chain)
  /\ UNCHANGED <<users, serial, exchanged>>
  /\ LET m == Head(chain)
     IN /\ sessions' = {Change(m, s) : s \in sessions} \union
             (IF m.op = "create"
                THEN {[sid |-> m.sid, email |-> m.email, jti |-> m.jti, revoked |-> FALSE]}
                ELSE {})
        /\ issued' = IF m.op \in {"create", "rotate"}
                       THEN issued \union Tokens(m.email, m.tokenVersion, m.sid, m.jti)
                       ELSE issued

SessionStep ==
  \/ Quiet \/ Applied
  \/ \E m \in Entry : /\ Queued(m)
                      /\ CreateQueued(m) \/ RotateQueued(m) \/ RevokeQueued(m) \/ AllQueued(m)

-----------------------------------------------------------------------------
(* Identifiers are drawn once *)

Draws(m) == m.op \in {"create", "rotate"}

SidsOK ==
  /\ \A s \in sessions : s.sid <= serial /\ s.jti <= serial
  /\ \A s, q \in sessions : s.sid = q.sid \/ s.jti = q.jti => s = q
  /\ \A token \in issued : /\ Known(token.email)
                           /\ \E s \in sessions : s.sid = token.sid /\ s.email = token.email
  /\ \A x \in exchanged : x.jti <= serial

\* A number drawn for m is nobody else's yet.
DrawnFresh(m) == /\ Known(m.email) /\ m.sid <= serial /\ m.jti <= serial
                 /\ \A x \in exchanged : x.jti # m.jti
                 /\ \A s \in sessions : s.jti # m.jti
EntryOK(m) == /\ Draws(m) => DrawnFresh(m)
              /\ m.op = "create" => \A s \in sessions : s.sid # m.sid
              /\ m.op = "rotate" => \E s \in sessions : s.sid = m.sid /\ s.email = m.email
Apart(m, k) == /\ Draws(m) /\ Draws(k) => m.jti # k.jti
               /\ m.op = "create" /\ k.op = "create" => m.sid # k.sid

ChainSidsOK == /\ \A i \in DOMAIN chain : EntryOK(chain[i])
               /\ \A i, j \in DOMAIN chain : i # j => Apart(chain[i], chain[j])

IdsOK == SidsOK /\ ChainSidsOK

LEMMA ChainFacts ==
  ASSUME SessionsOK
  PROVE  /\ DOMAIN chain = 1..Len(chain) /\ Len(chain) \in Nat
         /\ \A i \in DOMAIN chain : chain[i] \in Entry
BY DEF SessionsOK

LEMMA QueuedFacts ==
  ASSUME SessionsOK, NEW m \in Entry, Queued(m)
  PROVE  /\ SessionsOK'
         /\ DOMAIN chain' = DOMAIN chain \union {Len(chain) + 1}
         /\ Len(chain) + 1 \notin DOMAIN chain
         /\ \A i \in DOMAIN chain : chain'[i] = chain[i] /\ i < Len(chain) + 1
         /\ chain'[Len(chain) + 1] = m
<1>1. chain \in Seq(Entry)
  BY DEF SessionsOK
<1>2. DOMAIN chain = 1..Len(chain) /\ DOMAIN chain' = 1..Len(chain) + 1 /\ Len(chain) \in Nat
  BY <1>1, Appended DEF Queued
<1>3. chain' \in Seq(Entry) /\ \A i \in DOMAIN chain : chain'[i] = chain[i]
  BY <1>1, Appended DEF Queued
<1>4. chain'[Len(chain) + 1] = m
  BY <1>1, Appended DEF Queued
<1> QED BY <1>2, <1>3, <1>4 DEF SessionsOK, Queued

LEMMA QuietIds ==
  ASSUME TypesOK, IdsOK, AccountStep, Quiet
  PROVE  IdsOK'
<1>1. \A e \in Addresses : Known(e) => Known(e)'
  BY AccountTypes DEF TypesOK
<1>2. /\ serial \in Nat /\ serial' \in Nat /\ serial <= serial' /\ exchanged \subseteq Exchange
      /\ sessions \subseteq SessionRecord /\ issued \subseteq Token
      /\ \A i \in DOMAIN chain : chain[i] \in Entry
  BY ChainFacts DEF TypesOK, CountsOK, SessionsOK, AccountStep
<1>3. UNCHANGED <<chain, sessions, issued, exchanged>>
  BY DEF Quiet
<1>4. SidsOK'
  <2>1. \A s \in sessions : s.sid <= serial' /\ s.jti <= serial'
    BY <1>2 DEF IdsOK, SidsOK, SessionRecord
  <2>2. \A token \in issued : Known(token.email)'
    BY <1>1, <1>2 DEF IdsOK, SidsOK, Token
  <2>3. \A x \in exchanged : x.jti <= serial'
    BY <1>2 DEF IdsOK, SidsOK, Exchange
  <2> QED BY <1>3, <2>1, <2>2, <2>3 DEF IdsOK, SidsOK
<1>5. ChainSidsOK'
  <2>1. ASSUME NEW m \in Entry, EntryOK(m) PROVE EntryOK(m)'
    BY <1>1, <1>2, <1>3, <2>1 DEF EntryOK, DrawnFresh, Entry
  <2> QED BY <1>2, <1>3, <2>1 DEF IdsOK, ChainSidsOK
<1> QED BY <1>4, <1>5 DEF IdsOK

LEMMA QueuedIds ==
  ASSUME TypesOK, IdsOK, AccountStep, NEW m \in Entry, Queued(m),
         CreateQueued(m) \/ RotateQueued(m) \/ RevokeQueued(m) \/ AllQueued(m)
  PROVE  IdsOK'
<1>1. \A e \in Addresses : Known(e) => Known(e)'
  BY AccountTypes DEF TypesOK
<1>2. /\ serial \in Nat /\ serial' \in Nat /\ serial <= serial' /\ exchanged \subseteq Exchange
      /\ sessions \subseteq SessionRecord /\ issued \subseteq Token
      /\ \A i \in DOMAIN chain : chain[i] \in Entry
  BY ChainFacts DEF TypesOK, CountsOK, SessionsOK, AccountStep
<1>3. /\ DOMAIN chain' = DOMAIN chain \union {Len(chain) + 1}
      /\ Len(chain) + 1 \notin DOMAIN chain
      /\ \A i \in DOMAIN chain : chain'[i] = chain[i]
      /\ chain'[Len(chain) + 1] = m
      /\ UNCHANGED <<sessions, issued>>
  BY QueuedFacts DEF TypesOK, Queued
<1>4. \/ exchanged' = exchanged
      \/ \E s \in sessions : exchanged' = exchanged \union {[jti |-> s.jti, next |-> m.jti]}
  BY DEF CreateQueued, RotateQueued, RevokeQueued, AllQueued
<1>5. /\ \A s \in sessions : /\ s.sid \in Nat /\ s.jti \in Nat
                             /\ s.sid <= serial /\ s.jti <= serial
      /\ m.sid \in Nat /\ m.jti \in Nat /\ m.email \in Addresses
  BY <1>2 DEF IdsOK, SidsOK, SessionRecord, Entry
<1>6. \A x \in exchanged' : x.jti <= serial /\ x.jti \in Nat
  <2>1. \A x \in exchanged : x.jti <= serial /\ x.jti \in Nat
    BY <1>2 DEF IdsOK, SidsOK, Exchange
  <2> QED BY <1>4, <1>5, <2>1
<1>7. SidsOK'
  <2>1. \A s \in sessions : s.sid <= serial' /\ s.jti <= serial'
    BY <1>2, <1>5
  <2>2. \A token \in issued : Known(token.email)'
    BY <1>1, <1>2 DEF IdsOK, SidsOK, Token
  <2>3. \A x \in exchanged' : x.jti <= serial'
    BY <1>2, <1>6
  <2> QED BY <1>3, <2>1, <2>2, <2>3 DEF IdsOK, SidsOK
<1>8. /\ Draws(m) => Known(m.email)' /\ m.sid <= serial' /\ serial < m.jti /\ m.jti <= serial'
      /\ m.op = "create" => serial < m.sid
      /\ m.op = "rotate" => \E s \in sessions : s.sid = m.sid /\ s.email = m.email
  <2>1. CASE CreateQueued(m)
    BY <2>1 DEF CreateQueued, Draws
  <2>2. CASE RotateQueued(m)
    <3>1. Known(m.email) /\ \E s \in sessions : s.sid = m.sid /\ s.email = m.email
      BY <2>2 DEF RotateQueued, IdsOK, SidsOK
    <3>2. Known(m.email)'
      BY <1>1, <1>5, <3>1
    <3>3. m.sid <= serial'
      BY <1>2, <1>5, <3>1
    <3> QED BY <2>2, <3>1, <3>2, <3>3 DEF RotateQueued
  <2>3. CASE RevokeQueued(m) \/ AllQueued(m)
    BY <2>3 DEF RevokeQueued, AllQueued, Draws
  <2> QED BY <2>1, <2>2, <2>3
<1>9. EntryOK(m)'
  <2>1. Draws(m) => /\ \A x \in exchanged' : x.jti # m.jti
                    /\ \A s \in sessions : s.jti # m.jti
    BY <1>2, <1>5, <1>6, <1>8
  <2>2. m.op = "create" => \A s \in sessions : s.sid # m.sid
    BY <1>2, <1>5, <1>8
  <2> QED BY <1>3, <1>8, <2>1, <2>2 DEF EntryOK, DrawnFresh
<1>10. ASSUME NEW k \in Entry, EntryOK(k)
       PROVE  /\ EntryOK(k)'
              /\ Apart(m, k) /\ Apart(k, m)
  <2>1. k.sid \in Nat /\ k.jti \in Nat /\ k.email \in Addresses
    BY DEF Entry
  <2>2. Draws(k) => /\ Known(k.email)' /\ k.sid <= serial' /\ k.jti <= serial'
                    /\ \A x \in exchanged' : x.jti # k.jti
    BY <1>1, <1>2, <1>4, <1>10, <2>1 DEF EntryOK, DrawnFresh
  <2>3. EntryOK(k)'
    BY <1>3, <1>10, <2>2 DEF EntryOK, DrawnFresh
  <2>4. Draws(m) /\ Draws(k) => m.jti # k.jti
    BY <1>2, <1>5, <1>8, <1>10, <2>1 DEF EntryOK, DrawnFresh
  <2>5. m.op = "create" /\ k.op = "create" => m.sid # k.sid
    BY <1>2, <1>5, <1>8, <1>10, <2>1 DEF EntryOK, DrawnFresh, Draws
  <2> QED BY <2>3, <2>4, <2>5 DEF Apart
<1>11. ASSUME NEW i \in DOMAIN chain' PROVE EntryOK(chain[i])'
  <2>1. CASE i = Len(chain) + 1
    BY <1>3, <1>9, <2>1
  <2>2. CASE i \in DOMAIN chain
    BY <1>2, <1>3, <1>10, <2>2 DEF IdsOK, ChainSidsOK
  <2> QED BY <1>3, <2>1, <2>2
<1>12. ASSUME NEW i \in DOMAIN chain', NEW j \in DOMAIN chain', i # j
       PROVE  Apart(chain[i], chain[j])'
  <2>1. CASE i \in DOMAIN chain /\ j \in DOMAIN chain
    BY <1>3, <1>12, <2>1 DEF IdsOK, ChainSidsOK
  <2>2. CASE i = Len(chain) + 1 /\ j \in DOMAIN chain
    BY <1>2, <1>3, <1>10, <2>2 DEF IdsOK, ChainSidsOK
  <2>3. CASE j = Len(chain) + 1 /\ i \in DOMAIN chain
    BY <1>2, <1>3, <1>10, <2>3 DEF IdsOK, ChainSidsOK
  <2> QED BY <1>3, <1>12, <2>1, <2>2, <2>3
<1>13. ChainSidsOK'
  BY <1>11, <1>12 DEF ChainSidsOK
<1> QED BY <1>7, <1>13 DEF IdsOK

\* What applying the head of the chain makes of the session records: each is
\* changed in place, and one may be new.
NewSession(m) == [sid |-> m.sid, email |-> m.email, jti |-> m.jti, revoked |-> FALSE]

LEMMA ChangedSession ==
  ASSUME NEW m \in Entry, NEW s \in SessionRecord
  PROVE  /\ Change(m, s) \in SessionRecord
         /\ Change(m, s).sid = s.sid /\ Change(m, s).email = s.email
         /\ Change(m, s).jti = IF m.op = "rotate" /\ s.sid = m.sid THEN m.jti ELSE s.jti
         /\ s.revoked => Change(m, s).revoked
         /\ Revokes(m, s) => Change(m, s).revoked
BY DEF Change, Revokes, SessionRecord, Entry

LEMMA SessionTypes ==
  ASSUME TypesOK, SessionStep
  PROVE  SessionsOK'
<1>0. SessionsOK
  BY DEF TypesOK
<1>1. CASE Quiet
  BY <1>0, <1>1 DEF Quiet, SessionsOK
<1>2. ASSUME NEW m \in Entry, Queued(m) PROVE SessionsOK'
  BY <1>0, <1>2, QueuedFacts
<1>3. CASE Applied
  <2> DEFINE m == Head(chain)
  <2>1. m \in Entry /\ chain' \in Seq(Entry)
    BY <1>0, <1>3, Shortened DEF Applied, SessionsOK
  <2>2. /\ sessions' = {Change(m, s) : s \in sessions} \union
             (IF m.op = "create" THEN {NewSession(m)} ELSE {})
        /\ issued' \subseteq issued \union Tokens(m.email, m.tokenVersion, m.sid, m.jti)
    BY <1>3 DEF Applied, NewSession
  <2> HIDE DEF m
  <2>3. \A s \in sessions : Change(m, s) \in SessionRecord
    BY <1>0, <2>1, ChangedSession DEF SessionsOK
  <2>4. NewSession(m) \in SessionRecord
    BY <2>1 DEF NewSession, SessionRecord, Entry
  <2>5. Tokens(m.email, m.tokenVersion, m.sid, m.jti) \subseteq Token
    BY <2>1 DEF Tokens, Token, Entry
  <2> QED BY <1>0, <2>1, <2>2, <2>3, <2>4, <2>5 DEF SessionsOK
<1> QED BY <1>1, <1>2, <1>3 DEF SessionStep

LEMMA AppliedFacts ==
  ASSUME TypesOK, Applied, NEW m, m = Head(chain)
  PROVE  /\ m \in Entry /\ m = chain[1] /\ 1 \in DOMAIN chain
         /\ \A i \in DOMAIN chain' : i + 1 \in DOMAIN chain /\ chain'[i] = chain[i + 1]
                                     /\ chain[i + 1] \in Entry /\ i + 1 # 1 /\ i \in Nat
         /\ \A i \in DOMAIN chain \ {1} : i - 1 \in DOMAIN chain' /\ chain'[i - 1] = chain[i]
                                          /\ i \in Nat
         /\ \A s \in sessions : Change(m, s) \in sessions'
         /\ \A s \in sessions' : \/ \E q \in sessions : s = Change(m, q)
                                 \/ m.op = "create" /\ s = NewSession(m)
         /\ m.op = "create" => NewSession(m) \in sessions'
         /\ \A token \in issued' :
              token \in issued \/ (/\ Draws(m) /\ token.email = m.email /\ token.sid = m.sid
                                   /\ token.tokenVersion = m.tokenVersion)
         /\ SessionsOK'
<1>1. chain \in Seq(Entry) /\ chain # <<>> /\ chain' = Tail(chain)
  BY DEF TypesOK, SessionsOK, Applied
<1>2. /\ Len(chain) \in Nat \ {0} /\ chain' \in Seq(Entry)
      /\ DOMAIN chain = 1..Len(chain) /\ DOMAIN chain' = 1..Len(chain) - 1
      /\ \A i \in DOMAIN chain' : i + 1 \in DOMAIN chain /\ chain'[i] = chain[i + 1]
      /\ m = chain[1] /\ m \in Entry
  BY <1>1, Shortened
<1>3. \A i \in DOMAIN chain \ {1} : i - 1 \in DOMAIN chain' /\ chain'[i - 1] = chain[i] /\ i \in Nat
  <2> SUFFICES ASSUME NEW i \in DOMAIN chain \ {1}
               PROVE  i - 1 \in DOMAIN chain' /\ chain'[i - 1] = chain[i] /\ i \in Nat
    OBVIOUS
  <2>1. i - 1 \in DOMAIN chain' /\ i - 1 + 1 = i /\ i \in Nat
    BY <1>2
  <2> QED BY <1>2, <2>1
<1>4. \A i \in DOMAIN chain : chain[i] \in Entry
  BY ChainFacts DEF TypesOK
<1>5. /\ \A s \in sessions : Change(m, s) \in sessions'
      /\ \A s \in sessions' : \/ \E q \in sessions : s = Change(m, q)
                              \/ m.op = "create" /\ s = NewSession(m)
      /\ m.op = "create" => NewSession(m) \in sessions'
  BY DEF Applied, NewSession
<1>6. m.op = "create" => NewSession(m) \in SessionRecord
  BY <1>2 DEF NewSession, SessionRecord, Entry
<1>7. sessions' \subseteq SessionRecord
  BY <1>2, <1>5, <1>6, ChangedSession DEF TypesOK, SessionsOK
<1>8. issued' = IF m.op \in {"create", "rotate"}
                  THEN issued \union Tokens(m.email, m.tokenVersion, m.sid, m.jti) ELSE issued
  BY DEF Applied
<1>9. \A token \in Tokens(m.email, m.tokenVersion, m.sid, m.jti) :
        /\ token.email = m.email /\ token.sid = m.sid /\ token.tokenVersion = m.tokenVersion
        /\ token \in Token
  BY <1>2 DEF Tokens, Entry, Token
<1>10. issued' \subseteq Token
  BY <1>8, <1>9 DEF TypesOK, SessionsOK
<1>11. \A i \in DOMAIN chain' : i \in Nat /\ i + 1 # 1
  BY <1>2
<1> QED BY <1>2, <1>3, <1>4, <1>5, <1>7, <1>8, <1>9, <1>10, <1>11 DEF SessionsOK, Draws

LEMMA AppliedIds ==
  ASSUME TypesOK, IdsOK, Applied
  PROVE  IdsOK'
<1> DEFINE m == Head(chain)
<1>1. /\ m \in Entry /\ m = chain[1] /\ 1 \in DOMAIN chain
      /\ \A i \in DOMAIN chain' : i + 1 \in DOMAIN chain /\ chain'[i] = chain[i + 1]
                                  /\ chain[i + 1] \in Entry /\ i + 1 # 1 /\ i \in Nat
      /\ \A s \in sessions : Change(m, s) \in sessions'
      /\ \A s \in sessions' : \/ \E q \in sessions : s = Change(m, q)
                              \/ m.op = "create" /\ s = NewSession(m)
      /\ m.op = "create" => NewSession(m) \in sessions'
      /\ \A token \in issued' :
           token \in issued \/ (/\ Draws(m) /\ token.email = m.email /\ token.sid = m.sid
                                /\ token.tokenVersion = m.tokenVersion)
  BY AppliedFacts
<1>2. EntryOK(m) /\ UNCHANGED <<users, serial, exchanged>>
  BY <1>1 DEF IdsOK, ChainSidsOK, Applied
<1> HIDE DEF m
<1>3. ASSUME NEW q \in sessions
      PROVE  /\ Change(m, q).sid = q.sid /\ Change(m, q).email = q.email
             /\ Change(m, q).jti = IF m.op = "rotate" /\ q.sid = m.sid THEN m.jti ELSE q.jti
  BY <1>1, ChangedSession DEF TypesOK, SessionsOK
<1>4. /\ NewSession(m).sid = m.sid /\ NewSession(m).jti = m.jti /\ NewSession(m).email = m.email
  BY DEF NewSession
<1>5. \A s \in sessions' : s.sid <= serial /\ s.jti <= serial
  BY <1>1, <1>2, <1>3, <1>4 DEF IdsOK, SidsOK, EntryOK, DrawnFresh, Draws
<1>6. ASSUME NEW s \in sessions', NEW q \in sessions', s.sid = q.sid \/ s.jti = q.jti
      PROVE  s = q
  <2>1. CASE \E a, b \in sessions : s = Change(m, a) /\ q = Change(m, b)
    <3>1. PICK a \in sessions, b \in sessions : s = Change(m, a) /\ q = Change(m, b)
      BY <2>1
    <3>2. a.sid = b.sid \/ a.jti = b.jti
      BY <1>2, <1>3, <1>6, <3>1 DEF EntryOK, DrawnFresh, Draws
    <3> QED BY <3>1, <3>2 DEF IdsOK, SidsOK
  <2>2. ASSUME NEW a \in sessions, m.op = "create" PROVE  /\ Change(m, a).sid # m.sid
                                                          /\ Change(m, a).jti # m.jti
    BY <1>2, <1>3, <2>2 DEF EntryOK, DrawnFresh, Draws
  <2> QED BY <1>1, <1>4, <1>6, <2>1, <2>2
<1>7. ASSUME NEW token \in issued'
      PROVE  Known(token.email) /\ \E s \in sessions' : s.sid = token.sid /\ s.email = token.email
  <2>1. CASE token \in issued
    <3>1. PICK q \in sessions : q.sid = token.sid /\ q.email = token.email
      BY <2>1 DEF IdsOK, SidsOK
    <3> QED BY <1>1, <1>3, <2>1, <3>1 DEF IdsOK, SidsOK
  <2>2. CASE Draws(m) /\ token.email = m.email /\ token.sid = m.sid
    <3>1. CASE m.op = "create"
      BY <1>1, <1>2, <1>4, <2>2, <3>1 DEF EntryOK, DrawnFresh
    <3>2. CASE m.op = "rotate"
      BY <1>1, <1>2, <1>3, <2>2, <3>2 DEF EntryOK, DrawnFresh
    <3> QED BY <2>2, <3>1, <3>2 DEF Draws
  <2> QED BY <1>1, <2>1, <2>2
<1>8. SidsOK'
  BY <1>2, <1>5, <1>6, <1>7 DEF IdsOK, SidsOK, Known
<1>9. ASSUME NEW k \in Entry, EntryOK(k), Apart(m, k)
      PROVE  EntryOK(k)'
  <2>1. Draws(k) => \A s \in sessions' : s.jti # k.jti
    BY <1>1, <1>3, <1>4, <1>9 DEF EntryOK, DrawnFresh, Apart, Draws
  <2>2. k.op = "create" => \A s \in sessions' : s.sid # k.sid
    BY <1>1, <1>3, <1>4, <1>9 DEF EntryOK, Apart
  <2>3. k.op = "rotate" => \E s \in sessions' : s.sid = k.sid /\ s.email = k.email
    BY <1>1, <1>3, <1>9 DEF EntryOK
  <2> QED BY <1>2, <1>9, <2>1, <2>2, <2>3 DEF EntryOK, DrawnFresh, Known
<1>10. ASSUME NEW i \in DOMAIN chain' PROVE EntryOK(chain[i])'
  BY <1>1, <1>9 DEF IdsOK, ChainSidsOK
<1>11. ASSUME NEW i \in DOMAIN chain', NEW j \in DOMAIN chain', i # j
       PROVE  Apart(chain[i], chain[j])'
  <2>1. i + 1 # j + 1
    BY <1>1, <1>11
  <2> QED BY <1>1, <2>1 DEF IdsOK, ChainSidsOK
<1>12. ChainSidsOK'
  BY <1>10, <1>11 DEF ChainSidsOK
<1> QED BY <1>8, <1>12 DEF IdsOK

LEMMA SessionIds ==
  ASSUME TypesOK, IdsOK, AccountStep, SessionStep
  PROVE  IdsOK' /\ SessionsOK'
<1>1. CASE Quiet
  BY <1>1, QuietIds DEF TypesOK, SessionsOK, Quiet
<1>2. CASE Applied
  BY <1>2, AppliedIds, AppliedFacts
<1>3. ASSUME NEW m \in Entry, Queued(m),
             CreateQueued(m) \/ RotateQueued(m) \/ RevokeQueued(m) \/ AllQueued(m)
      PROVE  IdsOK' /\ SessionsOK'
  BY <1>3, QueuedIds, QueuedFacts DEF TypesOK
<1> QED BY <1>1, <1>2, <1>3 DEF SessionStep

-----------------------------------------------------------------------------
(* Tokens of an older version *)

Dead(sid) == \A s \in sessions : s.sid = sid => s.revoked
Older(x) == x.tokenVersion < users[x.email].tokenVersion
Stopped(x) == Pending("all", x.email) \/ Dead(x.sid)

\* A session that is still to be created is revoked by an entry behind its own.
CreatesStopped ==
  \A i \in DOMAIN chain : chain[i].op = "create" /\ Older(chain[i]) =>
    \E j \in DOMAIN chain : i < j /\ chain[j].op = "all" /\ chain[j].email = chain[i].email
RotatesStopped == \A i \in DOMAIN chain : chain[i].op = "rotate" /\ Older(chain[i]) => Stopped(chain[i])
TokensStopped == \A token \in issued : Older(token) => Stopped(token)

VersionsOK == TokensStopped /\ CreatesStopped /\ RotatesStopped

LEMMA OlderBefore ==
  ASSUME TypesOK, AccountStep, NEW S, NoNewer(S), NEW x, x.email \in Addresses \ S,
         x.tokenVersion \in Nat, Known(x.email), Older(x)'
  PROVE  Older(x)
<1>1. users[x.email] \in User /\ users'[x.email] \in User
  BY AccountTypes DEF TypesOK, UsersOK, Known
<1> QED BY <1>1 DEF NoNewer, Older, User

LEMMA HeldFacts ==
  ASSUME TypesOK, IdsOK
  PROVE  /\ \A token \in issued : token.email \in Addresses /\ token.tokenVersion \in Nat
                                  /\ Known(token.email)
         /\ \A i \in DOMAIN chain : /\ chain[i] \in Entry /\ chain[i].email \in Addresses
                                    /\ chain[i].tokenVersion \in Nat
                                    /\ Draws(chain[i]) => Known(chain[i].email)
BY ChainFacts DEF TypesOK, SessionsOK, Token, Entry, IdsOK, SidsOK, ChainSidsOK, EntryOK, DrawnFresh

LEMMA QuietVersions ==
  ASSUME TypesOK, IdsOK, VersionsOK, AccountStep, Quiet
  PROVE  VersionsOK'
<1>1. UNCHANGED <<chain, sessions, issued>> /\ NoNewer({})
  BY DEF Quiet
<1>2. ASSUME NEW x, x.email \in Addresses, x.tokenVersion \in Nat, Known(x.email), Older(x)'
      PROVE  Older(x)
  BY <1>1, <1>2, OlderBefore
<1>3. \A x : Stopped(x)' <=> Stopped(x)
  BY <1>1 DEF Stopped, Pending, Dead
<1>4. TokensStopped'
  BY <1>1, <1>2, <1>3, HeldFacts DEF VersionsOK, TokensStopped
<1>5. ASSUME NEW i \in DOMAIN chain', Draws(chain[i]), Older(chain[i])'
      PROVE  Older(chain[i])
  <2> DEFINE k == chain[i]
  <2>1. chain'[i] = k /\ k.email \in Addresses /\ k.tokenVersion \in Nat /\ Known(k.email)
    BY <1>1, <1>5, HeldFacts
  <2>2. k.tokenVersion < users'[k.email].tokenVersion
    BY <1>1, <1>5 DEF Older
  <2>3. users[k.email] \in User /\ users'[k.email] \in User
    BY <2>1, AccountTypes DEF TypesOK, UsersOK, Known
  <2> QED BY <1>1, <2>1, <2>2, <2>3 DEF NoNewer, Older, User
<1>6. CreatesStopped'
  BY <1>1, <1>5 DEF VersionsOK, CreatesStopped, Draws, Older
<1>7. RotatesStopped'
  BY <1>1, <1>3, <1>5 DEF VersionsOK, RotatesStopped, Draws, Older, Stopped, Pending, Dead
<1> QED BY <1>4, <1>6, <1>7 DEF VersionsOK

\* An entry behind the chain raises no version but of the account whose
\* sessions it revokes.
LEMMA QueuedVersions ==
  ASSUME TypesOK, IdsOK, VersionsOK, AccountStep, NEW m \in Entry, Queued(m),
         CreateQueued(m) \/ RotateQueued(m) \/ RevokeQueued(m) \/ AllQueued(m)
  PROVE  VersionsOK'
<1> DEFINE last == Len(chain) + 1
           S == IF m.op = "all" THEN {m.email} ELSE {}
<1>1. /\ DOMAIN chain' = DOMAIN chain \union {last} /\ last \notin DOMAIN chain
      /\ \A i \in DOMAIN chain : chain'[i] = chain[i] /\ i < last
      /\ chain'[last] = m
      /\ UNCHANGED <<sessions, issued>>
  BY QueuedFacts DEF TypesOK, Queued
<1>2. NoNewer(S)
  <2>1. CASE UNCHANGED users
    <3>1. \A e \in Addresses : Known(e) => users[e].tokenVersion \in Nat
      BY DEF TypesOK, UsersOK, Known, User
    <3> QED BY <2>1, <3>1 DEF NoNewer
  <2>2. CASE CreateQueued(m) \/ AllQueued(m)
    BY <2>2 DEF CreateQueued, AllQueued
  <2> QED BY <2>1, <2>2 DEF RotateQueued, RevokeQueued
<1>3. ASSUME NEW x, x.email \in Addresses, x.tokenVersion \in Nat, Known(x.email), Older(x)'
      PROVE  Older(x) \/ (m.op = "all" /\ x.email = m.email)
  BY <1>2, <1>3, OlderBefore
<1>4. ASSUME NEW x, Stopped(x) \/ (m.op = "all" /\ x.email = m.email)
      PROVE  Stopped(x)'
  BY <1>1, <1>4 DEF Stopped, Pending, Dead
<1> HIDE DEF S
<1>5. TokensStopped'
  <2> SUFFICES ASSUME NEW token \in issued, Older(token)' PROVE Stopped(token)'
    BY <1>1 DEF TokensStopped
  <2>1. token.email \in Addresses /\ token.tokenVersion \in Nat /\ Known(token.email)
    BY HeldFacts
  <2>2. Older(token) \/ (m.op = "all" /\ token.email = m.email)
    BY <1>3, <2>1
  <2> QED BY <1>4, <2>2 DEF VersionsOK, TokensStopped
<1>6. ASSUME NEW i \in DOMAIN chain, NEW k, k = chain[i], Draws(k), Older(k)'
      PROVE  Older(k) \/ (m.op = "all" /\ k.email = m.email)
  <2>1. k.email \in Addresses /\ k.tokenVersion \in Nat /\ Known(k.email)
    BY <1>6, HeldFacts
  <2> QED BY <1>3, <1>6, <2>1
<1>7. Draws(m) => ~Older(m)'
  <2>1. CASE CreateQueued(m)
    <3>1. Known(m.email)' /\ m.tokenVersion = users'[m.email].tokenVersion /\ m.email \in Addresses
      BY <2>1 DEF CreateQueued, Entry
    <3> QED BY <3>1 DEF Older, Entry
  <2>2. CASE RotateQueued(m)
    BY <2>2 DEF RotateQueued, Older, Entry
  <2>3. CASE RevokeQueued(m) \/ AllQueued(m)
    BY <2>3 DEF RevokeQueued, AllQueued, Draws
  <2> QED BY <2>1, <2>2, <2>3
<1>8. CreatesStopped'
  <2> SUFFICES ASSUME NEW i \in DOMAIN chain', NEW k, k = chain'[i], k.op = "create", Older(k)'
               PROVE  \E j \in DOMAIN chain' : i < j /\ chain'[j].op = "all" /\ chain'[j].email = k.email
    BY DEF CreatesStopped, Older
  <2>1. i \in DOMAIN chain /\ k = chain[i] /\ i < last
    BY <1>1, <1>7 DEF Draws
  <2>2. CASE m.op = "all" /\ k.email = m.email
    BY <1>1, <2>1, <2>2
  <2>3. CASE Older(k)
    <3>1. PICK j \in DOMAIN chain : i < j /\ chain[j].op = "all" /\ chain[j].email = k.email
      BY <2>1, <2>3 DEF VersionsOK, CreatesStopped
    <3> QED BY <1>1, <3>1
  <2> QED BY <1>6, <2>1, <2>2, <2>3 DEF Draws
<1>9. RotatesStopped'
  <2> SUFFICES ASSUME NEW i \in DOMAIN chain', NEW k, k = chain'[i], k.op = "rotate", Older(k)'
               PROVE  Stopped(k)'
    BY DEF RotatesStopped, Older, Stopped, Pending, Dead
  <2>1. i \in DOMAIN chain /\ k = chain[i]
    BY <1>1, <1>7 DEF Draws
  <2>2. Older(k) \/ (m.op = "all" /\ k.email = m.email)
    BY <1>6, <2>1 DEF Draws
  <2> QED BY <1>4, <2>1, <2>2 DEF VersionsOK, RotatesStopped
<1> QED BY <1>5, <1>8, <1>9 DEF VersionsOK

LEMMA AppliedVersions ==
  ASSUME TypesOK, IdsOK, VersionsOK, Applied
  PROVE  VersionsOK'
<1> DEFINE m == Head(chain)
<1>1. /\ m \in Entry /\ m = chain[1] /\ 1 \in DOMAIN chain
      /\ \A i \in DOMAIN chain' : i + 1 \in DOMAIN chain /\ chain'[i] = chain[i + 1]
                                  /\ chain[i + 1] \in Entry /\ i + 1 # 1 /\ i \in Nat
      /\ \A i \in DOMAIN chain \ {1} : i - 1 \in DOMAIN chain' /\ chain'[i - 1] = chain[i]
                                       /\ i \in Nat
      /\ \A s \in sessions' : \/ \E q \in sessions : s = Change(m, q)
                              \/ m.op = "create" /\ s = NewSession(m)
      /\ \A token \in issued' :
           token \in issued \/ (/\ Draws(m) /\ token.email = m.email /\ token.sid = m.sid
                                /\ token.tokenVersion = m.tokenVersion)
  BY AppliedFacts
<1>2. EntryOK(m) /\ UNCHANGED users
  BY <1>1 DEF IdsOK, ChainSidsOK, Applied
<1> HIDE DEF m
<1>3. ASSUME NEW q \in sessions
      PROVE  /\ Change(m, q).sid = q.sid /\ Change(m, q).email = q.email
             /\ q.revoked => Change(m, q).revoked
             /\ Revokes(m, q) => Change(m, q).revoked
  BY <1>1, ChangedSession DEF TypesOK, SessionsOK
\* A session of the account that a claim is about stays dead, or dies.
<1>4. ASSUME NEW x, Stopped(x), \E s \in sessions : s.sid = x.sid /\ s.email = x.email
      PROVE  Stopped(x)'
  <2>1. PICK s \in sessions : s.sid = x.sid /\ s.email = x.email
    BY <1>4
  <2>2. \A q \in sessions : q.sid = x.sid => q = s
    BY <2>1 DEF IdsOK, SidsOK
  <2>3. m.op = "create" => NewSession(m).sid # x.sid
    BY <1>2, <2>1 DEF EntryOK, NewSession
  <2>4. CASE Dead(x.sid) \/ (m.op = "all" /\ m.email = x.email)
    <3>1. ASSUME NEW q \in sessions, Change(m, q).sid = x.sid PROVE Change(m, q).revoked
      <4>1. q = s
        BY <1>3, <2>2, <3>1
      <4> QED BY <1>3, <2>1, <2>4, <4>1 DEF Dead, Revokes
    <3>2. Dead(x.sid)'
      BY <1>1, <2>3, <3>1 DEF Dead
    <3> QED BY <3>2 DEF Stopped
  <2>5. ASSUME NEW i \in DOMAIN chain, i # 1, chain[i].op = "all", chain[i].email = x.email
        PROVE  Stopped(x)'
    <3>1. i - 1 \in DOMAIN chain' /\ chain'[i - 1] = chain[i]
      BY <1>1, <2>5
    <3> QED BY <2>5, <3>1 DEF Stopped, Pending
  <2> QED BY <1>1, <1>4, <2>4, <2>5 DEF Stopped, Pending
<1>5. TokensStopped'
  <2> SUFFICES ASSUME NEW token \in issued', Older(token) PROVE Stopped(token)'
    BY <1>2 DEF TokensStopped, Older
  <2>1. CASE token \in issued
    BY <1>4, <2>1 DEF VersionsOK, TokensStopped, IdsOK, SidsOK
  <2>2. CASE Draws(m) /\ token.email = m.email /\ token.sid = m.sid
             /\ token.tokenVersion = m.tokenVersion
    <3>1. Older(m)
      BY <2>2 DEF Older
    <3>2. CASE m.op = "create"
      <4>1. PICK j \in DOMAIN chain : 1 < j /\ chain[j].op = "all" /\ chain[j].email = m.email
        BY <1>1, <3>1, <3>2 DEF VersionsOK, CreatesStopped
      <4>2. j - 1 \in DOMAIN chain' /\ chain'[j - 1] = chain[j]
        BY <1>1, <4>1
      <4> QED BY <2>2, <4>1, <4>2 DEF Stopped, Pending
    <3>3. CASE m.op = "rotate"
      <4>1. Stopped(m)
        BY <1>1, <3>1, <3>3 DEF VersionsOK, RotatesStopped
      <4>2. Stopped(token)
        BY <2>2, <4>1 DEF Stopped, Pending, Dead
      <4> QED BY <1>2, <1>4, <2>2, <3>3, <4>2 DEF EntryOK
    <3> QED BY <2>2, <3>2, <3>3 DEF Draws
  <2> QED BY <1>1, <2>1, <2>2
<1>6. CreatesStopped'
  <2> SUFFICES ASSUME NEW i \in DOMAIN chain', NEW k, k = chain'[i], k.op = "create", Older(k)
               PROVE  \E j \in DOMAIN chain' : i < j /\ chain'[j].op = "all" /\ chain'[j].email = k.email
    BY <1>2 DEF CreatesStopped, Older
  <2>1. i \in Nat /\ i + 1 \in DOMAIN chain /\ k = chain[i + 1]
    BY <1>1
  <2>2. PICK j \in DOMAIN chain : i + 1 < j /\ chain[j].op = "all" /\ chain[j].email = k.email
    BY <2>1 DEF VersionsOK, CreatesStopped
  <2>3. j # 1 /\ j \in Nat /\ j - 1 \in DOMAIN chain' /\ chain'[j - 1] = chain[j]
    BY <1>1, <2>1, <2>2
  <2> QED BY <2>1, <2>2, <2>3
<1>7. RotatesStopped'
  <2> SUFFICES ASSUME NEW i \in DOMAIN chain', NEW k, k = chain'[i], k.op = "rotate", Older(k)
               PROVE  Stopped(k)'
    BY <1>2 DEF RotatesStopped, Older, Stopped, Pending, Dead
  <2>1. i + 1 \in DOMAIN chain /\ k = chain[i + 1]
    BY <1>1
  <2>2. Stopped(k)
    BY <2>1 DEF VersionsOK, RotatesStopped
  <2>3. \E s \in sessions : s.sid = k.sid /\ s.email = k.email
    BY <2>1 DEF IdsOK, ChainSidsOK, EntryOK
  <2> QED BY <1>4, <2>2, <2>3
<1> QED BY <1>5, <1>6, <1>7 DEF VersionsOK

LEMMA SessionVersions ==
  ASSUME TypesOK, IdsOK, VersionsOK, AccountStep, SessionStep
  PROVE  VersionsOK'
BY QuietVersions, QueuedVersions, AppliedVersions DEF SessionStep

-----------------------------------------------------------------------------
(* Exchanged refresh tokens *)

LEMMA SessionExchanged ==
  ASSUME TypesOK, IdsOK, ExchangedTokenIsDead, AccountStep, SessionStep
  PROVE  ExchangedTokenIsDead'
<1>1. CASE Quiet
  BY <1>1 DEF Quiet, ExchangedTokenIsDead
<1>2. ASSUME NEW m \in Entry, Queued(m),
             CreateQueued(m) \/ RotateQueued(m) \/ RevokeQueued(m) \/ AllQueued(m)
      PROVE  ExchangedTokenIsDead'
  <2>1. /\ DOMAIN chain' = DOMAIN chain \union {Len(chain) + 1}
        /\ \A i \in DOMAIN chain : chain'[i] = chain[i]
        /\ chain'[Len(chain) + 1] = m /\ UNCHANGED sessions
    BY <1>2, QueuedFacts DEF TypesOK, Queued
  <2>2. ASSUME NEW s \in sessions, NEW x \in exchanged', s.jti = x.jti
        PROVE  x \in exchanged \/ (m.op = "rotate" /\ m.sid = s.sid /\ m.jti = x.next)
    BY <1>2, <2>2 DEF CreateQueued, RotateQueued, RevokeQueued, AllQueued, IdsOK, SidsOK
  <2> QED BY <2>1, <2>2 DEF ExchangedTokenIsDead
<1>3. CASE Applied
  <2> DEFINE m == Head(chain)
  <2>1. /\ m \in Entry /\ m = chain[1] /\ 1 \in DOMAIN chain
        /\ \A i \in DOMAIN chain \ {1} : i - 1 \in DOMAIN chain' /\ chain'[i - 1] = chain[i]
        /\ \A s \in sessions' : \/ \E q \in sessions : s = Change(m, q)
                                \/ m.op = "create" /\ s = NewSession(m)
    BY <1>3, AppliedFacts
  <2>2. EntryOK(m) /\ UNCHANGED exchanged
    BY <1>3, <2>1 DEF IdsOK, ChainSidsOK, Applied
  <2> HIDE DEF m
  <2>3. ASSUME NEW q \in sessions, NEW x \in exchanged, Change(m, q).jti = x.jti
        PROVE  \E i \in DOMAIN chain' : /\ chain'[i].op = "rotate"
                                        /\ chain'[i].sid = Change(m, q).sid
                                        /\ chain'[i].jti = x.next
    <3>1. /\ Change(m, q).sid = q.sid
          /\ Change(m, q).jti = IF m.op = "rotate" /\ q.sid = m.sid THEN m.jti ELSE q.jti
      BY <2>1, ChangedSession DEF TypesOK, SessionsOK
    <3>2. ~(m.op = "rotate" /\ q.sid = m.sid) /\ q.jti = x.jti
      BY <2>2, <2>3, <3>1 DEF EntryOK, DrawnFresh, Draws
    <3>3. PICK i \in DOMAIN chain : /\ chain[i].op = "rotate" /\ chain[i].sid = q.sid
                                    /\ chain[i].jti = x.next
      BY <3>2 DEF ExchangedTokenIsDead
    <3>4. i # 1
      BY <2>1, <3>2, <3>3
    <3> QED BY <2>1, <3>1, <3>3, <3>4
  <2>4. m.op = "create" => \A x \in exchanged : NewSession(m).jti # x.jti
    BY <2>2 DEF EntryOK, DrawnFresh, Draws, NewSession
  <2> QED BY <2>1, <2>2, <2>3, <2>4 DEF ExchangedTokenIsDead
<1> QED BY <1>1, <1>2, <1>3 DEF SessionStep

-----------------------------------------------------------------------------
(* Logins in flight on a locked account *)

Judging(e) == {t \in Threads : thread[t].at = "verify" /\ thread[t].email = e}
Locked(e) == Known(e) /\ users[e].locked

LocksOK ==
  \A e \in Emails :
    /\ late[e] < Cardinality(Threads)
    /\ Locked(e) => late[e] + Cardinality(Judging(e)) < Cardinality(Threads)

NoneLocked == \A e \in Emails : Locked(e)' => Locked(e)
NoneJudging == \A t \in Threads : thread'[t].at = "verify" =>
                 thread[t].at = "verify" /\ thread'[t].email = thread[t].email

NoLogin == UNCHANGED late /\ NoneLocked /\ NoneJudging

\* A login starts on an account that is not locked.
Starts(t, e) == /\ ~Locked(e) /\ UNCHANGED <<users, late>>
                /\ \A s \in Threads \ {t} : thread'[s] = thread[s]
                /\ thread'[t].email = e

Judged(t, e) ==
  /\ thread[t].at = "verify" /\ thread[t].email = e
  /\ \A f \in Emails \ {e} : Locked(f)' => Locked(f)
  /\ Locked(e) => late'[e] = late[e] + 1
  /\ ~Locked(e) => late'[e] = 0
  /\ \A f \in Addresses \ {e} : late'[f] = late[f]
  /\ \A s \in Threads \ {t} : thread'[s] = thread[s]
  /\ thread'[t].at = "idle"
  /\ late' \in [Addresses -> Nat]

LoginStep == NoLogin \/ \E t \in Threads, e \in Emails : Starts(t, e) \/ Judged(t, e)

LEMMA JudgingFinite ==
  /\ Cardinality(Threads) \in Nat /\ Cardinality(Threads) > 0
  /\ \A e : IsFiniteSet(Judging(e)) /\ Cardinality(Judging(e)) \in Nat
<1>1. Threads # {} /\ IsFiniteSet(Threads)
  BY AuthAssumption
<1>2. \A e : Judging(e) \subseteq Threads
  BY DEF Judging
<1>3. Cardinality(Threads) \in Nat /\ Cardinality(Threads) # 0
  BY <1>1, FS_CardinalityType, FS_EmptySet
<1> QED BY <1>1, <1>2, <1>3, FS_Subset, FS_CardinalityType

LEMMA NextJudging ==
  \A S \in SUBSET Threads : IsFiniteSet(S) /\ Cardinality(S) \in Nat
                            /\ Cardinality(S) <= Cardinality(Threads)
BY AuthAssumption, FS_Subset, FS_CardinalityType

LEMMA LoginLocks ==
  ASSUME UsersOK, CountsOK, LocksOK, LoginStep
  PROVE  LocksOK'
<1>0. \A e \in Emails : late[e] \in Nat
  BY DEF CountsOK, Addresses
<1>1. CASE NoLogin
  <2> SUFFICES ASSUME NEW e \in Emails
               PROVE  /\ late'[e] < Cardinality(Threads)
                      /\ Locked(e)' => late'[e] + Cardinality(Judging(e)') < Cardinality(Threads)
    BY DEF LocksOK
  <2>1. Judging(e)' \subseteq Judging(e)
    BY <1>1 DEF NoLogin, NoneJudging, Judging
  <2>2. Cardinality(Judging(e)') \in Nat /\ Cardinality(Judging(e)') <= Cardinality(Judging(e))
    BY <2>1, JudgingFinite, FS_Subset, FS_CardinalityType
  <2> QED BY <1>0, <1>1, <2>2, JudgingFinite DEF NoLogin, NoneLocked, LocksOK
<1>2. ASSUME NEW t \in Threads, NEW e \in Emails, Starts(t, e)
      PROVE  LocksOK'
  <2> SUFFICES ASSUME NEW f \in Emails
               PROVE  /\ late'[f] < Cardinality(Threads)
                      /\ Locked(f)' => late'[f] + Cardinality(Judging(f)') < Cardinality(Threads)
    BY DEF LocksOK
  <2>1. Locked(f)' => Locked(f) /\ f # e
    BY <1>2 DEF Starts, Locked, Known
  <2>2. f # e => Judging(f)' \subseteq Judging(f)
    BY <1>2 DEF Starts, Judging
  <2>3. f # e => /\ Cardinality(Judging(f)') \in Nat
                 /\ Cardinality(Judging(f)') <= Cardinality(Judging(f))
    BY <2>2, JudgingFinite, FS_Subset, FS_CardinalityType
  <2> QED BY <1>0, <1>2, <2>1, <2>3, JudgingFinite DEF Starts, LocksOK
<1>3. ASSUME NEW t \in Threads, NEW e \in Emails, Judged(t, e)
      PROVE  LocksOK'
  <2> SUFFICES ASSUME NEW f \in Emails
               PROVE  /\ late'[f] < Cardinality(Threads)
                      /\ Locked(f)' => late'[f] + Cardinality(Judging(f)') < Cardinality(Threads)
    BY DEF LocksOK
  <2>1. Judging(f)' = Judging(f) \ {t}
    BY <1>3 DEF Judged, Judging
  <2>2. CASE f # e
    <3>1. Cardinality(Judging(f)') \in Nat /\ Cardinality(Judging(f)') <= Cardinality(Judging(f))
      BY <2>1, JudgingFinite, FS_Subset, FS_CardinalityType
    <3> QED BY <1>0, <1>3, <2>2, <3>1, JudgingFinite DEF Judged, LocksOK, Addresses
  <2>3. CASE f = e
    <3>1. t \in Judging(e) /\ Judging(e) \subseteq Threads
      BY <1>3 DEF Judged, Judging
    <3>2. Cardinality(Judging(e)') = Cardinality(Judging(e)) - 1
      BY <2>1, <2>3, <3>1, JudgingFinite, FS_RemoveElement
    <3>3. Cardinality(Judging(e)) <= Cardinality(Threads) /\ Cardinality(Judging(e)) \in Nat
      BY <3>1, NextJudging
    <3>4. Cardinality(Judging(e)') \in Nat
      BY <2>1, <2>3, JudgingFinite, FS_Subset, FS_CardinalityType
    <3>5. CASE Locked(e)
      BY <1>0, <1>3, <2>3, <3>2, <3>3, <3>4, <3>5, JudgingFinite DEF Judged, LocksOK
    <3>6. CASE ~Locked(e)
      BY <1>0, <1>3, <2>3, <3>2, <3>3, <3>4, <3>6, JudgingFinite DEF Judged
    <3> QED BY <3>5, <3>6
  <2> QED BY <2>2, <2>3
<1> QED BY <1>1, <1>2, <1>3 DEF LoginStep

-----------------------------------------------------------------------------
(* What the operations on a record change *)

\* Neither the links kept for the account nor its being verified.
LinksKept(u, w) == /\ w \in User /\ w.verified = u.verified
                   /\ w.verification = u.verification /\ w.reset = u.reset
Minor(u, w) == /\ LinksKept(u, w) /\ w.tokenVersion = u.tokenVersion
               /\ w.locked => u.locked

LEMMA MinorOperations ==
  ASSUME NEW u \in User, NEW p \in Passwords
  PROVE  /\ Minor(u, u) /\ Minor(u, SetPassword(u, p)) /\ Minor(u, ResetFailed(u))
         /\ Minor(u, [u EXCEPT !.locked = FALSE]) /\ Minor(u, [u EXCEPT !.counting = FALSE])
         /\ SetPassword(u, p) \in User
BY DEF Minor, LinksKept, User, SetPassword, ResetFailed

LEMMA MajorOperations ==
  ASSUME NEW u \in User
  PROVE  /\ LinksKept(u, RecordFailed(u)) /\ RecordFailed(u).tokenVersion = u.tokenVersion
         /\ LinksKept(u, Bumped(u)) /\ (Bumped(u).locked => u.locked)
<1>1. LinksKept(u, Bumped(u)) /\ (Bumped(u).locked => u.locked)
  BY DEF LinksKept, User, Bumped
<1>2. PICK n \in Nat : n = 1 + IF u.counting THEN u.failed ELSE 0
  BY DEF User
<1>3. RecordFailed(u) = [u EXCEPT !.failed = n, !.counting = TRUE,
                                  !.locked = u.locked \/ n >= MaxAttempts]
  BY <1>2 DEF RecordFailed, User
<1>4. LinksKept(u, RecordFailed(u)) /\ RecordFailed(u).tokenVersion = u.tokenVersion
  BY <1>3, AuthAssumption DEF LinksKept, User
<1> QED BY <1>1, <1>4

\* A new record, which starts from nothing.
Blank(w) == w \in User /\ w.reset = 0 /\ w.tokenVersion = 0 /\ w.locked = FALSE

LEMMA BlankRecords ==
  /\ Blank(GoogleUser) /\ GoogleUser.verification = 0
  /\ Blank(PhoneUser) /\ PhoneUser.verification = 0 /\ ~PhoneUser.verified
BY DEF Blank, User, GoogleUser, PhoneUser, Account

LEMMA BlankLocal ==
  ASSUME NEW p \in Passwords, NEW phone \in BOOLEAN, NEW n \in Nat
  PROVE  /\ Blank(LocalUser(p, phone, n)) /\ LocalUser(p, phone, n).verification = n
         /\ ~LocalUser(p, phone, n).verified
BY DEF Blank, User, LocalUser, SetVerification, Account

-----------------------------------------------------------------------------
(* What follows from the record written, the thread moved, the update queued *)

Forward == /\ proved \subseteq proved' /\ mailed \subseteq mailed'
           /\ serial' \in Nat /\ serial <= serial'
KnownKept == \A f \in Addresses : Known(f) => Known(f)'

LEMMA WrittenEffect ==
  ASSUME UsersOK, NEW e \in Addresses, NEW w, Written(e, w), Forward
  PROVE  /\ AccountStep /\ KnownKept /\ Known(e)' /\ users'[e] = w /\ NoNewer({e})
         /\ (Known(e) => w.tokenVersion <= users[e].tokenVersion) => NoNewer({})
         /\ (w.locked => Locked(e)) => NoneLocked
         /\ \A f \in Emails \ {e} : Locked(f)' => Locked(f)
<1>1. w \in User /\ w # NoUser
  BY AuthAssumption DEF Written
<1>2. users'[e] = w /\ \A f \in Addresses \ {e} : users'[f] = users[f]
  BY DEF Written, UsersOK
<1>3. AccountStep /\ KnownKept /\ Known(e)'
  BY <1>1, <1>2 DEF AccountStep, Forward, KnownKept, Known
<1>4. \A f \in Addresses : Known(f) => users[f].tokenVersion \in Nat
  BY DEF UsersOK, Known, User
<1>5. NoNewer({e})
  BY <1>2, <1>4 DEF NoNewer
<1>6. (Known(e) => w.tokenVersion <= users[e].tokenVersion) => NoNewer({})
  BY <1>2, <1>4 DEF NoNewer
<1>7. \A f \in Emails \ {e} : Locked(f)' => Locked(f)
  BY <1>2 DEF Locked, Known, Addresses
<1>8. (w.locked => Locked(e)) => NoneLocked
  BY <1>2, <1>7 DEF NoneLocked, Locked, Known, Addresses
<1> QED BY <1>1, <1>2, <1>3, <1>5, <1>6, <1>7, <1>8

LEMMA MinorEffect ==
  ASSUME UsersOK, NEW e \in Addresses, Known(e), NEW w, Minor(users[e], w),
         users' = [users EXCEPT ![e] = w], UNCHANGED spent, Forward
  PROVE  /\ AccountStep /\ KnownKept /\ Known(e)' /\ users'[e] = w
         /\ NoNewer({}) /\ NoneLocked
<1>1. users[e] \in User /\ w \in User
  BY DEF UsersOK, Known, Minor, LinksKept
<1>2. Written(e, w)
  BY DEF Written, Minor, LinksKept
<1>3. w.tokenVersion <= users[e].tokenVersion /\ (w.locked => Locked(e))
  BY <1>1 DEF Minor, User, Locked
<1> QED BY <1>2, <1>3, WrittenEffect

LEMMA NothingWritten ==
  ASSUME UsersOK, UNCHANGED <<users, spent>>, Forward
  PROVE  AccountStep /\ KnownKept /\ NoNewer({}) /\ NoneLocked
<1>1. \A f \in Addresses : Known(f) => users[f].tokenVersion \in Nat
  BY DEF UsersOK, Known, User
<1> QED BY <1>1 DEF AccountStep, Forward, KnownKept, Known, NoNewer, NoneLocked, Locked

LEMMA Moved ==
  ASSUME ThreadsOK, KnownKept, NEW t \in Threads, NEW w \in Waiting,
         thread' = [thread EXCEPT ![t] = w],
         w.at \in {"verify", "migrate", "migrated", "reset"} => Known(w.email)'
  PROVE  /\ ThreadsOK' /\ thread'[t] = w
         /\ \A s \in Threads \ {t} : thread'[s] = thread[s]
         /\ w.at # "verify" => NoneJudging
<1>1. thread'[t] = w /\ \A s \in Threads \ {t} : thread'[s] = thread[s]
  BY DEF ThreadsOK
<1>2. thread' \in [Threads -> Waiting]
  BY DEF ThreadsOK
<1>3. \A s \in Threads : thread[s].at \in {"verify", "migrate", "migrated", "reset"} =>
                           thread[s].email \in Addresses
  BY DEF ThreadsOK, Waiting, Addresses
<1>4. ASSUME NEW s \in Threads, thread'[s].at \in {"verify", "migrate", "migrated", "reset"}
      PROVE  users'[thread'[s].email] # NoUser
  <2>1. CASE s = t
    BY <1>1, <1>4, <2>1 DEF Known
  <2>2. CASE s # t
    <3>1. Known(thread[s].email) /\ thread[s].email \in Addresses /\ thread'[s] = thread[s]
      BY <1>1, <1>3, <1>4, <2>2 DEF ThreadsOK
    <3> QED BY <3>1 DEF KnownKept, Known
  <2> QED BY <2>1, <2>2
<1>5. ThreadsOK'
  BY <1>2, <1>4 DEF ThreadsOK, Known
<1>6. w.at # "verify" => NoneJudging
  BY <1>1 DEF NoneJudging
<1> QED BY <1>1, <1>5, <1>6

LEMMA IdleMove ==
  /\ Idle \in Waiting /\ Idle.at = "idle"
  /\ [at |-> "chain"] \in Waiting /\ [at |-> "chain"].at = "chain"
BY DEF Idle, Waiting

LEMMA Standing ==
  ASSUME ThreadsOK, KnownKept, UNCHANGED thread
  PROVE  ThreadsOK' /\ NoneJudging
<1>1. \A s \in Threads : thread[s].at \in {"verify", "migrate", "migrated", "reset"} =>
                           thread[s].email \in Addresses
  BY DEF ThreadsOK, Waiting, Addresses
<1> QED BY <1>1 DEF ThreadsOK, KnownKept, Known, NoneJudging

LEMMA UpdateQueued ==
  ASSUME ThreadsOK, KnownKept, NEW t \in Threads,
         NEW op \in {"create", "rotate", "revoke", "all"}, NEW e \in Addresses,
         NEW sid \in Nat, NEW jti \in Nat, NEW version \in Nat,
         Update(t, op, e, sid, jti, version), UNCHANGED <<sessions, issued>>
  PROVE  LET m == [op |-> op, by |-> t, email |-> e, sid |-> sid, jti |-> jti,
                   tokenVersion |-> version]
         IN m \in Entry /\ Queued(m) /\ ThreadsOK' /\ NoneJudging
<1>1. ThreadsOK' /\ NoneJudging
  BY Moved, IdleMove DEF Update
<1> QED BY <1>1 DEF Update, Queued, Entry

LEMMA SessionIssued ==
  ASSUME ThreadsOK, KnownKept, NEW t \in Threads, NEW e \in Addresses, Known(e)',
         NEW version \in Nat, version = users'[e].tokenVersion, serial \in Nat,
         NEW drawn \in Nat, serial <= drawn, IssueSession(t, e, version, drawn),
         Steady, NoNewer({})
  PROVE  SessionStep /\ ThreadsOK' /\ NoneJudging
<1> DEFINE m == [op |-> "create", by |-> t, email |-> e, sid |-> drawn + 1, jti |-> drawn + 2,
                 tokenVersion |-> version]
<1>1. drawn + 1 \in Nat /\ drawn + 2 \in Nat
  OBVIOUS
<1>2. m \in Entry /\ Queued(m) /\ ThreadsOK' /\ NoneJudging
  BY <1>1, UpdateQueued DEF IssueSession, Steady
<1>3. /\ m.op = "create" /\ m.email = e /\ m.tokenVersion = version
      /\ m.sid = drawn + 1 /\ m.jti = drawn + 2 /\ serial' = drawn + 2
  BY DEF IssueSession
<1> HIDE DEF m
<1>4. CreateQueued(m)
  BY <1>3 DEF CreateQueued, Steady
<1> QED BY <1>2, <1>4 DEF SessionStep

LEMMA NothingQueued ==
  ASSUME NoUpdate, Steady, NoNewer({})
  PROVE  SessionStep
BY DEF NoUpdate, Steady, SessionStep, Quiet

-----------------------------------------------------------------------------
(* The effect of every step *)

Effect == /\ AccountStep /\ SessionStep /\ LoginStep
          /\ ThreadsOK' /\ exchanged' \subseteq Exchange /\ late' \in [Addresses -> Nat]

LEMMA EmailsAreAddresses == Emails \subseteq Addresses
BY DEF Addresses

LEMMA RecordsKnown ==
  ASSUME TypesOK
  PROVE  /\ \A e \in Addresses : Known(e) => users[e] \in User /\ users[e].tokenVersion \in Nat
         /\ serial \in Nat /\ exchanged \subseteq Exchange /\ late \in [Addresses -> Nat]
BY DEF TypesOK, UsersOK, CountsOK, Known, User

\* The step of a thread that touches neither the accounts nor the sessions.
LEMMA ThreadEffect ==
  ASSUME TypesOK, NEW t \in Threads, NEW w \in Waiting, thread' = [thread EXCEPT ![t] = w],
         w.at \notin {"verify", "migrate", "migrated", "reset"},
         NoUpdate, Steady, UNCHANGED <<users, mailed, spent, late>>, proved \subseteq proved'
  PROVE  Effect
<1>1. Forward
  BY RecordsKnown DEF Forward, NoUpdate
<1>2. AccountStep /\ KnownKept /\ NoNewer({}) /\ NoneLocked
  BY <1>1, NothingWritten DEF TypesOK
<1>3. ThreadsOK' /\ NoneJudging
  BY <1>2, Moved DEF TypesOK
<1>4. SessionStep
  BY <1>2, NothingQueued
<1> QED BY <1>2, <1>3, <1>4, RecordsKnown DEF Effect, LoginStep, NoLogin, Steady

LEMMA LoginEffect ==
  ASSUME TypesOK, NEW t \in Threads, NEW e \in Emails, NEW p \in Passwords, Login(t, e, p)
  PROVE  Effect
<1>1. CASE ~(Known(e) /\ ~users[e].locked)
  BY <1>1, ThreadEffect, IdleMove DEF Login, Answer
<1>2. CASE Known(e) /\ ~users[e].locked
  <2>1. Forward
    BY RecordsKnown DEF Forward, Login, NoUpdate
  <2>2. AccountStep /\ KnownKept /\ NoNewer({})
    BY <2>1, NothingWritten DEF TypesOK, Login
  <2>3. PICK w \in Waiting : /\ w.at = "verify" /\ w.email = e
                             /\ w = [at |-> "verify", email |-> e, password |-> p, seen |-> users[e]]
    BY <1>2, RecordsKnown, EmailsAreAddresses DEF Waiting
  <2>4. thread' = [thread EXCEPT ![t] = w] /\ Known(e)'
    BY <1>2, <2>3 DEF Login, Known
  <2>5. Known(w.email)'
    BY <2>3, <2>4
  <2>6. ThreadsOK' /\ thread'[t] = w /\ \A s \in Threads \ {t} : thread'[s] = thread[s]
    BY <2>2, <2>3, <2>4, <2>5, Moved DEF TypesOK
  <2>7. Starts(t, e)
    BY <1>2, <2>3, <2>6 DEF Starts, Login, Locked
  <2>8. SessionStep
    BY <2>2, NothingQueued DEF Login
  <2> QED BY <2>2, <2>6, <2>7, <2>8, RecordsKnown DEF Effect, LoginStep, Login, Steady
<1> QED BY <1>1, <1>2

\* A thread past its first await: what it holds.
LEMMA Held ==
  ASSUME TypesOK, NEW t \in Threads
  PROVE  /\ thread[t] \in Waiting
         /\ thread[t].at # "idle" /\ thread[t].at # "chain" => thread[t].email \in Emails
         /\ thread[t].at \in {"verify", "migrate", "migrated", "register", "reset"} =>
              thread[t].password \in Passwords
         /\ thread[t].at \in {"verify", "migrate", "migrated", "reset"} => Known(thread[t].email)
         /\ thread[t].at = "register" => thread[t].phone \in BOOLEAN
BY DEF TypesOK, ThreadsOK, Waiting

LEMMA WrongPasswordEffect ==
  ASSUME TypesOK, NEW t \in Threads, WrongPassword(t)
  PROVE  Effect
<1> DEFINE e == thread[t].email
           w == RecordFailed(users[e])
<1>1. thread[t].at = "verify" /\ e \in Emails /\ e \in Addresses /\ Known(e) /\ users[e] \in User
  BY Held, EmailsAreAddresses, RecordsKnown DEF WrongPassword, Continue
<1>2. /\ users' = [users EXCEPT ![e] = w] /\ Answer(t) /\ NoUpdate /\ Steady
      /\ UNCHANGED <<mailed, spent, proved>>
      /\ late' = [late EXCEPT ![e] = IF users[e].locked THEN @ + 1 ELSE 0]
  BY DEF WrongPassword
<1>3. LinksKept(users[e], w) /\ w.tokenVersion = users[e].tokenVersion
  BY <1>1, MajorOperations
<1> HIDE DEF e, w
<1>4. Written(e, w)
  BY <1>1, <1>2, <1>3 DEF Written, LinksKept
<1>5. Forward
  BY <1>2, RecordsKnown DEF Forward, NoUpdate
<1>6. w.tokenVersion <= users[e].tokenVersion
  BY <1>1, <1>3 DEF User
<1>7. /\ AccountStep /\ KnownKept /\ NoNewer({})
      /\ \A f \in Emails \ {e} : Locked(f)' => Locked(f)
  BY <1>1, <1>4, <1>5, <1>6, WrittenEffect DEF TypesOK
<1>8. /\ ThreadsOK' /\ thread'[t] = Idle /\ \A s \in Threads \ {t} : thread'[s] = thread[s]
  BY <1>2, <1>7, Moved, IdleMove DEF TypesOK, Answer
<1>9. late' \in [Addresses -> Nat]
  BY <1>1, <1>2, RecordsKnown
<1>10. Judged(t, e)
  <2>1. thread[t].email = e
    BY DEF e
  <2> QED BY <1>1, <1>2, <1>7, <1>8, <1>9, <2>1, RecordsKnown, IdleMove DEF Judged, Locked
<1>11. SessionStep
  BY <1>2, <1>7, NothingQueued
<1> QED BY <1>1, <1>2, <1>7, <1>8, <1>9, <1>10, <1>11, RecordsKnown DEF Effect, LoginStep, Steady

\* The record of e is written and a session of e is queued.
LEMMA SignedInEffect ==
  ASSUME TypesOK, NEW t \in Threads, NEW e \in Addresses, NEW w, Written(e, w), Forward,
         Known(e) => w.tokenVersion <= users[e].tokenVersion, w.locked => Locked(e),
         NEW drawn \in Nat, serial <= drawn,
         IssueSession(t, e, users'[e].tokenVersion, drawn), Steady, UNCHANGED late
  PROVE  Effect
<1>1. /\ AccountStep /\ KnownKept /\ Known(e)' /\ users'[e] = w
      /\ NoNewer({}) /\ NoneLocked
  BY WrittenEffect DEF TypesOK
<1>2. PICK version \in Nat : version = users'[e].tokenVersion
  BY <1>1 DEF Written, User
<1>3. SessionStep /\ ThreadsOK' /\ NoneJudging
  BY <1>1, <1>2, SessionIssued, RecordsKnown DEF TypesOK
<1> QED BY <1>1, <1>3, RecordsKnown DEF Effect, LoginStep, NoLogin, Steady

LEMMA MinorWritten ==
  ASSUME UsersOK, NEW e \in Addresses, Known(e), NEW w, Minor(users[e], w),
         users' = [users EXCEPT ![e] = w], UNCHANGED spent
  PROVE  /\ Written(e, w) /\ w.tokenVersion = users[e].tokenVersion
         /\ w.locked => Locked(e)
BY DEF Written, Minor, LinksKept, Locked

LEMMA MigrateMoves ==
  ASSUME TypesOK, NEW t \in Threads, thread[t].at \in {"verify", "migrate", "migrated"},
         NEW at \in {"migrate", "migrated"}
  PROVE  \E w \in Waiting : /\ w = [thread[t] EXCEPT !.at = at]
                            /\ w.at = at /\ w.email = thread[t].email
<1> DEFINE Trying == [at : {"verify", "migrate", "migrated"}, email : Emails,
                      password : Passwords, seen : User]
<1>1. thread[t] \in Trying
  BY DEF TypesOK, ThreadsOK, Waiting
<1>2. ASSUME NEW x \in Trying
      PROVE  LET w == [x EXCEPT !.at = at] IN w \in Trying /\ w.at = at /\ w.email = x.email
  OBVIOUS
<1>3. Trying \subseteq Waiting
  BY DEF Waiting
<1> HIDE DEF Trying
<1> QED BY <1>1, <1>2, <1>3

LEMMA RightPasswordEffect ==
  ASSUME TypesOK, NEW t \in Threads, RightPassword(t)
  PROVE  Effect
<1>1. PICK e \in Emails : e = thread[t].email
  BY Held DEF RightPassword, Continue
<1>2. e \in Addresses /\ Known(e) /\ users[e] \in User /\ thread[t].at = "verify"
  BY <1>1, Held, EmailsAreAddresses, RecordsKnown DEF RightPassword, Continue
<1>3. PICK w \in User : w = ResetFailed(users[e]) /\ Minor(users[e], w)
  <2>1. thread[t].password \in Passwords
    BY <1>2, Held
  <2> QED BY <1>2, <2>1, MinorOperations DEF Minor, LinksKept
<1>4. users' = [users EXCEPT ![e] = w] /\ Steady /\ UNCHANGED <<mailed, spent, late, proved>>
  BY <1>1, <1>3 DEF RightPassword
<1>5. CASE NeedsMigration(thread[t].seen)
  <2>1. NoUpdate /\ thread' = [thread EXCEPT ![t].at = "migrate"]
    BY <1>5 DEF RightPassword
  <2>2. PICK x \in Waiting : x = [thread[t] EXCEPT !.at = "migrate"] /\ x.at = "migrate" /\ x.email = e
    BY <1>1, <1>2, MigrateMoves
  <2>3. Forward
    BY <1>4, <2>1, RecordsKnown DEF Forward, NoUpdate
  <2>4. AccountStep /\ KnownKept /\ Known(e)' /\ NoNewer({}) /\ NoneLocked
    BY <1>2, <1>3, <1>4, <2>3, MinorEffect DEF TypesOK
  <2>5. thread' = [thread EXCEPT ![t] = x] /\ Known(x.email)'
    BY <2>1, <2>2, <2>4
  <2>6. ThreadsOK' /\ NoneJudging
    BY <2>2, <2>4, <2>5, Moved DEF TypesOK
  <2>7. SessionStep
    BY <1>4, <2>1, <2>4, NothingQueued
  <2> QED BY <1>4, <2>4, <2>6, <2>7, RecordsKnown DEF Effect, LoginStep, NoLogin, Steady
<1>6. CASE ~NeedsMigration(thread[t].seen)
  <2>1. IssueSession(t, e, users'[e].tokenVersion, serial)
    BY <1>1, <1>6 DEF RightPassword
  <2>2. Forward
    BY <1>4, <2>1, RecordsKnown DEF Forward, IssueSession
  <2>3. Written(e, w) /\ w.tokenVersion = users[e].tokenVersion /\ (w.locked => Locked(e))
    BY <1>2, <1>3, <1>4, MinorWritten DEF TypesOK
  <2> QED BY <1>2, <1>3, <1>4, <2>1, <2>2, <2>3, SignedInEffect, RecordsKnown
<1> QED BY <1>5, <1>6

LEMMA MigrateEffect ==
  ASSUME TypesOK, NEW t \in Threads, Migrate(t)
  PROVE  Effect
<1>1. PICK e \in Emails : e = thread[t].email
  BY Held DEF Migrate, Continue
<1>2. /\ e \in Addresses /\ Known(e) /\ users[e] \in User
      /\ thread[t].at = "migrate" /\ thread[t].password \in Passwords
  BY <1>1, Held, EmailsAreAddresses, RecordsKnown DEF Migrate, Continue
<1>3. PICK w \in User : w = SetPassword(users[e], thread[t].password) /\ Minor(users[e], w)
  BY <1>2, MinorOperations
<1>4. /\ users' = [users EXCEPT ![e] = w] /\ Steady /\ NoUpdate
      /\ UNCHANGED <<mailed, spent, late, proved>>
      /\ thread' = [thread EXCEPT ![t].at = "migrated"]
  BY <1>1, <1>3 DEF Migrate
<1>5. PICK x \in Waiting : x = [thread[t] EXCEPT !.at = "migrated"] /\ x.at = "migrated" /\ x.email = e
  BY <1>1, <1>2, MigrateMoves
<1>6. Forward
  BY <1>4, RecordsKnown DEF Forward, NoUpdate
<1>7. AccountStep /\ KnownKept /\ Known(e)' /\ NoNewer({}) /\ NoneLocked
  BY <1>2, <1>3, <1>4, <1>6, MinorEffect DEF TypesOK
<1>8. thread' = [thread EXCEPT ![t] = x] /\ Known(x.email)'
  BY <1>4, <1>5, <1>7
<1>9. ThreadsOK' /\ NoneJudging
  BY <1>5, <1>7, <1>8, Moved DEF TypesOK
<1>10. SessionStep
  BY <1>4, <1>7, NothingQueued
<1> QED BY <1>4, <1>7, <1>9, <1>10, RecordsKnown DEF Effect, LoginStep, NoLogin, Steady

LEMMA SameWritten ==
  ASSUME TypesOK, NEW e \in Addresses, Known(e), UNCHANGED <<users, spent>>
  PROVE  /\ Written(e, users[e]) /\ (users[e].locked => Locked(e))
<1>1. users[e] \in User /\ users' = [users EXCEPT ![e] = users[e]]
  BY RecordsKnown DEF TypesOK, UsersOK
<1> QED BY <1>1 DEF Written, Locked

LEMMA MigratedEffect ==
  ASSUME TypesOK, NEW t \in Threads, Migrated(t)
  PROVE  Effect
<1>1. PICK e \in Emails : e = thread[t].email
  BY Held DEF Migrated, Continue
<1>2. e \in Addresses /\ Known(e)
  BY <1>1, Held, EmailsAreAddresses DEF Migrated, Continue
<1>3. /\ IssueSession(t, e, users'[e].tokenVersion, serial) /\ Steady
      /\ UNCHANGED <<users, mailed, spent, late, proved>>
  BY <1>1 DEF Migrated
<1>4. Forward
  BY <1>3, RecordsKnown DEF Forward, IssueSession
<1> QED BY <1>2, <1>3, <1>4, SameWritten, SignedInEffect, RecordsKnown

LEMMA GoogleVerifiedEffect ==
  ASSUME TypesOK, NEW t \in Threads, GoogleVerified(t)
  PROVE  Effect
<1>1. PICK e \in Emails : e = thread[t].email
  BY Held DEF GoogleVerified, Continue
<1>2. e \in Addresses /\ e \in proved' /\ proved \subseteq proved' /\ Steady
      /\ UNCHANGED <<mailed, spent, late>>
  BY <1>1, EmailsAreAddresses DEF GoogleVerified
<1>3. CASE Known(e) /\ ~users[e].google /\ ~AutoLink
  <2>1. Answer(t) /\ NoUpdate /\ UNCHANGED users
    BY <1>1, <1>3 DEF GoogleVerified
  <2> QED BY <1>2, <2>1, ThreadEffect, IdleMove DEF Answer
<1>4. CASE ~(Known(e) /\ ~users[e].google /\ ~AutoLink)
  <2>1. IssueSession(t, e, users'[e].tokenVersion, serial)
    BY <1>1, <1>4 DEF GoogleVerified
  <2>2. Forward
    BY <1>2, <2>1, RecordsKnown DEF Forward, IssueSession
  <2>3. CASE ~Known(e)
    <3>1. PICK w : w = GoogleUser
      OBVIOUS
    <3>2. users' = [users EXCEPT ![e] = w] /\ Blank(w) /\ w.verification = 0
      BY <1>1, <1>4, <2>3, <3>1, BlankRecords DEF GoogleVerified
    <3>3. Written(e, w) /\ ~w.locked
      BY <1>2, <2>3, <3>2 DEF Written, Blank
    <3> QED BY <1>2, <2>1, <2>2, <2>3, <3>3, SignedInEffect, RecordsKnown
  <2>4. CASE Known(e) /\ users[e].google
    <3>1. users' = [users EXCEPT ![e] = users[e]]
      BY <1>1, <1>4, <2>4 DEF GoogleVerified
    <3>2. UNCHANGED users
      BY <3>1 DEF TypesOK, UsersOK
    <3> QED BY <1>2, <2>1, <2>2, <2>4, <3>2, SameWritten, SignedInEffect, RecordsKnown
  <2>5. CASE Known(e) /\ ~users[e].google
    <3>1. PICK w : w = LinkGoogle(users[e])
      OBVIOUS
    <3>2. users' = [users EXCEPT ![e] = w]
      BY <1>1, <1>4, <2>5, <3>1 DEF GoogleVerified
    <3>3. /\ w \in User /\ w.verification = users[e].verification /\ w.reset = users[e].reset
          /\ w.tokenVersion = users[e].tokenVersion /\ w.locked = users[e].locked
      BY <1>2, <2>5, <3>1, RecordsKnown DEF LinkGoogle, User
    <3>4. Written(e, w) /\ (w.locked => Locked(e))
      BY <1>2, <2>5, <3>2, <3>3 DEF Written, Locked
    <3> QED BY <1>2, <2>1, <2>2, <2>5, <3>3, <3>4, SignedInEffect, RecordsKnown
  <2> QED BY <2>3, <2>4, <2>5
<1> QED BY <1>3, <1>4

LEMMA PhoneLoginEffect ==
  ASSUME TypesOK, NEW t \in Threads, NEW e \in Addresses, PhoneLogin(t, e)
  PROVE  Effect
<1>1. /\ IssueSession(t, e, users'[e].tokenVersion, serial) /\ Steady
      /\ UNCHANGED <<mailed, spent, late, proved>>
  BY DEF PhoneLogin
<1>2. Forward
  BY <1>1, RecordsKnown DEF Forward, IssueSession
<1>3. CASE Known(e)
  <2>1. UNCHANGED users
    BY <1>3 DEF PhoneLogin, TypesOK, UsersOK
  <2> QED BY <1>1, <1>2, <1>3, <2>1, SameWritten, SignedInEffect, RecordsKnown
<1>4. CASE ~Known(e)
  <2>1. PICK w : w = PhoneUser
    OBVIOUS
  <2>2. /\ users' = [users EXCEPT ![e] = w]
        /\ Blank(w) /\ w.verification = 0 /\ ~w.verified
    BY <1>4, <2>1, BlankRecords DEF PhoneLogin
  <2>3. Written(e, w) /\ ~w.locked
    BY <1>1, <1>4, <2>2 DEF Written, Blank
  <2> QED BY <1>1, <1>2, <1>4, <2>3, SignedInEffect, RecordsKnown
<1> QED BY <1>3, <1>4

LEMMA WaitingEffects ==
  ASSUME TypesOK, NEW t \in Threads
  PROVE  /\ \A e \in Emails : GoogleLogin(t, e) => Effect
         /\ GoogleRejected(t) => Effect
         /\ \A e \in Emails, p \in Passwords, hasPhone \in BOOLEAN :
              Register(t, e, p, hasPhone) => Effect
<1>1. ASSUME NEW e \in Emails, GoogleLogin(t, e) PROVE Effect
  <2>1. [at |-> "google", email |-> e] \in Waiting
    BY DEF Waiting
  <2> QED BY <1>1, <2>1, ThreadEffect DEF GoogleLogin
<1>2. ASSUME GoogleRejected(t) PROVE Effect
  BY <1>2, ThreadEffect, IdleMove DEF GoogleRejected, Answer
<1>3. ASSUME NEW e \in Emails, NEW p \in Passwords, NEW hasPhone \in BOOLEAN,
             Register(t, e, p, hasPhone)
      PROVE  Effect
  <2>1. [at |-> "register", email |-> e, password |-> p, phone |-> hasPhone] \in Waiting
    BY DEF Waiting
  <2>2. CASE Known(e)
    BY <1>3, <2>2, ThreadEffect, IdleMove DEF Register, Answer
  <2>3. CASE ~Known(e)
    BY <1>3, <2>1, <2>3, ThreadEffect DEF Register
  <2> QED BY <2>2, <2>3
<1> QED BY <1>1, <1>2, <1>3

LEMMA RegisteredEffect ==
  ASSUME TypesOK, NEW t \in Threads, Registered(t)
  PROVE  Effect
<1>1. PICK e \in Emails : e = thread[t].email
  BY Held DEF Registered, Continue
<1>2. /\ e \in Addresses /\ thread[t].password \in Passwords /\ thread[t].phone \in BOOLEAN
  BY <1>1, Held, EmailsAreAddresses DEF Registered, Continue
<1>3. PICK token \in Nat : token = serial + 1 /\ serial <= token
  BY RecordsKnown
<1>4. PICK w : w = LocalUser(thread[t].password, thread[t].phone, token)
  OBVIOUS
<1>5. Blank(w) /\ w.verification = token /\ ~w.verified
  BY <1>2, <1>4, BlankLocal
<1>6. /\ users' = [users EXCEPT ![e] = w] /\ IssueSession(t, e, 0, token) /\ Steady
      /\ mailed' = mailed \union {Link(e, token)} /\ UNCHANGED <<spent, late, proved>>
  BY <1>1, <1>3, <1>4 DEF Registered, Link
<1>7. Forward
  BY <1>3, <1>6, RecordsKnown DEF Forward, IssueSession
<1>8. Written(e, w) /\ ~w.locked
  BY <1>2, <1>5, <1>6 DEF Written, Blank
<1>9. Known(e) => w.tokenVersion <= users[e].tokenVersion
  BY <1>2, <1>5, RecordsKnown DEF Blank
<1>10. users'[e].tokenVersion = 0
  BY <1>2, <1>5, <1>6 DEF TypesOK, UsersOK, Blank
<1> QED BY <1>2, <1>3, <1>6, <1>7, <1>8, <1>9, <1>10, SignedInEffect

\* A step that no thread waits for.
LEMMA StandingEffect ==
  ASSUME TypesOK, AccountStep, KnownKept, NoNewer({}), NoneLocked, Steady,
         UNCHANGED <<thread, chain, late>>
  PROVE  Effect
<1>1. ThreadsOK' /\ NoneJudging
  BY Standing DEF TypesOK
<1>2. SessionStep
  BY DEF SessionStep, Quiet, Steady
<1> QED BY <1>1, <1>2, RecordsKnown DEF Effect, LoginStep, NoLogin, Steady

LEMMA LinkEffects ==
  ASSUME TypesOK, NEW t \in Threads, NEW e \in Emails
  PROVE  /\ ResendVerification(t, e) => Effect
         /\ ForgotPassword(t, e) => Effect
<1>1. serial + 1 \in Nat /\ serial < serial + 1 /\ e \in Addresses
  BY RecordsKnown, EmailsAreAddresses
<1>2. ASSUME ResendVerification(t, e) PROVE Effect
  <2>1. Known(e) /\ users[e] \in User
    BY <1>1, <1>2, RecordsKnown DEF ResendVerification
  <2>2. PICK w : w = SetVerification(users[e], serial')
    OBVIOUS
  <2>3. /\ w \in User /\ w.verification = serial' /\ w.reset = users[e].reset
        /\ w.verified = users[e].verified /\ w.tokenVersion = users[e].tokenVersion
        /\ w.locked = users[e].locked
    BY <1>1, <1>2, <2>1, <2>2 DEF ResendVerification, SetVerification, User
  <2>4. users' = [users EXCEPT ![e] = w] /\ Link(e, serial') \in mailed'
    BY <1>2, <2>2 DEF ResendVerification, Link
  <2>5. Written(e, w)
    BY <1>2, <2>1, <2>3, <2>4 DEF Written, ResendVerification
  <2>6. Forward
    BY <1>2, RecordsKnown DEF Forward, ResendVerification
  <2>7. w.tokenVersion <= users[e].tokenVersion /\ (w.locked => Locked(e))
    BY <1>1, <2>1, <2>3, RecordsKnown DEF Locked
  <2>8. AccountStep /\ KnownKept /\ NoNewer({}) /\ NoneLocked
    BY <1>1, <2>5, <2>6, <2>7, WrittenEffect DEF TypesOK
  <2> QED BY <1>2, <2>8, StandingEffect DEF ResendVerification
<1>3. ASSUME ForgotPassword(t, e) PROVE Effect
  <2>1. Known(e) /\ users[e] \in User
    BY <1>1, <1>3, RecordsKnown DEF ForgotPassword
  <2>2. PICK w : w = SetReset(users[e], serial')
    OBVIOUS
  <2>3. /\ w \in User /\ w.reset = serial' /\ w.verification = users[e].verification
        /\ w.verified = users[e].verified /\ w.tokenVersion = users[e].tokenVersion
        /\ w.locked = users[e].locked
    BY <1>1, <1>3, <2>1, <2>2 DEF ForgotPassword, SetReset, User
  <2>4. users' = [users EXCEPT ![e] = w] /\ serial < serial'
    BY <1>1, <1>3, <2>2 DEF ForgotPassword
  <2>5. Written(e, w)
    BY <1>3, <2>1, <2>3, <2>4 DEF Written, ForgotPassword
  <2>6. Forward
    BY <1>3, RecordsKnown DEF Forward, ForgotPassword
  <2>7. w.tokenVersion <= users[e].tokenVersion /\ (w.locked => Locked(e))
    BY <1>1, <2>1, <2>3, RecordsKnown DEF Locked
  <2>8. AccountStep /\ KnownKept /\ NoNewer({}) /\ NoneLocked
    BY <1>1, <2>5, <2>6, <2>7, WrittenEffect DEF TypesOK
  <2> QED BY <1>3, <2>8, StandingEffect DEF ForgotPassword
<1> QED BY <1>2, <1>3

LEMMA VerifyEmailEffect ==
  ASSUME TypesOK, AllProved, NEW t \in Threads, NEW e \in Emails, NEW token,
         VerifyEmail(t, e, token)
  PROVE  Effect
<1>1. e \in Addresses /\ Known(e) /\ users[e] \in User
  BY RecordsKnown, EmailsAreAddresses DEF VerifyEmail
<1>2. PICK valid \in BOOLEAN : valid = ConsumesVerification(e, token)
  BY DEF ConsumesVerification
<1>3. PICK w : w = AfterVerification(users[e], valid)
  OBVIOUS
<1>4. /\ w \in User /\ w.verification = 0 /\ w.reset = users[e].reset
      /\ w.verified = (users[e].verified \/ valid)
      /\ w.tokenVersion = users[e].tokenVersion /\ w.locked = users[e].locked
  BY <1>1, <1>3 DEF AfterVerification, User
<1>5. users' = [users EXCEPT ![e] = w]
  BY <1>2, <1>3 DEF VerifyEmail
<1>6. valid => e \in proved'
  BY <1>1, <1>2 DEF VerifyEmail, ConsumesVerification, AllProved, ProofKept, Link
<1>7. UNCHANGED <<mailed, thread, spent, late, chain, serial>> /\ Steady /\ proved \subseteq proved'
  BY DEF VerifyEmail, NoUpdate
<1>8. Written(e, w)
  BY <1>1, <1>4, <1>5, <1>6, <1>7 DEF Written
<1>9. Forward
  BY <1>7, RecordsKnown DEF Forward
<1>10. w.tokenVersion <= users[e].tokenVersion /\ (w.locked => Locked(e))
  BY <1>1, <1>4, RecordsKnown DEF Locked
<1>11. AccountStep /\ KnownKept /\ NoNewer({}) /\ NoneLocked
  BY <1>1, <1>8, <1>9, <1>10, WrittenEffect DEF TypesOK
<1> QED BY <1>7, <1>11, StandingEffect

LEMMA ResetPasswordEffect ==
  ASSUME TypesOK, NEW t \in Threads, NEW e \in Emails, NEW token, NEW p \in Passwords,
         ResetPassword(t, e, token, p)
  PROVE  Effect
<1>1. e \in Addresses /\ NoUpdate /\ Steady /\ UNCHANGED <<mailed, late, proved>>
  BY EmailsAreAddresses DEF ResetPassword
<1>2. Forward
  BY <1>1, RecordsKnown DEF Forward, NoUpdate
<1>3. PICK x \in Waiting : /\ x.at \notin {"verify", "migrate", "migrated"}
                           /\ x.at = "reset" => Known(e) /\ x.email = e
                           /\ thread' = [thread EXCEPT ![t] = x]
  <2>1. CASE ConsumesReset(e, token)
    <3>1. [at |-> "reset", email |-> e, password |-> p] \in Waiting
      BY DEF Waiting
    <3> QED BY <2>1, <3>1 DEF ResetPassword, ConsumesReset
  <2>2. CASE ~ConsumesReset(e, token)
    BY <2>2, IdleMove DEF ResetPassword, Answer
  <2> QED BY <2>1, <2>2
<1>4. AccountStep /\ KnownKept /\ NoNewer({}) /\ NoneLocked
  <2>1. CASE ~Known(e)
    <3>1. UNCHANGED <<users, spent>>
      BY <2>1 DEF ResetPassword, AfterResetAttempt, ConsumesReset
    <3> QED BY <1>2, <3>1, NothingWritten DEF TypesOK
  <2>2. CASE Known(e)
    <3>1. users[e] \in User /\ users[e].tokenVersion \in Nat
      BY <1>1, <2>2, RecordsKnown
    <3>2. PICK w : w = [users[e] EXCEPT !.reset = 0]
      OBVIOUS
    <3>3. /\ w \in User /\ w.reset = 0 /\ w.verification = users[e].verification
          /\ w.verified = users[e].verified /\ w.tokenVersion = users[e].tokenVersion
          /\ w.locked = users[e].locked
      BY <3>1, <3>2 DEF User
    <3>4. users' = [users EXCEPT ![e] = w]
      BY <2>2, <3>2 DEF ResetPassword, AfterResetAttempt
    <3>5. \/ UNCHANGED spent
          \/ users[e].reset # 0 /\ spent' = Append(spent, users[e].reset)
      BY DEF ResetPassword, ConsumesReset
    <3>6. Written(e, w)
      BY <2>2, <3>3, <3>4, <3>5 DEF Written
    <3>7. w.tokenVersion <= users[e].tokenVersion /\ (w.locked => Locked(e))
      BY <2>2, <3>1, <3>3 DEF Locked
    <3> QED BY <1>1, <1>2, <3>6, <3>7, WrittenEffect DEF TypesOK
  <2> QED BY <2>1, <2>2
<1>5. Known(e) => Known(e)'
  BY <1>1, <1>4 DEF KnownKept
<1>6. x.at \in {"verify", "migrate", "migrated", "reset"} => Known(x.email)'
  BY <1>3, <1>5
<1>7. ThreadsOK' /\ NoneJudging
  BY <1>3, <1>4, <1>6, Moved DEF TypesOK
<1>8. SessionStep
  BY <1>1, <1>4, NothingQueued
<1> QED BY <1>1, <1>4, <1>7, <1>8, RecordsKnown DEF Effect, LoginStep, NoLogin, Steady

\* Every session of an account is to be revoked.
LEMMA AllEffect ==
  ASSUME TypesOK, NEW t \in Threads, NEW e \in Addresses, Known(e), NEW w,
         LinksKept(users[e], w), w.locked => users[e].locked,
         users' = [users EXCEPT ![e] = w], Update(t, "all", e, 0, 0, 0), Steady,
         UNCHANGED <<mailed, serial, spent, late, proved>>
  PROVE  Effect
<1>1. Forward
  BY RecordsKnown DEF Forward
<1>2. Written(e, w) /\ (w.locked => Locked(e))
  BY DEF Written, LinksKept, Locked
<1>3. AccountStep /\ KnownKept /\ NoNewer({e}) /\ NoneLocked
  BY <1>1, <1>2, WrittenEffect DEF TypesOK
<1> DEFINE m == [op |-> "all", by |-> t, email |-> e, sid |-> 0, jti |-> 0, tokenVersion |-> 0]
<1>4. m \in Entry /\ Queued(m) /\ ThreadsOK' /\ NoneJudging
  BY <1>3, UpdateQueued DEF TypesOK, Steady
<1>5. m.op = "all" /\ m.email = e
  OBVIOUS
<1> HIDE DEF m
<1>6. AllQueued(m)
  BY <1>3, <1>5 DEF AllQueued, Steady
<1>7. SessionStep
  BY <1>4, <1>6 DEF SessionStep
<1> QED BY <1>3, <1>4, <1>7, RecordsKnown DEF Effect, LoginStep, NoLogin, Steady

LEMMA PasswordResetEffect ==
  ASSUME TypesOK, NEW t \in Threads, PasswordReset(t)
  PROVE  Effect
<1>1. PICK e \in Emails : e = thread[t].email
  BY Held DEF PasswordReset, Continue
<1>2. /\ e \in Addresses /\ Known(e) /\ users[e] \in User /\ thread[t].password \in Passwords
  BY <1>1, Held, EmailsAreAddresses, RecordsKnown DEF PasswordReset, Continue
<1>3. PICK v : v = SetPassword(users[e], thread[t].password)
  OBVIOUS
<1>4. v \in User /\ Minor(users[e], v)
  BY <1>2, <1>3, MinorOperations
<1>5. PICK w : w = Bumped(v)
  OBVIOUS
<1>6. LinksKept(users[e], w) /\ (w.locked => users[e].locked)
  BY <1>4, <1>5, MajorOperations DEF LinksKept, Minor
<1>7. /\ users' = [users EXCEPT ![e] = w] /\ Update(t, "all", e, 0, 0, 0) /\ Steady
      /\ UNCHANGED <<mailed, serial, spent, late, proved>>
  BY <1>1, <1>3, <1>5 DEF PasswordReset
<1> QED BY <1>2, <1>6, <1>7, AllEffect

LEMMA RevokeEffect ==
  ASSUME TypesOK, NEW t \in Threads, NEW e \in Addresses, NEW sid \in Nat,
         Update(t, "revoke", e, sid, 0, 0), Steady,
         UNCHANGED <<users, mailed, serial, spent, late, proved>>
  PROVE  Effect
<1>1. Forward
  BY RecordsKnown DEF Forward
<1>2. AccountStep /\ KnownKept /\ NoNewer({}) /\ NoneLocked
  BY <1>1, NothingWritten DEF TypesOK
<1> DEFINE m == [op |-> "revoke", by |-> t, email |-> e, sid |-> sid, jti |-> 0, tokenVersion |-> 0]
<1>3. m \in Entry /\ Queued(m) /\ ThreadsOK' /\ NoneJudging
  BY <1>2, UpdateQueued DEF TypesOK, Steady
<1>4. RevokeQueued(m)
  BY DEF RevokeQueued, Steady
<1> HIDE DEF m
<1>5. SessionStep
  BY <1>3, <1>4 DEF SessionStep
<1> QED BY <1>2, <1>3, <1>5, RecordsKnown DEF Effect, LoginStep, NoLogin, Steady

\* What an accepted token names exists.
LEMMA AcceptedFacts ==
  ASSUME TypesOK, NEW token \in issued, NEW type, Accepted(token, type)
  PROVE  /\ token.email \in Addresses /\ Known(token.email) /\ users[token.email] \in User
         /\ token.sid \in Nat /\ token.tokenVersion \in Nat /\ token.jti \in Nat
         /\ token.tokenVersion = users[token.email].tokenVersion
<1>1. token \in Token
  BY DEF TypesOK, SessionsOK
<1>2. token.email \in Addresses /\ token.sid \in Nat /\ token.tokenVersion \in Nat /\ token.jti \in Nat
  BY <1>1 DEF Token
<1> QED BY <1>2, RecordsKnown DEF Accepted

LEMMA RefreshEffect ==
  ASSUME TypesOK, NEW t \in Threads, NEW token \in issued, Refresh(t, token)
  PROVE  Effect
<1>1. PICK e \in Addresses, sid \in Nat, version \in Nat :
        /\ e = token.email /\ sid = token.sid /\ version = token.tokenVersion
        /\ version = users[e].tokenVersion
  BY AcceptedFacts DEF Refresh
<1>2. UNCHANGED <<sessions, issued, users, mailed, spent, late, proved>>
  BY DEF Refresh
<1>3. CASE ~\E s \in Session(token.sid) : s.jti = token.jti
  BY <1>1, <1>2, <1>3, RevokeEffect DEF Refresh, Steady
<1>4. CASE \E s \in Session(token.sid) : s.jti = token.jti
  <2>1. PICK jti \in Nat : jti = serial + 1 /\ serial < jti
    BY RecordsKnown
  <2>2. serial' = jti /\ exchanged' = exchanged \union {[jti |-> token.jti, next |-> jti]}
        /\ Update(t, "rotate", e, sid, jti, version)
    BY <1>1, <1>4, <2>1 DEF Refresh
  <2>3. Forward
    BY <1>2, <2>1, <2>2, RecordsKnown DEF Forward
  <2>4. AccountStep /\ KnownKept /\ NoNewer({}) /\ NoneLocked
    BY <1>2, <2>3, NothingWritten DEF TypesOK
  <2> DEFINE m == [op |-> "rotate", by |-> t, email |-> e, sid |-> sid, jti |-> jti,
                   tokenVersion |-> version]
  <2>5. m \in Entry /\ Queued(m) /\ ThreadsOK' /\ NoneJudging
    BY <1>2, <2>2, <2>4, UpdateQueued DEF TypesOK
  <2>6. /\ m.op = "rotate" /\ m.sid = token.sid /\ m.email = token.email /\ m.jti = jti
        /\ m.tokenVersion = users[m.email].tokenVersion
    BY <1>1
  <2>7. \E s \in sessions : s.sid = token.sid /\ s.jti = token.jti
    BY <1>4 DEF Session
  <2> HIDE DEF m
  <2>8. RotateQueued(m)
    BY <1>2, <2>1, <2>2, <2>6, <2>7, RecordsKnown DEF RotateQueued
  <2>9. SessionStep
    BY <2>5, <2>8 DEF SessionStep
  <2>10. exchanged' \subseteq Exchange
    BY <2>2, AcceptedFacts, RecordsKnown DEF Refresh, Exchange
  <2> QED BY <1>2, <2>4, <2>5, <2>9, <2>10, RecordsKnown DEF Effect, LoginStep, NoLogin
<1> QED BY <1>3, <1>4

LEMMA SignOutEffects ==
  ASSUME TypesOK, NEW t \in Threads, NEW token \in issued
  PROVE  /\ Logout(t, token) => Effect
         /\ \A s \in sessions : RevokeSession(t, token, s.sid) => Effect
         /\ LogoutAll(t, token) => Effect
<1>1. ASSUME Logout(t, token) PROVE Effect
  BY <1>1, AcceptedFacts, RevokeEffect DEF Logout
<1>2. ASSUME NEW s \in sessions, RevokeSession(t, token, s.sid) PROVE Effect
  <2>1. s.sid \in Nat
    BY DEF TypesOK, SessionsOK, SessionRecord
  <2>2. CASE \E q \in Session(s.sid) : q.email = token.email
    BY <1>2, <2>1, <2>2, AcceptedFacts, RevokeEffect DEF RevokeSession
  <2>3. CASE ~\E q \in Session(s.sid) : q.email = token.email
    BY <1>2, <2>3, ThreadEffect, IdleMove DEF RevokeSession, Answer, NoUpdate
  <2> QED BY <2>2, <2>3
<1>3. ASSUME LogoutAll(t, token) PROVE Effect
  <2>1. PICK e \in Addresses : e = token.email /\ Known(e) /\ users[e] \in User
    BY <1>3, AcceptedFacts DEF LogoutAll
  <2>2. PICK w : w = Bumped(users[e])
    OBVIOUS
  <2>3. LinksKept(users[e], w) /\ (w.locked => users[e].locked)
    BY <2>1, <2>2, MajorOperations
  <2>4. /\ users' = [users EXCEPT ![e] = w] /\ Update(t, "all", e, 0, 0, 0) /\ Steady
        /\ UNCHANGED <<mailed, serial, spent, late, proved>>
    BY <1>3, <2>1, <2>2 DEF LogoutAll
  <2> QED BY <2>1, <2>3, <2>4, AllEffect
<1> QED BY <1>1, <1>2, <1>3

LEMMA ApplyEffect ==
  ASSUME TypesOK, ApplyUpdate
  PROVE  Effect
<1>1. UNCHANGED <<users, mailed, serial, spent, exchanged, late, proved>> /\ chain # <<>>
  BY DEF ApplyUpdate
<1>2. Forward
  BY <1>1, RecordsKnown DEF Forward
<1>3. AccountStep /\ KnownKept /\ NoneLocked
  BY <1>1, <1>2, NothingWritten DEF TypesOK
<1>4. PICK t \in Threads : t = Head(chain).by
  <2>1. Head(chain) \in Entry
    BY <1>1, Shortened DEF TypesOK, SessionsOK
  <2> QED BY <2>1 DEF Entry
<1>5. thread' = [thread EXCEPT ![t] = Idle]
  BY <1>4 DEF ApplyUpdate, Answer
<1>6. ThreadsOK' /\ NoneJudging
  BY <1>3, <1>5, Moved, IdleMove DEF TypesOK
<1>7. SessionStep
  BY <1>1 DEF ApplyUpdate, SessionStep, Applied
<1> QED BY <1>1, <1>3, <1>6, <1>7, RecordsKnown DEF Effect, LoginStep, NoLogin

LEMMA ClockEffects ==
  ASSUME TypesOK, NEW e \in Emails, LockEnds(e) \/ WindowEnds(e)
  PROVE  Effect
<1>1. e \in Addresses /\ Known(e) /\ users[e] \in User
  BY RecordsKnown, EmailsAreAddresses DEF LockEnds, WindowEnds
<1>2. NoUpdate /\ Steady /\ UNCHANGED <<mailed, thread, spent, late, proved>>
  BY DEF LockEnds, WindowEnds
<1>3. PICK w : w \in {[users[e] EXCEPT !.locked = FALSE], [users[e] EXCEPT !.counting = FALSE]}
               /\ users' = [users EXCEPT ![e] = w]
  BY DEF LockEnds, WindowEnds
<1>4. Minor(users[e], w)
  BY <1>1, <1>3 DEF Minor, LinksKept, User
<1>5. Forward
  BY <1>2, RecordsKnown DEF Forward, NoUpdate
<1>6. AccountStep /\ KnownKept /\ NoNewer({}) /\ NoneLocked
  BY <1>1, <1>2, <1>3, <1>4, <1>5, MinorEffect DEF TypesOK
<1> QED BY <1>2, <1>6, StandingEffect DEF NoUpdate

LEMMA StutterEffect ==
  ASSUME TypesOK, UNCHANGED vars
  PROVE  Effect
<1>1. Forward /\ UNCHANGED <<users, spent, thread, chain, late>> /\ Steady
  BY RecordsKnown DEF vars, Forward, Steady
<1>2. AccountStep /\ KnownKept /\ NoNewer({}) /\ NoneLocked
  BY <1>1, NothingWritten DEF TypesOK
<1> QED BY <1>1, <1>2, StandingEffect

LEMMA StepEffect ==
  ASSUME TypesOK, AllProved, [Next]_vars
  PROVE  Effect
<1>1. ASSUME NEW t \in Threads, SignIn(t) PROVE Effect
  BY <1>1, LoginEffect, WaitingEffects, PhoneLoginEffect DEF SignIn
<1>2. ASSUME NEW t \in Threads, Recover(t) PROVE Effect
  BY <1>2, LinkEffects, VerifyEmailEffect, ResetPasswordEffect DEF Recover
<1>3. ASSUME NEW t \in Threads, UseToken(t) PROVE Effect
  BY <1>3, RefreshEffect, SignOutEffects DEF UseToken
<1>4. ASSUME NEW t \in Threads, Resume(t) PROVE Effect
  BY <1>4, WrongPasswordEffect, RightPasswordEffect, MigrateEffect, MigratedEffect,
     GoogleVerifiedEffect, WaitingEffects, RegisteredEffect, PasswordResetEffect DEF Resume
<1> QED BY <1>1, <1>2, <1>3, <1>4, ApplyEffect, ClockEffects, StutterEffect DEF Next

-----------------------------------------------------------------------------
(* The inductive invariant *)

Inv == /\ TypesOK /\ IdsOK /\ VersionsOK /\ ExchangedTokenIsDead
       /\ AllProved /\ ResetsOK /\ LocksOK

LEMMA InitTypes ==
  ASSUME Init
  PROVE  TypesOK /\ \A e \in Addresses : Known(e) => users[e].locked = FALSE
                     /\ users[e].verified = FALSE /\ users[e].reset = 0 /\ users[e].verification = 0
<1>1. ASSUME NEW p \in Passwords
      PROVE  /\ Account(p, FALSE) \in User /\ Account(p, FALSE).locked = FALSE
             /\ Account(p, FALSE).verified = FALSE /\ Account(p, FALSE).reset = 0
             /\ Account(p, FALSE).verification = 0
  BY DEF Account, User
<1>2. \/ users = Nobody
      \/ \E a \in Emails, p \in Passwords : users = [Nobody EXCEPT ![a] = Account(p, FALSE)]
  BY DEF Init
<1>3. UsersOK /\ \A e \in Addresses : \/ users[e] = NoUser
                                       \/ \E p \in Passwords : users[e] = Account(p, FALSE)
  <2>1. CASE users = Nobody
    BY <2>1 DEF UsersOK, Nobody
  <2>2. ASSUME NEW a \in Emails, NEW p \in Passwords,
               users = [Nobody EXCEPT ![a] = Account(p, FALSE)]
        PROVE  /\ UsersOK
               /\ \A e \in Addresses : users[e] = NoUser \/ users[e] = Account(p, FALSE)
    BY <1>1, <2>2, EmailsAreAddresses DEF UsersOK, Nobody
  <2> QED BY <1>2, <2>1, <2>2
<1>4. ThreadsOK
  BY IdleMove DEF Init, ThreadsOK
<1>5. SessionsOK /\ CountsOK
  BY DEF Init, SessionsOK, CountsOK
<1> QED BY <1>1, <1>3, <1>4, <1>5 DEF TypesOK, Known

LEMMA InitInv == Init => Inv
<1> SUFFICES ASSUME Init PROVE Inv
  OBVIOUS
<1>1. /\ sessions = {} /\ issued = {} /\ chain = <<>> /\ spent = <<>> /\ exchanged = {}
      /\ thread = [t \in Threads |-> Idle] /\ late = [e \in Addresses |-> 0]
  BY DEF Init
<1>2. IdsOK /\ VersionsOK /\ ExchangedTokenIsDead
  <2>1. DOMAIN chain = {}
    BY <1>1
  <2> QED BY <1>1, <2>1 DEF IdsOK, SidsOK, ChainSidsOK, VersionsOK, TokensStopped, CreatesStopped,
                            RotatesStopped, ExchangedTokenIsDead
<1>3. AllProved
  BY InitTypes DEF AllProved, ProofKept
<1>4. ResetsOK
  <2>1. DOMAIN spent = {}
    BY <1>1
  <2> QED BY <2>1, InitTypes DEF ResetsOK, Outstanding
<1>5. LocksOK
  <2>1. \A e \in Emails : late[e] = 0 /\ ~Locked(e)
    BY <1>1, InitTypes, EmailsAreAddresses DEF Locked
  <2> QED BY <2>1, JudgingFinite DEF LocksOK
<1> QED BY <1>2, <1>3, <1>4, <1>5, InitTypes DEF Inv

LEMMA StepInv == Inv /\ [Next]_vars => Inv'
<1> SUFFICES ASSUME Inv, [Next]_vars PROVE Inv'
  OBVIOUS
<1>1. TypesOK /\ IdsOK /\ VersionsOK /\ ExchangedTokenIsDead /\ AllProved /\ ResetsOK /\ LocksOK
  BY DEF Inv
<1>2. AccountStep /\ SessionStep /\ LoginStep /\ ThreadsOK'
      /\ exchanged' \subseteq Exchange /\ late' \in [Addresses -> Nat]
  BY <1>1, StepEffect DEF Effect
<1>3. UsersOK /\ CountsOK
  BY <1>1 DEF TypesOK
<1>4. UsersOK' /\ CountsOK'
  BY <1>2, <1>3, AccountTypes DEF CountsOK, AccountStep
<1>5. SessionsOK'
  BY <1>1, <1>2, SessionTypes
<1>6. IdsOK' /\ VersionsOK' /\ ExchangedTokenIsDead'
  BY <1>1, <1>2, SessionIds, SessionVersions, SessionExchanged
<1>7. AllProved' /\ ResetsOK' /\ LocksOK'
  BY <1>1, <1>2, <1>3, AccountProved, AccountResets, LoginLocks
<1> QED BY <1>2, <1>4, <1>5, <1>6, <1>7 DEF Inv, TypesOK

-----------------------------------------------------------------------------
(* The theorems *)

\* The records, sessions and updates are of their types, identifiers are drawn
\* once, and what the five properties rest on holds in every state.
THEOREM InvHolds == Spec => []Inv
BY InitInv, StepInv, PTL DEF Spec

\* logoutAll and resetPassword leave no session of an older version open, not
\* even that of a login or rotation whose update of sessions.json was pending.
THEOREM NobodyStaysSignedIn == Spec => []SignedOutEverywhere
<1>1. ASSUME Inv PROVE SignedOutEverywhere
  <2> SUFFICES ASSUME NEW token \in issued,
                      token.tokenVersion < users[token.email].tokenVersion,
                      ~Pending("all", token.email)
               PROVE  ~Active(token.sid)
    BY DEF SignedOutEverywhere
  <2>1. Dead(token.sid)
    BY <1>1 DEF Inv, VersionsOK, TokensStopped, Older, Stopped
  <2> QED BY <2>1 DEF Dead, Active, Session
<1> QED BY <1>1, InvHolds, PTL

\* Once refresh has answered, the token it exchanged is no session's, however
\* many rotations, sign-outs and logins were queued around it.
THEOREM AnsweredExchangeIsFinal == Spec => []ExchangedTokenIsDead
<1>1. Inv => ExchangedTokenIsDead
  BY DEF Inv
<1> QED BY <1>1, InvHolds, PTL

\* consumeResetToken accepts a reset link once, however requests overlap.
THEOREM ResetLinkIsSpent == Spec => []ResetLinkWorksOnce
<1>1. Inv => ResetLinkWorksOnce
  BY DEF Inv, ResetLinkWorksOnce, ResetsOK
<1> QED BY <1>1, InvHolds, PTL

\* authenticateLocal judges fewer late passwords on a locked account than there
\* are requests at a time: those in flight when the lock was set.
THEOREM LockHolds == Spec => []LockStopsGuessing
<1>1. ASSUME Inv PROVE LockStopsGuessing
  BY <1>1 DEF Inv, LockStopsGuessing, LocksOK
<1> QED BY <1>1, InvHolds, PTL

\* An account counts as verified only after its address was shown to be its
\* owner's, whatever registrations and links overlap.
THEOREM VerificationIsProof == Spec => []VerifiedWasProved
<1>1. ASSUME Inv PROVE VerifiedWasProved
  BY <1>1 DEF Inv, VerifiedWasProved, AllProved, ProofKept
<1> QED BY <1>1, InvHolds, PTL

=============================================================================
