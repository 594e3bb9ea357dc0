------------------------------- MODULE Limits -------------------------------
(***************************************************************************)
(* What bounds the use of the sign-in endpoints over time: the per-IP      *)
(* sliding windows (rateLimiter.js), the one-time passcodes (otpStore.js)  *)
(* and the one-time nonces (nonceStore.js).  Each handler runs without an  *)
(* await up to the end of what is modelled here, so it is one action; what *)
(* makes them hard is the clock, and the stores they share.                *)
(*                                                                         *)
(* A passcode or nonce is the number of its issue, and a request let       *)
(* through that of its admission: secrets that differ are different        *)
(* numbers, and a history keeps what belongs to each.                      *)
(***************************************************************************)
EXTENDS Naturals, Sequences, FiniteSets

CONSTANTS
    Ips, Phones,
    Limiters,         \* the names of the limiters: "login", "sensitive", "reviews"
    Window, Budget,   \* windowMs and max of each
    OtpTtl, Cooldown, OtpAttempts, MaxEntries,
    NonceTtl, MaxNonces,
    Boot, MaxTime,    \* the clock when the server starts, and where a run ends
    MaxRequests       \* bound on the requests of a behaviour

ASSUME LimitsAssumption ==
    /\ {"login", "sensitive", "reviews"} \subseteq Limiters
    /\ Window \in [Limiters -> Nat \ {0}] /\ Budget \in [Limiters -> Nat \ {0}]
    /\ \A l \in Limiters : Boot >= Window[l]
    /\ {OtpTtl, Cooldown, NonceTtl, Boot, MaxTime, MaxRequests} \subseteq Nat
    /\ {OtpAttempts, MaxEntries, MaxNonces} \subseteq Nat \ {0}
    /\ Cooldown <= OtpTtl

VARIABLES
    now,
    buckets,     \* the admissions the limiter still holds, per name and IP
    lastSweep,   \* shared by all limiters
    otp,         \* the outstanding code of a phone, with its place in the Map
    nonces,      \* the outstanding nonces; the Map is in the order of issue
    admitted,    \* history: every request let through
    sends,       \* history: every code issued; its place is its number
    guesses,     \* history: every comparison with an outstanding code
    minted,      \* history: the time each nonce was issued at
    burnt        \* history: the nonces accepted

limitVars == <<buckets, lastSweep, admitted>>
otpVars == <<otp, sends, guesses>>
nonceVars == <<nonces, minted, burnt>>
vars == <<now, limitVars, otpVars, nonceVars>>

\* What a full store keeps to make room: the k members that came last.
OldestKept(S, place, k) ==   \* mutant: the newest go
    {x \in S : Cardinality({y \in S : place[y] < place[x]}) < k}
Newest(S, place, k) == {x \in S : Cardinality({y \in S : place[y] > place[x]}) < k}

-----------------------------------------------------------------------------
(* The sliding window *)

Fresh(bucket, l) == {i \in bucket : now - admitted[i].at < Window[l]}

\* The sweep prunes every bucket with the window of the limiter that runs it.
Swept(l) == IF now - lastSweep < Window[l] THEN buckets
            ELSE [k \in DOMAIN buckets |-> Fresh(buckets[k], l)]

AdmitsOneMore(l, ip) == Cardinality(Fresh(Swept(l)[<<l, ip>>], l)) <= Budget[l]   \* mutant
Admits(l, ip) == Cardinality(Fresh(Swept(l)[<<l, ip>>], l)) < Budget[l]

RateLimit(l, ip) ==
    /\ lastSweep' = IF now - lastSweep < Window[l] THEN lastSweep ELSE now
    /\ IF Admits(l, ip)
         THEN /\ admitted' = Append(admitted, [limiter |-> l, ip |-> ip, at |-> now])
              /\ buckets' = [Swept(l) EXCEPT ![<<l, ip>>] = Fresh(@, l) \union {Len(admitted')}]
         ELSE /\ buckets' = Swept(l)
              /\ UNCHANGED admitted

-----------------------------------------------------------------------------
(* One-time passcodes *)

NoCode == [code |-> 0, place |-> 0, attempts |-> 0]
Held(store) == {p \in Phones : store[p] # NoCode}
IssuedAt(entry) == sends[entry.code].at

LiveOtp == [p \in Phones |-> IF otp[p] # NoCode /\ IssuedAt(otp[p]) + OtpTtl > now
                             THEN otp[p] ELSE NoCode]

NeverCoolingDown(phone) == FALSE   \* mutant: the cooldown is not asked
CoolingDown(phone) == otp[phone] # NoCode /\ now - IssuedAt(otp[phone]) < Cooldown

\* Room for one more code.
Trimmed(store) ==
    LET kept == Newest(Held(store), [p \in Phones |-> store[p].place], MaxEntries - 1)
    IN [p \in Phones |-> IF p \in kept THEN store[p] ELSE NoCode]

\* A Map keeps a key that is set again in its place.
Put(store, phone, code) ==
    [store EXCEPT ![phone] =
        [code |-> code, place |-> IF @ = NoCode THEN code ELSE @.place, attempts |-> 0]]

IssueOtp(phone) ==
    /\ sends' = Append(sends, [phone |-> phone, at |-> now])
    /\ otp' = Put(Trimmed(LiveOtp), phone, Len(sends'))
    /\ UNCHANGED guesses

CompareUnburnt(phone, code) ==   \* mutant: a code is not burnt by its use
    /\ guesses' = Append(guesses, [code |-> LiveOtp[phone].code,
                                   right |-> code = LiveOtp[phone].code, at |-> now])
    /\ otp' = [LiveOtp EXCEPT ![phone].attempts = @ + 1]

Compare(phone, code) ==
    LET entry == LiveOtp[phone]
        tried == entry.attempts + 1
        right == code = entry.code
    IN /\ guesses' = Append(guesses, [code |-> entry.code, right |-> right, at |-> now])
       /\ otp' = [LiveOtp EXCEPT ![phone] =
                    IF right \/ tried >= OtpAttempts THEN NoCode
                    ELSE [entry EXCEPT !.attempts = tried]]

\* An entry whose attempts are used up is dropped without a comparison.
TryOtp(phone, code) ==
    /\ IF LiveOtp[phone] # NoCode /\ LiveOtp[phone].attempts < OtpAttempts
         THEN Compare(phone, code)
         ELSE otp' = [LiveOtp EXCEPT ![phone] = NoCode] /\ UNCHANGED guesses
    /\ UNCHANGED sends

-----------------------------------------------------------------------------
(* Nonces *)

LiveNonces == {n \in nonces : minted[n] + NonceTtl > now}

IssueNonce ==
    /\ minted' = Append(minted, now)
    /\ nonces' = Newest(LiveNonces, [n \in LiveNonces |-> n], MaxNonces - 1)
                   \union {Len(minted')}
    /\ UNCHANGED burnt

ConsumeNonce(n) ==
    /\ nonces' = LiveNonces \ {n}
    /\ burnt' = IF n \in LiveNonces THEN Append(burnt, [nonce |-> n, at |-> now]) ELSE burnt
    /\ UNCHANGED minted

-----------------------------------------------------------------------------
(* The endpoints *)

Served == Len(admitted) + Len(minted)

\* POST /otp/request: no code is issued while the last one cools down.
RequestOtp(ip, phone) ==
    /\ Served < MaxRequests
    /\ RateLimit("sensitive", ip)
    /\ IF Admits("sensitive", ip) /\ ~CoolingDown(phone)
         THEN IssueOtp(phone) ELSE UNCHANGED otpVars
    /\ UNCHANGED <<now, nonceVars>>

\* POST /otp/verify.
VerifyOtp(ip, phone, code) ==
    /\ Served < MaxRequests
    /\ RateLimit("login", ip)
    /\ IF Admits("login", ip) THEN TryOtp(phone, code) ELSE UNCHANGED otpVars
    /\ UNCHANGED <<now, nonceVars>>

\* GET /nonce, which no limiter guards.
GetNonce ==
    /\ Served < MaxRequests
    /\ IssueNonce
    /\ UNCHANGED <<now, limitVars, otpVars>>

\* POST /google: the nonce is burnt before the provider is asked.
GoogleLogin(ip, n) ==
    /\ Served < MaxRequests
    /\ RateLimit("login", ip)
    /\ IF Admits("login", ip) THEN ConsumeNonce(n) ELSE UNCHANGED nonceVars
    /\ UNCHANGED <<now, otpVars>>

\* POST /reviews.
PostReview(ip) ==
    /\ Served < MaxRequests
    /\ RateLimit("reviews", ip)
    /\ UNCHANGED <<now, otpVars, nonceVars>>

Tick ==
    /\ now < MaxTime
    /\ now' = now + 1
    /\ UNCHANGED <<limitVars, otpVars, nonceVars>>

Init ==
    /\ now = Boot
    /\ buckets = [k \in Limiters \X Ips |-> {}]
    /\ lastSweep = 0
    /\ otp = [p \in Phones |-> NoCode] /\ nonces = {}
    /\ admitted = <<>> /\ sends = <<>> /\ guesses = <<>>
    /\ minted = <<>> /\ burnt = <<>>

Next ==
    \/ \E ip \in Ips, phone \in Phones :
         \/ RequestOtp(ip, phone)
         \/ \E code \in 0 .. Len(sends) : VerifyOtp(ip, phone, code)
    \/ \E ip \in Ips : PostReview(ip) \/ \E n \in DOMAIN minted : GoogleLogin(ip, n)
    \/ GetNonce
    \/ Tick

Spec == Init /\ [][Next]_vars

-----------------------------------------------------------------------------
(* What the module promises *)

AdmittedIn(l, ip, from) ==
    {i \in DOMAIN admitted : /\ admitted[i].limiter = l /\ admitted[i].ip = ip
                             /\ admitted[i].at >= from /\ admitted[i].at < from + Window[l]}
WindowHolds(l) ==
    \A ip \in Ips : \A i \in DOMAIN admitted :
      Cardinality(AdmittedIn(l, ip, admitted[i].at)) <= Budget[l]

\* No stretch of time as long as the window sees more requests of one IP let
\* through than the budget, for the limiters with the shortest window: their
\* buckets are never pruned too early (rateLimit, sweep).
ShortWindowsHold ==
    \A l \in Limiters : (\A m \in Limiters : Window[l] <= Window[m]) => WindowHolds(l)

\* A code is compared with a guess at most OtpAttempts times, with the wrong
\* guesses for it and the sends to its number interleaved in any way (otpStore.js).
GuessesPerCode ==
    \A c \in DOMAIN sends :
      Cardinality({i \in DOMAIN guesses : guesses[i].code = c}) <= OtpAttempts

\* A code opens one login, before it expires, and only while no newer one was
\* sent to the number (verifyOtp, issueOtp).
CodeOpensOnce ==
    \A i \in DOMAIN guesses : guesses[i].right =>
      LET c == guesses[i].code
      IN /\ \A j \in DOMAIN guesses : guesses[j].code = c /\ guesses[j].right => j = i
         /\ guesses[i].at - sends[c].at < OtpTtl
         /\ \A d \in DOMAIN sends :
              (d > c /\ sends[d].phone = sends[c].phone) => sends[d].at >= guesses[i].at

\* While the store is not full, a number gets a second code within the cooldown
\* only if the first was used, or its attempts were used up: both drop the entry
\* the cooldown is read from (resendCooldownRemaining, verifyOtp).
SendsAreSpaced ==
    Cardinality({sends[i].phone : i \in DOMAIN sends}) < MaxEntries =>
      \A c, d \in DOMAIN sends :
        (/\ c < d /\ sends[c].phone = sends[d].phone
         /\ sends[d].at - sends[c].at < Cooldown) =>
        \/ \E i \in DOMAIN guesses : guesses[i].code = c /\ guesses[i].right
        \/ Cardinality({i \in DOMAIN guesses : guesses[i].code = c}) = OtpAttempts

\* A nonce is accepted once, before it expires (consumeNonce).
NonceBurnsOnce ==
    \A i \in DOMAIN burnt :
      /\ burnt[i].at - minted[burnt[i].nonce] < NonceTtl
      /\ \A j \in DOMAIN burnt : burnt[j].nonce = burnt[i].nonce => j = i

\* A code and a nonce are good for one sign-in, in time, and a code for a few
\* guesses.
WorksOnce == GuessesPerCode /\ CodeOpensOnce /\ NonceBurnsOnce

\* At its limit the nonce store gives up the oldest nonces only: each of the
\* last MaxNonces issued is honoured until it is used or expires (issueNonce).
RecentNoncesKept ==
    \A n \in DOMAIN minted :
      (/\ n > Len(minted) - MaxNonces
       /\ minted[n] + NonceTtl > now
       /\ \A i \in DOMAIN burnt : burnt[i].nonce # n)
      => n \in nonces

=============================================================================
