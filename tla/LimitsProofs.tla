---------------------------- MODULE LimitsProofs ----------------------------
(***************************************************************************)
(* Proofs about Limits, for every set of addresses, numbers and limiters   *)
(* and every window, budget, lifetime and size of the stores.              *)
(*                                                                         *)
(* The limiter, the passcodes and the nonces share the clock only, so a    *)
(* step is reduced to what it does to each (LimitMoves, OtpMoves,          *)
(* NonceMoves), and each has an invariant of its own.                      *)
(***************************************************************************)
EXTENDS Limits, FiniteSetTheorems, TLAPS

Admissions == [limiter : Limiters, ip : Ips, at : Nat]
Sends      == [phone : Phones, at : Nat]
Guesses    == [code : Nat, right : BOOLEAN, at : Nat]
Entries    == [code : Nat, place : Nat, attempts : Nat]
Burns      == [nonce : Nat, at : Nat]

TypeInv ==
  /\ now \in Nat /\ lastSweep \in Nat
  /\ admitted \in Seq(Admissions) /\ buckets \in [Limiters \X Ips -> SUBSET Nat]
  /\ sends \in Seq(Sends) /\ guesses \in Seq(Guesses) /\ otp \in [Phones -> Entries]
  /\ minted \in Seq(Nat) /\ burnt \in Seq(Burns) /\ nonces \in SUBSET Nat

Clock == now' \in {now, now + 1}

LimitMoves == \/ Clock /\ UNCHANGED limitVars
              \/ now' = now /\ \E l \in Limiters, ip \in Ips : RateLimit(l, ip)

OtpMoves == \/ Clock /\ UNCHANGED otpVars
            \/ now' = now /\ \E p \in Phones : \/ ~CoolingDown(p) /\ IssueOtp(p)
                                               \/ \E code \in Nat : TryOtp(p, code)

NonceMoves == \/ Clock /\ UNCHANGED nonceVars
              \/ now' = now /\ (IssueNonce \/ \E n \in Nat : ConsumeNonce(n))

LEMMA Assumptions ==
  /\ "login" \in Limiters /\ "sensitive" \in Limiters /\ "reviews" \in Limiters
  /\ \A l \in Limiters : Window[l] \in Nat \ {0} /\ Budget[l] \in Nat \ {0}
  /\ OtpTtl \in Nat /\ Cooldown \in Nat /\ Cooldown <= OtpTtl /\ NonceTtl \in Nat /\ Boot \in Nat
  /\ OtpAttempts \in Nat \ {0} /\ MaxEntries \in Nat \ {0} /\ MaxNonces \in Nat \ {0}
BY LimitsAssumption DEF LimitsAssumption

LEMMA StepMoves ==
  ASSUME TypeInv, [Next]_vars
  PROVE  LimitMoves /\ OtpMoves /\ NonceMoves
<1>1. CASE UNCHANGED vars
  BY <1>1 DEF vars, LimitMoves, OtpMoves, NonceMoves, Clock
<1>2. ASSUME NEW ip \in Ips, NEW phone \in Phones, RequestOtp(ip, phone)
      PROVE  LimitMoves /\ OtpMoves /\ NonceMoves
  BY <1>2, Assumptions DEF RequestOtp, LimitMoves, OtpMoves, NonceMoves, Clock
<1>3. ASSUME NEW ip \in Ips, NEW phone \in Phones, NEW code \in 0 .. Len(sends),
             VerifyOtp(ip, phone, code)
      PROVE  LimitMoves /\ OtpMoves /\ NonceMoves
  BY <1>3, Assumptions DEF VerifyOtp, LimitMoves, OtpMoves, NonceMoves, Clock
<1>4. ASSUME NEW ip \in Ips, PostReview(ip)
      PROVE  LimitMoves /\ OtpMoves /\ NonceMoves
  BY <1>4, Assumptions DEF PostReview, LimitMoves, OtpMoves, NonceMoves, Clock
<1>5. ASSUME NEW ip \in Ips, NEW n \in DOMAIN minted, GoogleLogin(ip, n)
      PROVE  LimitMoves /\ OtpMoves /\ NonceMoves
  <2>1. n \in Nat
    BY DEF TypeInv
  <2> QED BY <1>5, <2>1, Assumptions DEF GoogleLogin, LimitMoves, OtpMoves, NonceMoves, Clock
<1>6. CASE GetNonce
  BY <1>6 DEF GetNonce, LimitMoves, OtpMoves, NonceMoves, Clock
<1>7. CASE Tick
  BY <1>7 DEF Tick, LimitMoves, OtpMoves, NonceMoves, Clock
<1> QED BY <1>1, <1>2, <1>3, <1>4, <1>5, <1>6, <1>7 DEF Next

-----------------------------------------------------------------------------
(* Type correctness.                                                        *)

LEMMA LimitType ==
  ASSUME TypeInv, LimitMoves
  PROVE  /\ now' \in Nat /\ lastSweep' \in Nat
         /\ admitted' \in Seq(Admissions) /\ buckets' \in [Limiters \X Ips -> SUBSET Nat]
<1>1. CASE Clock /\ UNCHANGED limitVars
  BY <1>1 DEF Clock, limitVars, TypeInv
<1>2. ASSUME NEW l \in Limiters, NEW ip \in Ips, RateLimit(l, ip), now' = now
      PROVE  /\ now' \in Nat /\ lastSweep' \in Nat
             /\ admitted' \in Seq(Admissions) /\ buckets' \in [Limiters \X Ips -> SUBSET Nat]
  <2>1. now' \in Nat /\ lastSweep' \in Nat
    BY <1>2 DEF RateLimit, TypeInv
  <2>2. Swept(l) \in [Limiters \X Ips -> SUBSET Nat]
    BY DEF Swept, Fresh, TypeInv
  <2>3. CASE Admits(l, ip)
    <3>0. [limiter |-> l, ip |-> ip, at |-> now] \in Admissions
      BY DEF TypeInv, Admissions
    <3>1. admitted' \in Seq(Admissions)
      <4>1. admitted' = Append(admitted, [limiter |-> l, ip |-> ip, at |-> now])
        BY <1>2, <2>3 DEF RateLimit
      <4> QED BY <3>0, <4>1 DEF TypeInv
    <3>2. Len(admitted') \in Nat
      BY <3>1
    <3>3. buckets' = [Swept(l) EXCEPT ![<<l, ip>>] = Fresh(@, l) \union {Len(admitted')}]
      BY <1>2, <2>3, Zenon DEF RateLimit
    <3>4. buckets' \in [Limiters \X Ips -> SUBSET Nat]
      BY <2>2, <3>2, <3>3 DEF Fresh
    <3> QED BY <2>1, <3>1, <3>4
  <2>4. CASE ~Admits(l, ip)
    BY <1>2, <2>1, <2>2, <2>4 DEF RateLimit, TypeInv
  <2> QED BY <2>3, <2>4
<1> QED BY <1>1, <1>2 DEF LimitMoves

-----------------------------------------------------------------------------
(* The sliding windows.  What a limiter with the shortest window must count *)
(* is never swept from its bucket, so a request is let through only when    *)
(* every window that ends with it has room.                                 *)

Shortest(l) == \A m \in Limiters : Window[l] <= Window[m]

Counted(l, ip) == {i \in DOMAIN admitted : /\ admitted[i].limiter = l /\ admitted[i].ip = ip
                                           /\ now - admitted[i].at < Window[l]}

BucketsKeep == \A l \in Limiters, ip \in Ips : Shortest(l) => Counted(l, ip) \subseteq buckets[<<l, ip>>]

EveryWindow == \A l \in Limiters, ip \in Ips, from \in Nat :
                 Shortest(l) => Cardinality(AdmittedIn(l, ip, from)) <= Budget[l]

LimitInv ==
  /\ \A i \in DOMAIN admitted : admitted[i].at <= now
  /\ \A k \in Limiters \X Ips : buckets[k] \subseteq DOMAIN admitted
  /\ BucketsKeep
  /\ EveryWindow

LEMMA WithoutAdmission ==
  ASSUME TypeInv, LimitInv, admitted' = admitted, now' \in Nat, now <= now',
         \A k \in Limiters \X Ips : buckets'[k] \subseteq DOMAIN admitted,
         \A l \in Limiters, ip \in Ips :
            Shortest(l) => Counted(l, ip)' \subseteq buckets'[<<l, ip>>]
  PROVE  LimitInv'
<1>1. \A i \in DOMAIN admitted' : admitted'[i].at <= now'
  <2> SUFFICES ASSUME NEW i \in DOMAIN admitted PROVE admitted[i].at <= now'
    OBVIOUS
  <2>1. admitted[i] \in Admissions
    BY DEF TypeInv
  <2> QED BY <2>1 DEF LimitInv, Admissions, TypeInv
<1>2. EveryWindow'
  BY DEF LimitInv, EveryWindow, AdmittedIn, Shortest
<1>3. BucketsKeep'
  BY DEF BucketsKeep, Shortest
<1> QED BY <1>1, <1>2, <1>3 DEF LimitInv

LEMMA SweepKeeps ==
  ASSUME TypeInv, LimitInv, NEW s \in Limiters, NEW l \in Limiters, NEW ip \in Ips
  PROVE  /\ Swept(s)[<<l, ip>>] \subseteq DOMAIN admitted
         /\ Shortest(l) => Counted(l, ip) \subseteq Swept(s)[<<l, ip>>]
<1>1. <<l, ip>> \in DOMAIN buckets /\ buckets[<<l, ip>>] \subseteq DOMAIN admitted
  BY DEF TypeInv, LimitInv
<1>2. Swept(s)[<<l, ip>>] = IF now - lastSweep < Window[s] THEN buckets[<<l, ip>>]
                                                      ELSE Fresh(buckets[<<l, ip>>], s)
  BY <1>1 DEF Swept
<1>3. Shortest(l) => Counted(l, ip) \subseteq buckets[<<l, ip>>]
  BY DEF LimitInv, BucketsKeep
<1>4. Shortest(l) => Counted(l, ip) \subseteq Fresh(buckets[<<l, ip>>], s)
  <2> SUFFICES ASSUME Shortest(l), NEW i \in Counted(l, ip)
               PROVE  now - admitted[i].at < Window[s]
    BY <1>3 DEF Fresh
  <2>1. i \in DOMAIN admitted /\ now - admitted[i].at < Window[l]
    BY DEF Counted
  <2>2. admitted[i] \in Admissions
    BY <2>1 DEF TypeInv
  <2>3. admitted[i].at \in Nat /\ now \in Nat
    BY <2>2 DEF TypeInv, Admissions
  <2>4. Window[l] \in Nat /\ Window[s] \in Nat /\ Window[l] <= Window[s]
    BY Assumptions DEF Shortest
  <2> QED BY <2>1, <2>3, <2>4
<1>5. Fresh(buckets[<<l, ip>>], s) \subseteq buckets[<<l, ip>>]
  BY DEF Fresh
<1> QED BY <1>1, <1>2, <1>3, <1>4, <1>5

LEMMA AdmissionFits ==
  ASSUME TypeInv, LimitInv, NEW l \in Limiters, NEW ip \in Ips, Shortest(l),
         Admits(l, ip), NEW from \in Nat, now < from + Window[l]
  PROVE  /\ IsFiniteSet(AdmittedIn(l, ip, from))
         /\ Cardinality(AdmittedIn(l, ip, from)) < Budget[l]
<1> DEFINE held == Fresh(Swept(l)[<<l, ip>>], l)
<1>1. held \subseteq DOMAIN admitted
  BY SweepKeeps DEF Fresh
<1>2. IsFiniteSet(DOMAIN admitted)
  BY FS_Interval DEF TypeInv
<1>3. IsFiniteSet(held)
  BY <1>1, <1>2, FS_Subset
<1>4. AdmittedIn(l, ip, from) \subseteq held
  <2> SUFFICES ASSUME NEW i \in AdmittedIn(l, ip, from) PROVE i \in held
    OBVIOUS
  <2>1. /\ i \in DOMAIN admitted /\ admitted[i].limiter = l /\ admitted[i].ip = ip
        /\ admitted[i].at >= from
    BY DEF AdmittedIn
  <2>2. admitted[i] \in Admissions
    BY <2>1 DEF TypeInv
  <2>3. admitted[i].at \in Nat /\ now \in Nat /\ Window[l] \in Nat
    BY <2>2, Assumptions DEF TypeInv, Admissions
  <2>4. now - admitted[i].at < Window[l]
    BY <2>1, <2>3
  <2>5. i \in Counted(l, ip)
    BY <2>1, <2>4 DEF Counted
  <2> QED BY <2>4, <2>5, SweepKeeps DEF Fresh
<1>5. Cardinality(held) < Budget[l]
  BY DEF Admits
<1>6. /\ IsFiniteSet(AdmittedIn(l, ip, from))
      /\ Cardinality(AdmittedIn(l, ip, from)) <= Cardinality(held)
  BY <1>3, <1>4, FS_Subset
<1>7. Cardinality(AdmittedIn(l, ip, from)) \in Nat /\ Cardinality(held) \in Nat
  BY <1>3, <1>6, FS_CardinalityType
<1> HIDE DEF held
<1> QED BY <1>5, <1>6, <1>7, Assumptions

LEMMA WithAdmission ==
  ASSUME TypeInv, LimitInv, NEW l \in Limiters, NEW ip \in Ips, RateLimit(l, ip),
         now' = now, Admits(l, ip)
  PROVE  LimitInv'
<1> DEFINE r == [limiter |-> l, ip |-> ip, at |-> now]
           n == Len(admitted) + 1
<1>1. admitted' = Append(admitted, r)
  BY DEF RateLimit
<1>2. /\ DOMAIN admitted' = DOMAIN admitted \cup {n} /\ Len(admitted') = n /\ n \notin DOMAIN admitted
      /\ admitted'[n] = r /\ \A i \in DOMAIN admitted : admitted'[i] = admitted[i]
  BY <1>1 DEF TypeInv
<1>3. \A i \in DOMAIN admitted' : admitted'[i].at <= now'
  BY <1>2 DEF LimitInv, TypeInv
<1>4. ASSUME NEW m \in Limiters, NEW a \in Ips
      PROVE  /\ Swept(l)[<<m, a>>] \subseteq DOMAIN admitted
             /\ buckets'[<<m, a>>] = IF m = l /\ a = ip THEN Fresh(Swept(l)[<<m, a>>], l) \union {n}
                                                      ELSE Swept(l)[<<m, a>>]
  <2>1. Swept(l) \in [Limiters \X Ips -> SUBSET Nat]
    BY DEF Swept, Fresh, TypeInv
  <2>2. buckets' = [Swept(l) EXCEPT ![<<l, ip>>] = Fresh(@, l) \union {n}]
    BY <1>2 DEF RateLimit
  <2>3. <<m, a>> = <<l, ip>> <=> m = l /\ a = ip
    OBVIOUS
  <2> QED BY <2>1, <2>2, <2>3, SweepKeeps
<1>5. \A k \in Limiters \X Ips : buckets'[k] \subseteq DOMAIN admitted'
  <2> SUFFICES ASSUME NEW m \in Limiters, NEW a \in Ips
               PROVE  buckets'[<<m, a>>] \subseteq DOMAIN admitted'
    OBVIOUS
  <2> QED BY <1>2, <1>4 DEF Fresh
<1>6. BucketsKeep'
  <2> SUFFICES ASSUME NEW m \in Limiters, NEW a \in Ips, Shortest(m), NEW i \in Counted(m, a)'
               PROVE  i \in buckets'[<<m, a>>]
    BY DEF BucketsKeep, Shortest
  <2>1. /\ i \in DOMAIN admitted' /\ admitted'[i].limiter = m /\ admitted'[i].ip = a
        /\ now - admitted'[i].at < Window[m]
    BY DEF Counted
  <2>2. CASE i = n
    <3>1. m = l /\ a = ip
      BY <1>2, <2>1, <2>2
    <3> QED BY <1>4, <2>2, <3>1
  <2>3. CASE i # n
    <3>1. i \in DOMAIN admitted /\ admitted'[i] = admitted[i]
      BY <1>2, <2>1, <2>3
    <3>2. i \in Counted(m, a)
      BY <2>1, <3>1 DEF Counted
    <3>3. i \in Swept(l)[<<m, a>>]
      BY <3>2, SweepKeeps
    <3>4. m = l => i \in Fresh(Swept(l)[<<m, a>>], l)
      BY <2>1, <3>1, <3>3 DEF Fresh
    <3> QED BY <1>4, <3>3, <3>4
  <2> QED BY <2>2, <2>3
<1>7. EveryWindow'
  <2> SUFFICES ASSUME NEW m \in Limiters, NEW a \in Ips, NEW from \in Nat, Shortest(m)
               PROVE  Cardinality(AdmittedIn(m, a, from)') <= Budget[m]
    BY DEF EveryWindow, Shortest
  <2>1. Cardinality(AdmittedIn(m, a, from)) <= Budget[m]
    BY DEF LimitInv, EveryWindow
  <2>2. CASE m = l /\ a = ip /\ from <= now /\ now < from + Window[l]
    <3>1. AdmittedIn(m, a, from)' = AdmittedIn(m, a, from) \cup {n}
      BY <1>2, <2>2 DEF AdmittedIn, TypeInv
    <3>2. /\ IsFiniteSet(AdmittedIn(m, a, from))
          /\ Cardinality(AdmittedIn(m, a, from)) < Budget[m]
      BY <2>2, AdmissionFits
    <3>3. n \notin AdmittedIn(m, a, from)
      BY <1>2 DEF AdmittedIn
    <3>4. Cardinality(AdmittedIn(m, a, from)') = Cardinality(AdmittedIn(m, a, from)) + 1
      BY <3>1, <3>2, <3>3, FS_AddElement
    <3>5. Cardinality(AdmittedIn(m, a, from)) \in Nat
      BY <3>2, FS_CardinalityType
    <3> QED BY <3>2, <3>4, <3>5, Assumptions
  <2>3. CASE ~(m = l /\ a = ip /\ from <= now /\ now < from + Window[l])
    <3>1. AdmittedIn(m, a, from)' = AdmittedIn(m, a, from)
      BY <1>2, <2>3 DEF AdmittedIn, TypeInv
    <3> QED BY <2>1, <3>1
  <2> QED BY <2>2, <2>3
<1> QED BY <1>3, <1>5, <1>6, <1>7 DEF LimitInv

LEMMA LimitStep ==
  ASSUME TypeInv, LimitInv, LimitMoves
  PROVE  LimitInv'
<1>1. CASE Clock /\ UNCHANGED limitVars
  <2>1. now' \in Nat /\ now <= now' /\ admitted' = admitted /\ buckets' = buckets
    BY <1>1 DEF Clock, limitVars, TypeInv
  <2>2. ASSUME NEW l \in Limiters, NEW ip \in Ips, Shortest(l)
        PROVE  Counted(l, ip)' \subseteq buckets'[<<l, ip>>]
    <3>0. Counted(l, ip) \subseteq buckets'[<<l, ip>>]
      BY <2>1, <2>2 DEF LimitInv, BucketsKeep
    <3> SUFFICES ASSUME NEW i \in Counted(l, ip)' PROVE i \in Counted(l, ip)
      BY <3>0
    <3>1. /\ i \in DOMAIN admitted /\ admitted[i].limiter = l /\ admitted[i].ip = ip
          /\ now' - admitted[i].at < Window[l]
      BY <2>1 DEF Counted
    <3>2. admitted[i] \in Admissions
      BY <3>1 DEF TypeInv
    <3>3. now - admitted[i].at < Window[l]
      BY <2>1, <3>1, <3>2, Assumptions DEF Admissions, TypeInv
    <3> QED BY <3>1, <3>3 DEF Counted
  <2>3. \A k \in Limiters \X Ips : buckets'[k] \subseteq DOMAIN admitted
    BY <2>1 DEF LimitInv
  <2> QED BY <2>1, <2>2, <2>3, WithoutAdmission
<1>2. ASSUME NEW l \in Limiters, NEW ip \in Ips, RateLimit(l, ip), now' = now
      PROVE  LimitInv'
  <2>1. CASE Admits(l, ip)
    BY <1>2, <2>1, WithAdmission
  <2>2. CASE ~Admits(l, ip)
    <3>1. buckets' = Swept(l) /\ admitted' = admitted
      BY <1>2, <2>2 DEF RateLimit
    <3>2. \A k \in Limiters \X Ips : buckets'[k] \subseteq DOMAIN admitted
      BY <3>1, SweepKeeps
    <3>3. \A m \in Limiters, a \in Ips :
            Shortest(m) => Counted(m, a)' \subseteq buckets'[<<m, a>>]
      BY <1>2, <3>1, SweepKeeps DEF Counted
    <3> QED BY <1>2, <3>1, <3>2, <3>3, WithoutAdmission DEF TypeInv
  <2> QED BY <2>1, <2>2
<1> QED BY <1>1, <1>2 DEF LimitMoves

-----------------------------------------------------------------------------
(* The nonces.                                                              *)

LEMMA NonceType ==
  ASSUME TypeInv, NonceMoves
  PROVE  minted' \in Seq(Nat) /\ burnt' \in Seq(Burns) /\ nonces' \in SUBSET Nat
<1>1. CASE Clock /\ UNCHANGED nonceVars
  BY <1>1 DEF nonceVars, TypeInv
<1>2. LiveNonces \subseteq Nat
  BY DEF LiveNonces, TypeInv
<1>3. CASE IssueNonce
  <2>1. minted' \in Seq(Nat) /\ burnt' = burnt
    BY <1>3 DEF IssueNonce, TypeInv
  <2>2. Len(minted') \in Nat
    BY <2>1
  <2>3. nonces' \subseteq LiveNonces \cup {Len(minted')}
    BY <1>3 DEF IssueNonce, Newest
  <2> QED BY <1>2, <2>1, <2>2, <2>3 DEF TypeInv
<1>4. ASSUME NEW n \in Nat, ConsumeNonce(n), now' = now
      PROVE  minted' \in Seq(Nat) /\ burnt' \in Seq(Burns) /\ nonces' \in SUBSET Nat
  <2>1. [nonce |-> n, at |-> now] \in Burns
    BY DEF Burns, TypeInv
  <2>2. burnt' = Append(burnt, [nonce |-> n, at |-> now]) \/ burnt' = burnt
    BY <1>4 DEF ConsumeNonce
  <2>3. burnt' \in Seq(Burns)
    <3>1. burnt \in Seq(Burns)
      BY DEF TypeInv
    <3>2. Append(burnt, [nonce |-> n, at |-> now]) \in Seq(Burns)
      BY <2>1, <3>1
    <3> QED BY <2>2, <3>1, <3>2
  <2> QED BY <1>2, <1>4, <2>3 DEF ConsumeNonce, TypeInv
<1> QED BY <1>1, <1>3, <1>4 DEF NonceMoves

NonceInv ==
  /\ \A n \in DOMAIN minted : minted[n] <= now
  /\ nonces \subseteq DOMAIN minted
  /\ \A i \in DOMAIN burnt : burnt[i].nonce \in DOMAIN minted \ nonces
  /\ NonceBurnsOnce
  /\ RecentNoncesKept

LEMMA NonceClock ==
  ASSUME TypeInv, NonceInv, Clock, UNCHANGED nonceVars
  PROVE  NonceInv'
<1>1. now' \in Nat /\ now <= now' /\ minted' = minted /\ burnt' = burnt /\ nonces' = nonces
  BY DEF Clock, nonceVars, TypeInv
<1>2. \A n \in DOMAIN minted : minted[n] \in Nat
  BY DEF TypeInv
<1>3. \A n \in DOMAIN minted' : minted'[n] <= now'
  BY <1>1, <1>2 DEF NonceInv, TypeInv
<1>4. NonceBurnsOnce'
  BY <1>1 DEF NonceInv, NonceBurnsOnce
<1>5. RecentNoncesKept'
  <2> SUFFICES ASSUME NEW n \in DOMAIN minted, n > Len(minted) - MaxNonces,
                      minted[n] + NonceTtl > now', \A i \in DOMAIN burnt : burnt[i].nonce # n
               PROVE  n \in nonces
    BY <1>1 DEF RecentNoncesKept
  <2>1. minted[n] + NonceTtl > now
    BY <1>1, <1>2, Assumptions DEF TypeInv
  <2> QED BY <2>1 DEF NonceInv, RecentNoncesKept
<1> QED BY <1>1, <1>3, <1>4, <1>5 DEF NonceInv

LEMMA NonceIssued ==
  ASSUME TypeInv, NonceInv, IssueNonce, now' = now
  PROVE  NonceInv'
<1> DEFINE k == Len(minted) + 1
           kept == Newest(LiveNonces, [n \in LiveNonces |-> n], MaxNonces - 1)
<1>1. /\ Len(minted) \in Nat /\ Len(minted') = k /\ DOMAIN minted = 1 .. Len(minted)
      /\ DOMAIN minted' = DOMAIN minted \cup {k} /\ k \notin DOMAIN minted
      /\ minted'[k] = now /\ \A n \in DOMAIN minted : minted'[n] = minted[n]
      /\ burnt' = burnt
  BY DEF IssueNonce, TypeInv
<1>2. nonces' = kept \cup {k} /\ kept \subseteq LiveNonces /\ LiveNonces \subseteq nonces
  BY <1>1 DEF IssueNonce, Newest, LiveNonces
<1>3. \A n \in DOMAIN minted' : minted'[n] <= now'
  BY <1>1 DEF NonceInv, TypeInv
<1>4. nonces' \subseteq DOMAIN minted'
  BY <1>1, <1>2 DEF NonceInv
<1>5. ASSUME NEW i \in DOMAIN burnt
      PROVE  burnt[i].nonce \in DOMAIN minted /\ burnt[i].nonce \notin nonces
  BY DEF NonceInv
<1>6. \A i \in DOMAIN burnt' : burnt'[i].nonce \in DOMAIN minted' \ nonces'
  BY <1>1, <1>2, <1>5
<1>7. NonceBurnsOnce'
  <2>1. \A i \in DOMAIN burnt : minted'[burnt[i].nonce] = minted[burnt[i].nonce]
    BY <1>1, <1>5
  <2> QED BY <1>1, <2>1 DEF NonceInv, NonceBurnsOnce
<1>8. RecentNoncesKept'
  <2> SUFFICES ASSUME NEW n \in DOMAIN minted', n > k - MaxNonces, minted'[n] + NonceTtl > now,
                      \A i \in DOMAIN burnt : burnt[i].nonce # n
               PROVE  n \in nonces'
    BY <1>1 DEF RecentNoncesKept
  <2>1. CASE n = k
    BY <1>2, <2>1
  <2>2. CASE n # k
    <3>1. n \in DOMAIN minted /\ n \in Nat /\ n <= Len(minted) /\ minted[n] + NonceTtl > now
      BY <1>1, <2>2
    <3>2. n > Len(minted) - MaxNonces /\ Len(minted) - n < MaxNonces - 1
      BY <1>1, <3>1, Assumptions
    <3>3. n \in LiveNonces
      BY <3>1, <3>2 DEF NonceInv, RecentNoncesKept, LiveNonces
    <3> DEFINE later == {y \in LiveNonces :
                           [m \in LiveNonces |-> m][y] > [m \in LiveNonces |-> m][n]}
    <3>4. later \subseteq (n + 1) .. Len(minted)
      <4>1. \A y \in LiveNonces : y \in 1 .. Len(minted)
        BY <1>1, <1>2 DEF NonceInv
      <4> QED BY <1>1, <3>1, <3>3, <4>1
    <3>5. /\ IsFiniteSet((n + 1) .. Len(minted))
          /\ Cardinality((n + 1) .. Len(minted)) = Len(minted) - n
      <4>1. n + 1 \in Int /\ Len(minted) \in Int
        BY <1>1, <3>1
      <4>2. /\ IsFiniteSet((n + 1) .. Len(minted))
            /\ Cardinality((n + 1) .. Len(minted)) =
                 IF n + 1 > Len(minted) THEN 0 ELSE Len(minted) - (n + 1) + 1
        BY <4>1, FS_Interval
      <4> QED BY <1>1, <3>1, <4>2
    <3>6. IsFiniteSet(later) /\ Cardinality(later) <= Len(minted) - n
      BY <3>4, <3>5, FS_Subset
    <3>7. Cardinality(later) \in Nat
      BY <3>6, FS_CardinalityType
    <3>8. Cardinality(later) < MaxNonces - 1
      <4> HIDE DEF later
      <4> QED BY <1>1, <3>1, <3>2, <3>6, <3>7, Assumptions
    <3>9. n \in kept
      BY <3>3, <3>8 DEF Newest
    <3> QED BY <1>2, <3>9
  <2> QED BY <2>1, <2>2
<1> QED BY <1>3, <1>4, <1>6, <1>7, <1>8 DEF NonceInv

LEMMA NonceConsumed ==
  ASSUME TypeInv, NonceInv, NEW n \in Nat, ConsumeNonce(n), now' = now
  PROVE  NonceInv'
<1>1. minted' = minted /\ nonces' = LiveNonces \ {n} /\ LiveNonces \subseteq nonces
  BY DEF ConsumeNonce, LiveNonces
<1>2. \A m \in DOMAIN minted' : minted'[m] <= now'
  BY <1>1 DEF NonceInv
<1>3. nonces' \subseteq DOMAIN minted'
  BY <1>1 DEF NonceInv
<1>4. ASSUME NEW m \in DOMAIN minted, m > Len(minted) - MaxNonces, minted[m] + NonceTtl > now,
             \A i \in DOMAIN burnt : burnt[i].nonce # m
      PROVE  m \in LiveNonces
  BY <1>4 DEF NonceInv, RecentNoncesKept, LiveNonces
<1>5. CASE n \notin LiveNonces
  <2>1. burnt' = burnt /\ nonces' = LiveNonces
    BY <1>1, <1>5 DEF ConsumeNonce
  <2>2. \A i \in DOMAIN burnt' : burnt'[i].nonce \in DOMAIN minted' \ nonces'
    BY <1>1, <2>1 DEF NonceInv
  <2>3. NonceBurnsOnce'
    BY <1>1, <2>1 DEF NonceInv, NonceBurnsOnce
  <2>4. RecentNoncesKept'
    BY <1>1, <1>4, <2>1 DEF RecentNoncesKept
  <2> QED BY <1>2, <1>3, <2>2, <2>3, <2>4 DEF NonceInv
<1>6. CASE n \in LiveNonces
  <2> DEFINE b == Len(burnt) + 1
  <2>1. burnt' = Append(burnt, [nonce |-> n, at |-> now])
    BY <1>6 DEF ConsumeNonce
  <2>2. /\ DOMAIN burnt' = DOMAIN burnt \cup {b} /\ b \notin DOMAIN burnt
        /\ burnt'[b].nonce = n /\ burnt'[b].at = now
        /\ \A i \in DOMAIN burnt : burnt'[i] = burnt[i]
    BY <2>1 DEF TypeInv
  <2>3. n \in DOMAIN minted /\ n \in nonces /\ minted[n] + NonceTtl > now
    BY <1>1, <1>6 DEF NonceInv, LiveNonces
  <2>4. now - minted[n] < NonceTtl
    <3>1. minted[n] \in Nat /\ now \in Nat
      BY <2>3 DEF TypeInv
    <3> QED BY <2>3, <3>1, Assumptions
  <2>5. \A i \in DOMAIN burnt : burnt[i].nonce \in DOMAIN minted /\ burnt[i].nonce \notin nonces
    BY DEF NonceInv
  <2>6. \A i \in DOMAIN burnt : burnt[i].nonce # n
    BY <2>3, <2>5
  <2>7. \A i \in DOMAIN burnt' : burnt'[i].nonce \in DOMAIN minted' \ nonces'
    BY <1>1, <2>2, <2>3, <2>5
  <2>8. NonceBurnsOnce'
    <3>1. \A i \in DOMAIN burnt' : burnt'[i].at - minted[burnt'[i].nonce] < NonceTtl
      BY <2>2, <2>4 DEF NonceInv, NonceBurnsOnce
    <3>2. ASSUME NEW i \in DOMAIN burnt', NEW j \in DOMAIN burnt',
                 burnt'[j].nonce = burnt'[i].nonce
          PROVE  j = i
      <4>1. i = b <=> j = b
        BY <2>2, <2>6, <3>2
      <4>2. CASE i # b
        <5>1. i \in DOMAIN burnt /\ j \in DOMAIN burnt /\ burnt[j].nonce = burnt[i].nonce
          BY <2>2, <3>2, <4>1, <4>2
        <5> QED BY <5>1 DEF NonceInv, NonceBurnsOnce
      <4> QED BY <4>1, <4>2
    <3> QED BY <1>1, <3>1, <3>2 DEF NonceBurnsOnce
  <2>9. RecentNoncesKept'
    <3> SUFFICES ASSUME NEW m \in DOMAIN minted, m > Len(minted) - MaxNonces,
                        minted[m] + NonceTtl > now, \A i \in DOMAIN burnt' : burnt'[i].nonce # m
                 PROVE  m \in LiveNonces /\ m # n
      BY <1>1 DEF RecentNoncesKept
    <3>1. m # n /\ \A i \in DOMAIN burnt : burnt[i].nonce # m
      BY <2>2
    <3> QED BY <1>4, <3>1
  <2> QED BY <1>2, <1>3, <2>7, <2>8, <2>9 DEF NonceInv
<1> QED BY <1>5, <1>6

LEMMA NonceStep ==
  ASSUME TypeInv, NonceInv, NonceMoves
  PROVE  NonceInv'
BY NonceClock, NonceIssued, NonceConsumed DEF NonceMoves

-----------------------------------------------------------------------------
(* The passcodes: what the stores may do to an entry.                       *)

LEMMA NoCodeEntry == NoCode \in Entries /\ NoCode.code = 0
BY DEF NoCode, Entries

LEMMA LiveEntries ==
  ASSUME TypeInv
  PROVE  /\ LiveOtp \in [Phones -> Entries]
         /\ \A p \in Phones :
              LiveOtp[p] = IF otp[p] # NoCode /\ sends[otp[p].code].at + OtpTtl > now
                           THEN otp[p] ELSE NoCode
BY NoCodeEntry DEF LiveOtp, IssuedAt, TypeInv

LEMMA TrimmedEntries ==
  ASSUME NEW store \in [Phones -> Entries]
  PROVE  /\ Trimmed(store) \in [Phones -> Entries]
         /\ \A p \in Phones : Trimmed(store)[p] \in {store[p], NoCode}
BY NoCodeEntry DEF Trimmed

\* A store that is not full gives nothing up.
LEMMA RoomyEntries ==
  ASSUME NEW store \in [Phones -> Entries], IsFiniteSet(Held(store)),
         Cardinality(Held(store)) < MaxEntries, NEW p \in Held(store)
  PROVE  Trimmed(store)[p] = store[p]
<1> DEFINE place == [q \in Phones |-> store[q].place]
           above == {y \in Held(store) : place[y] > place[p]}
<1>1. p \in Phones /\ p \notin above
  BY DEF Held, Entries
<1>2. above \subseteq Held(store) \ {p}
  BY <1>1
<1>3. /\ IsFiniteSet(Held(store) \ {p})
      /\ Cardinality(Held(store) \ {p}) = Cardinality(Held(store)) - 1
  BY FS_RemoveElement
<1>4. IsFiniteSet(above) /\ Cardinality(above) <= Cardinality(Held(store) \ {p})
  BY <1>2, <1>3, FS_Subset
<1>5. Cardinality(above) \in Nat /\ Cardinality(Held(store)) \in Nat
  BY <1>4, FS_CardinalityType
<1>6. Cardinality(above) < MaxEntries - 1
  <2> HIDE DEF above
  <2> QED BY <1>3, <1>4, <1>5, Assumptions
<1>7. p \in Newest(Held(store), place, MaxEntries - 1)
  BY <1>6 DEF Newest
<1> QED BY <1>1, <1>7 DEF Trimmed

LEMMA OtpType ==
  ASSUME TypeInv, OtpMoves
  PROVE  sends' \in Seq(Sends) /\ guesses' \in Seq(Guesses) /\ otp' \in [Phones -> Entries]
<1>1. CASE Clock /\ UNCHANGED otpVars
  BY <1>1 DEF otpVars, TypeInv
<1>2. ASSUME NEW p \in Phones, IssueOtp(p)
      PROVE  sends' \in Seq(Sends) /\ guesses' \in Seq(Guesses) /\ otp' \in [Phones -> Entries]
  <2>1. [phone |-> p, at |-> now] \in Sends
    BY DEF Sends, TypeInv
  <2>2. sends' = Append(sends, [phone |-> p, at |-> now])
    BY <1>2 DEF IssueOtp
  <2>3. sends' \in Seq(Sends) /\ Len(sends') \in Nat
    BY <2>1, <2>2 DEF TypeInv
  <2>4. Trimmed(LiveOtp) \in [Phones -> Entries]
    BY LiveEntries, TrimmedEntries
  <2>5. otp' = Put(Trimmed(LiveOtp), p, Len(sends'))
    BY <1>2 DEF IssueOtp
  <2>6. otp' \in [Phones -> Entries]
    <3> DEFINE t == Trimmed(LiveOtp)
               e == [code |-> Len(sends'), attempts |-> 0,
                     place |-> IF t[p] = NoCode THEN Len(sends') ELSE t[p].place]
    <3>1. e \in Entries
      BY <2>3, <2>4 DEF Entries
    <3>2. otp' = [t EXCEPT ![p] = e]
      BY <2>5 DEF Put
    <3> HIDE DEF t, e
    <3> QED BY <2>4, <3>1, <3>2 DEF t
  <2> QED BY <1>2, <2>3, <2>6 DEF IssueOtp, TypeInv
<1>3. ASSUME NEW p \in Phones, NEW code \in Nat, TryOtp(p, code), now' = now
      PROVE  sends' \in Seq(Sends) /\ guesses' \in Seq(Guesses) /\ otp' \in [Phones -> Entries]
  <2>1. LiveOtp \in [Phones -> Entries] /\ LiveOtp[p] \in Entries
    BY LiveEntries
  <2>2. CASE Compare(p, code)
    <3> DEFINE g == [code |-> LiveOtp[p].code, right |-> code = LiveOtp[p].code, at |-> now]
    <3>1. g \in Guesses
      <4>1. LiveOtp[p].code \in Nat /\ now \in Nat
        BY <2>1 DEF Entries, TypeInv
      <4> QED BY <4>1 DEF Guesses
    <3>2. guesses' = Append(guesses, g)
      BY <2>2 DEF Compare
    <3>3. guesses' \in Seq(Guesses)
      <4> HIDE DEF g
      <4> QED BY <3>1, <3>2 DEF TypeInv
    <3>4. [LiveOtp[p] EXCEPT !.attempts = LiveOtp[p].attempts + 1] \in Entries
      BY <2>1 DEF Entries
    <3>5. otp' \in [Phones -> Entries]
      BY <2>1, <2>2, <3>4, NoCodeEntry DEF Compare
    <3> QED BY <1>3, <3>3, <3>5 DEF TryOtp, TypeInv
  <2>3. CASE ~Compare(p, code)
    BY <1>3, <2>1, <2>3, NoCodeEntry DEF TryOtp, TypeInv
  <2> QED BY <2>2, <2>3
<1> QED BY <1>1, <1>2, <1>3 DEF OtpMoves

LEMMA TypeStep == TypeInv /\ [Next]_vars => TypeInv'
BY StepMoves, LimitType, OtpType, NonceType DEF TypeInv

-----------------------------------------------------------------------------
(* An outstanding code is the last one sent to its number, its attempts are *)
(* the guesses made for it, and none of them was right.  The last code sent *)
(* to a number within the cooldown is outstanding unless it is used up.     *)

GuessesOn(c) == {i \in DOMAIN guesses : guesses[i].code = c}
RightOn(c)   == \E i \in DOMAIN guesses : guesses[i].code = c /\ guesses[i].right
Done(c)      == RightOn(c) \/ Cardinality(GuessesOn(c)) = OtpAttempts
LastSent(c)  == \A d \in DOMAIN sends : sends[d].phone = sends[c].phone => d <= c
Few          == Cardinality({sends[i].phone : i \in DOMAIN sends}) < MaxEntries

Histories ==
  /\ \A c \in DOMAIN sends : sends[c].at <= now
  /\ \A i \in DOMAIN guesses : guesses[i].code \in DOMAIN sends /\ guesses[i].at <= now

Outstanding(p, e) ==
  e # NoCode => /\ e.code \in DOMAIN sends /\ sends[e.code].phone = p /\ LastSent(e.code)
                /\ e.attempts = Cardinality(GuessesOn(e.code)) /\ e.attempts < OtpAttempts
                /\ ~RightOn(e.code)

HeldCodes == \A p \in Phones : Outstanding(p, otp[p])

LastIsHeld ==
  Few => \A c \in DOMAIN sends :
           (LastSent(c) /\ sends[c].at + Cooldown > now) => otp[sends[c].phone].code = c \/ Done(c)

OtpInv == Histories /\ HeldCodes /\ LastIsHeld /\ GuessesPerCode /\ CodeOpensOnce /\ SendsAreSpaced

LEMMA HistoryTypes ==
  ASSUME TypeInv
  PROVE  /\ now \in Nat /\ Len(sends) \in Nat /\ DOMAIN sends = 1 .. Len(sends)
         /\ \A c \in DOMAIN sends : sends[c] \in Sends /\ sends[c].phone \in Phones /\ sends[c].at \in Nat
         /\ \A i \in DOMAIN guesses : /\ guesses[i] \in Guesses /\ guesses[i].code \in Nat
                                       /\ guesses[i].at \in Nat /\ guesses[i].right \in BOOLEAN
         /\ \A p \in Phones : otp[p].code \in Nat /\ otp[p].attempts \in Nat /\ otp[p].place \in Nat
<1>1. /\ now \in Nat /\ Len(sends) \in Nat /\ DOMAIN sends = 1 .. Len(sends)
      /\ \A c \in DOMAIN sends : sends[c] \in Sends
      /\ \A i \in DOMAIN guesses : guesses[i] \in Guesses
      /\ \A p \in Phones : otp[p] \in Entries
  BY DEF TypeInv
<1> QED BY <1>1 DEF Sends, Guesses, Entries

LEMMA GuessesFinite ==
  ASSUME TypeInv, NEW c
  PROVE  IsFiniteSet(GuessesOn(c)) /\ Cardinality(GuessesOn(c)) \in Nat
<1>1. IsFiniteSet(DOMAIN guesses)
  BY FS_Interval DEF TypeInv
<1>2. IsFiniteSet(GuessesOn(c))
  BY <1>1, FS_Subset DEF GuessesOn
<1> QED BY <1>2, FS_CardinalityType

\* While few numbers were sent a code, the store has room for all of them.
LEMMA HeldAreFew ==
  ASSUME TypeInv, HeldCodes, Few, NEW store \in [Phones -> Entries],
         \A p \in Phones : store[p] \in {otp[p], NoCode}
  PROVE  IsFiniteSet(Held(store)) /\ Cardinality(Held(store)) < MaxEntries
<1> DEFINE S == {sends[i].phone : i \in DOMAIN sends}
           f == [i \in DOMAIN sends |-> sends[i].phone]
<1>1. IsFiniteSet(DOMAIN sends)
  BY FS_Interval DEF TypeInv
<1>2. f \in Surjection(DOMAIN sends, S)
  BY DEF Surjection
<1>3. IsFiniteSet(S)
  BY <1>1, <1>2, FS_Surjection
<1>4. Held(store) \subseteq S
  BY DEF Held, HeldCodes, Outstanding
<1>5. IsFiniteSet(Held(store)) /\ Cardinality(Held(store)) <= Cardinality(S)
  BY <1>3, <1>4, FS_Subset
<1>6. Cardinality(S) \in Nat /\ Cardinality(Held(store)) \in Nat /\ Cardinality(S) < MaxEntries
  BY <1>3, <1>5, FS_CardinalityType DEF Few
<1> HIDE DEF S
<1> QED BY <1>5, <1>6, Assumptions

LEMMA OtpDropped ==
  ASSUME TypeInv, OtpInv, sends' = sends, guesses' = guesses, now' \in Nat, now <= now',
         \A p \in Phones : otp'[p] \in {otp[p], NoCode},
         \A p \in Phones : (otp[p] # NoCode /\ sends[otp[p].code].at + OtpTtl > now')
                              => otp'[p] = otp[p]
  PROVE  OtpInv'
<1>1. Histories'
  BY HistoryTypes DEF OtpInv, Histories
<1>2. HeldCodes'
  <2> SUFFICES ASSUME NEW p \in Phones PROVE Outstanding(p, otp[p])'
    BY DEF HeldCodes
  <2>1. CASE otp'[p] = NoCode
    BY <2>1, NoCodeEntry DEF Outstanding, NoCode
  <2>2. CASE otp'[p] = otp[p]
    BY <2>2 DEF OtpInv, HeldCodes, Outstanding, LastSent, GuessesOn, RightOn
  <2> QED BY <2>1, <2>2
<1>3. LastIsHeld'
  <2> SUFFICES ASSUME Few, NEW c \in DOMAIN sends, LastSent(c), sends[c].at + Cooldown > now'
               PROVE  otp'[sends[c].phone].code = c \/ Done(c)
    BY DEF LastIsHeld, Few, LastSent, Done, RightOn, GuessesOn
  <2> DEFINE p == sends[c].phone
  <2>1. sends[c].at \in Nat /\ p \in Phones /\ c \in Nat /\ c # 0
    BY HistoryTypes
  <2>2. sends[c].at + Cooldown > now /\ sends[c].at + OtpTtl > now'
    BY <2>1, Assumptions, HistoryTypes
  <2>3. otp[p].code = c \/ Done(c)
    BY <2>2 DEF OtpInv, LastIsHeld
  <2>4. CASE otp[p].code = c
    <3>1. otp[p] # NoCode
      BY <2>1, <2>4, NoCodeEntry
    <3>2. otp'[p] = otp[p]
      BY <2>1, <2>2, <2>4, <3>1
    <3> QED BY <2>4, <3>2
  <2> QED BY <2>3, <2>4
<1>4. GuessesPerCode' /\ CodeOpensOnce' /\ SendsAreSpaced'
  BY DEF OtpInv, GuessesPerCode, CodeOpensOnce, SendsAreSpaced
<1> QED BY <1>1, <1>2, <1>3, <1>4 DEF OtpInv

LEMMA OtpIssued ==
  ASSUME TypeInv, OtpInv, NEW p \in Phones, ~CoolingDown(p), IssueOtp(p), now' = now
  PROVE  OtpInv'
<1> DEFINE d == Len(sends) + 1
           t == Trimmed(LiveOtp)
<1>1. sends' = Append(sends, [phone |-> p, at |-> now]) /\ guesses' = guesses
  BY DEF IssueOtp
<1>2. /\ d \in Nat /\ Len(sends') = d /\ DOMAIN sends' = DOMAIN sends \cup {d}
      /\ d \notin DOMAIN sends /\ \A c \in DOMAIN sends : c \in Nat /\ c < d /\ c # 0
      /\ sends'[d].phone = p /\ sends'[d].at = now
      /\ \A c \in DOMAIN sends : sends'[c] = sends[c]
  BY <1>1, HistoryTypes DEF TypeInv
<1>3. t \in [Phones -> Entries] /\ \A q \in Phones : t[q] \in {otp[q], NoCode}
  BY LiveEntries, TrimmedEntries
<1>4. /\ otp'[p].code = d /\ otp'[p].attempts = 0
      /\ \A q \in Phones : q # p => otp'[q] = t[q]
  BY <1>2, <1>3 DEF IssueOtp, Put
<1>5. /\ \A c : GuessesOn(c)' = GuessesOn(c) /\ (RightOn(c)' <=> RightOn(c))
      /\ GuessesOn(d) = {} /\ ~RightOn(d)
  BY <1>1, <1>2 DEF GuessesOn, RightOn, OtpInv, Histories
<1>6. Cardinality(GuessesOn(d)) = 0
  BY <1>5, FS_EmptySet
<1>7. Histories'
  <2>1. \A c \in DOMAIN sends' : sends'[c].at <= now'
    BY <1>2, HistoryTypes DEF OtpInv, Histories
  <2>2. \A i \in DOMAIN guesses' : guesses'[i].code \in DOMAIN sends' /\ guesses'[i].at <= now'
    BY <1>1, <1>2 DEF OtpInv, Histories
  <2> QED BY <2>1, <2>2 DEF Histories
<1>8. HeldCodes'
  <2> SUFFICES ASSUME NEW q \in Phones PROVE Outstanding(q, otp[q])'
    BY DEF HeldCodes
  <2>1. CASE q = p
    <3>1. PICK k \in Nat : k = d
      BY <1>2
    <3>2. LastSent(k)'
      BY <1>2, <3>1 DEF LastSent
    <3>3. k \in DOMAIN sends' /\ sends'[k].phone = p
      BY <1>2, <3>1
    <3>4. Cardinality(GuessesOn(k)') = 0 /\ 0 < OtpAttempts /\ ~RightOn(k)'
      BY <1>5, <1>6, <3>1, Assumptions
    <3>5. otp'[p].code = k /\ otp'[p].attempts = 0
      BY <1>4, <3>1
    <3> QED BY <2>1, <3>2, <3>3, <3>4, <3>5 DEF Outstanding, GuessesOn, RightOn, LastSent
  <2>2. CASE q # p /\ otp'[q] = NoCode
    BY <2>2, NoCodeEntry DEF Outstanding, NoCode
  <2>3. CASE q # p /\ otp'[q] # NoCode
    <3> DEFINE c == otp[q].code
    <3>1. otp'[q] = otp[q] /\ Outstanding(q, otp[q]) /\ otp[q] # NoCode
      BY <1>3, <1>4, <2>3 DEF OtpInv, HeldCodes
    <3>2. c \in DOMAIN sends /\ sends[c].phone = q /\ LastSent(c)
      BY <3>1 DEF Outstanding
    <3>3. c \in DOMAIN sends' /\ sends'[c].phone = q
      BY <1>2, <3>2
    <3>4. LastSent(c)'
      BY <1>2, <2>3, <3>1, <3>2 DEF LastSent
    <3>5. /\ otp[q].attempts = Cardinality(GuessesOn(c)') /\ otp[q].attempts < OtpAttempts
          /\ ~RightOn(c)'
      BY <1>5, <3>1 DEF Outstanding
    <3> QED BY <3>1, <3>3, <3>4, <3>5 DEF Outstanding, GuessesOn, RightOn
  <2> QED BY <2>1, <2>2, <2>3
<1>9. Few' => Few
  <2> DEFINE S == {sends[i].phone : i \in DOMAIN sends}
             T == {sends'[i].phone : i \in DOMAIN sends'}
             f == [i \in DOMAIN sends' |-> sends'[i].phone]
  <2>1. S \subseteq T
    BY <1>2
  <2>2. DOMAIN sends' = 1 .. d
    BY <1>1, <1>2 DEF TypeInv
  <2>3. IsFiniteSet(DOMAIN sends')
    BY <1>2, <2>2, FS_Interval
  <2>4. f \in Surjection(DOMAIN sends', T)
    BY DEF Surjection
  <2>5. IsFiniteSet(T)
    BY <2>3, <2>4, FS_Surjection
  <2>6. Cardinality(S) <= Cardinality(T) /\ IsFiniteSet(S)
    BY <2>1, <2>5, FS_Subset
  <2>7. Cardinality(S) \in Nat /\ Cardinality(T) \in Nat
    BY <2>5, <2>6, FS_CardinalityType
  <2>8. Few <=> Cardinality(S) < MaxEntries
    BY DEF Few
  <2>9. Few' <=> Cardinality(T) < MaxEntries
    BY DEF Few
  <2> HIDE DEF S, T
  <2> QED BY <2>6, <2>7, <2>8, <2>9, Assumptions
<1>10. LastIsHeld'
  <2> SUFFICES ASSUME Few', NEW c \in DOMAIN sends', LastSent(c)', sends'[c].at + Cooldown > now
               PROVE  otp'[sends'[c].phone].code = c \/ Done(c)
    BY <1>5 DEF LastIsHeld, Done
  <2>1. CASE c = d
    BY <1>2, <1>4, <2>1
  <2>2. CASE c # d
    <3> DEFINE q == sends[c].phone
    <3>1. c \in DOMAIN sends /\ sends'[c] = sends[c] /\ q \in Phones /\ sends[c].at \in Nat
          /\ c \in Nat /\ c # 0 /\ c < d
      BY <1>2, <2>2, HistoryTypes
    <3>2. q # p
      <4>1. q = p => d <= c
        BY <1>2, <3>1 DEF LastSent
      <4> QED BY <1>2, <3>1, <4>1
    <3>3. LastSent(c)
      BY <1>2, <3>1 DEF LastSent
    <3>4. otp[q].code = c \/ Done(c)
      BY <1>9, <3>1, <3>3 DEF OtpInv, LastIsHeld
    <3>5. CASE otp[q].code = c
      <4>1. otp[q] # NoCode
        BY <3>1, <3>5, NoCodeEntry
      <4>2. sends[c].at + OtpTtl > now
        BY <3>1, Assumptions, HistoryTypes
      <4>3. LiveOtp[q] = otp[q] /\ q \in Held(LiveOtp)
        BY <3>1, <3>5, <4>1, <4>2, LiveEntries DEF Held
      <4>4. LiveOtp \in [Phones -> Entries] /\ \A r \in Phones : LiveOtp[r] \in {otp[r], NoCode}
        BY LiveEntries
      <4>5. IsFiniteSet(Held(LiveOtp)) /\ Cardinality(Held(LiveOtp)) < MaxEntries
        BY <1>9, <4>4, HeldAreFew DEF OtpInv
      <4>6. t[q] = otp[q]
        BY <4>3, <4>4, <4>5, RoomyEntries
      <4> QED BY <1>4, <3>1, <3>2, <3>5, <4>6
    <3> QED BY <3>1, <3>4, <3>5
  <2> QED BY <2>1, <2>2
<1>11. GuessesPerCode'
  <2> SUFFICES ASSUME NEW c \in DOMAIN sends' PROVE Cardinality(GuessesOn(c)) <= OtpAttempts
    BY <1>5 DEF GuessesPerCode, GuessesOn
  <2>1. CASE c = d
    BY <1>6, <2>1, Assumptions
  <2>2. CASE c # d
    BY <1>2, <2>2 DEF OtpInv, GuessesPerCode, GuessesOn
  <2> QED BY <2>1, <2>2
<1>12. CodeOpensOnce'
  <2> SUFFICES ASSUME NEW i \in DOMAIN guesses, guesses[i].right
               PROVE  LET c == guesses[i].code
                      IN /\ \A j \in DOMAIN guesses : guesses[j].code = c /\ guesses[j].right => j = i
                         /\ guesses[i].at - sends'[c].at < OtpTtl
                         /\ \A e \in DOMAIN sends' :
                              (e > c /\ sends'[e].phone = sends'[c].phone) => sends'[e].at >= guesses[i].at
    BY <1>1 DEF CodeOpensOnce
  <2> DEFINE c == guesses[i].code
  <2>1. c \in DOMAIN sends /\ sends'[c] = sends[c] /\ guesses[i].at <= now
    BY <1>2 DEF OtpInv, Histories
  <2>2. /\ \A j \in DOMAIN guesses : guesses[j].code = c /\ guesses[j].right => j = i
        /\ guesses[i].at - sends[c].at < OtpTtl
        /\ \A e \in DOMAIN sends :
             (e > c /\ sends[e].phone = sends[c].phone) => sends[e].at >= guesses[i].at
    BY DEF OtpInv, CodeOpensOnce
  <2>3. sends'[d].at >= guesses[i].at
    BY <1>2, <2>1, HistoryTypes
  <2> QED BY <1>2, <2>1, <2>2, <2>3
<1>13. SendsAreSpaced'
  <2> SUFFICES ASSUME Few', NEW c \in DOMAIN sends', NEW e \in DOMAIN sends', c < e,
                      sends'[c].phone = sends'[e].phone, sends'[e].at - sends'[c].at < Cooldown
               PROVE  Done(c)
    BY <1>1 DEF SendsAreSpaced, Few, Done, GuessesOn, RightOn
  <2>1. CASE e # d
    <3>1. e \in DOMAIN sends /\ c \in DOMAIN sends
      BY <1>2, <2>1
    <3> QED BY <1>2, <1>9, <3>1 DEF OtpInv, SendsAreSpaced, Few, Done, GuessesOn, RightOn
  <2>2. CASE e = d
    <3>1. c \in DOMAIN sends /\ sends[c].phone = p /\ now - sends[c].at < Cooldown
          /\ c \in Nat /\ c # 0 /\ sends[c].at \in Nat
      BY <1>2, <2>2, HistoryTypes
    <3>2. CASE LastSent(c)
      <4>1. sends[c].at + Cooldown > now
        BY <3>1, Assumptions, HistoryTypes
      <4>2. otp[p].code = c \/ Done(c)
        BY <1>9, <3>1, <3>2, <4>1 DEF OtpInv, LastIsHeld
      <4>3. otp[p].code # c
        BY <3>1, NoCodeEntry DEF CoolingDown, IssuedAt
      <4> QED BY <4>2, <4>3
    <3>3. CASE ~LastSent(c)
      <4>1. PICK f \in DOMAIN sends : sends[f].phone = sends[c].phone /\ ~(f <= c)
        BY <3>3 DEF LastSent
      <4>2. c < f /\ sends[f].at \in Nat /\ sends[f].at <= now
        BY <1>2, <3>1, <4>1, HistoryTypes DEF OtpInv, Histories
      <4>3. sends[f].at - sends[c].at < Cooldown
        BY <3>1, <4>2, Assumptions, HistoryTypes
      <4> QED BY <1>9, <3>1, <4>1, <4>2, <4>3 DEF OtpInv, SendsAreSpaced, Few, Done, GuessesOn, RightOn
    <3> QED BY <3>2, <3>3
  <2> QED BY <2>1, <2>2
<1> QED BY <1>7, <1>8, <1>10, <1>11, <1>12, <1>13 DEF OtpInv

LEMMA OtpCompared ==
  ASSUME TypeInv, OtpInv, NEW p \in Phones, NEW code \in Nat, LiveOtp[p] # NoCode,
         Compare(p, code), sends' = sends, now' = now, NEW c \in Nat, c = otp[p].code
  PROVE  OtpInv'
<1> DEFINE n == Len(guesses) + 1
           g == [code |-> c, right |-> code = c, at |-> now]
           tried == otp[p].attempts + 1
<1>1. LiveOtp[p] = otp[p] /\ otp[p] # NoCode /\ sends[c].at + OtpTtl > now
  BY LiveEntries
<1>2. /\ c \in DOMAIN sends /\ sends[c].phone = p /\ LastSent(c) /\ ~RightOn(c)
      /\ tried = Cardinality(GuessesOn(c)) + 1 /\ tried <= OtpAttempts
      /\ tried \in Nat /\ sends[c].at \in Nat
  BY <1>1, HistoryTypes, Assumptions DEF OtpInv, HeldCodes, Outstanding
<1>3. guesses' = Append(guesses, g)
  BY <1>1 DEF Compare
<1>4. /\ DOMAIN guesses' = DOMAIN guesses \cup {n} /\ n \notin DOMAIN guesses
      /\ guesses'[n].code = c /\ guesses'[n].right = (code = c) /\ guesses'[n].at = now
      /\ \A i \in DOMAIN guesses : guesses'[i] = guesses[i]
  BY <1>3 DEF TypeInv
<1>5. otp' = [LiveOtp EXCEPT ![p] = IF code = c \/ tried >= OtpAttempts THEN NoCode
                                    ELSE [otp[p] EXCEPT !.attempts = tried]]
  BY <1>1 DEF Compare
<1>6. /\ otp'[p] = IF code = c \/ tried >= OtpAttempts THEN NoCode
                   ELSE [otp[p] EXCEPT !.attempts = tried]
      /\ \A q \in Phones : q # p => otp'[q] = LiveOtp[q]
  BY <1>5, LiveEntries
<1>7. /\ GuessesOn(c)' = GuessesOn(c) \cup {n} /\ n \notin GuessesOn(c)
      /\ \A k : k # c => GuessesOn(k)' = GuessesOn(k)
  BY <1>4 DEF GuessesOn
<1>8. Cardinality(GuessesOn(c)') = tried
  <2>1. IsFiniteSet(GuessesOn(c))
    BY GuessesFinite
  <2>2. Cardinality(GuessesOn(c) \cup {n}) = Cardinality(GuessesOn(c)) + 1
    BY <1>7, <2>1, FS_AddElement
  <2> QED BY <1>2, <1>7, <2>2
<1>9. /\ RightOn(c)' <=> code = c
      /\ \A k : k # c => (RightOn(k)' <=> RightOn(k))
  BY <1>2, <1>4 DEF RightOn
<1>10. \A k : LastSent(k)' <=> LastSent(k)
  BY DEF LastSent
<1>11. Histories'
  <2>1. \A i \in DOMAIN guesses' : guesses'[i].code \in DOMAIN sends' /\ guesses'[i].at <= now'
    BY <1>2, <1>4, HistoryTypes DEF OtpInv, Histories
  <2> QED BY <2>1 DEF OtpInv, Histories
<1>12. HeldCodes'
  <2> SUFFICES ASSUME NEW q \in Phones PROVE Outstanding(q, otp[q])'
    BY DEF HeldCodes
  <2>1. CASE otp'[q] = NoCode
    BY <2>1, NoCodeEntry DEF Outstanding, NoCode
  <2>2. CASE q # p /\ otp'[q] # NoCode
    <3>1. PICK k \in Nat : k = otp[q].code
      BY HistoryTypes
    <3>2. otp'[q] = otp[q] /\ otp[q] # NoCode
      BY <1>6, <2>2, LiveEntries
    <3>3. /\ k \in DOMAIN sends /\ sends[k].phone = q /\ LastSent(k) /\ ~RightOn(k)
          /\ otp[q].attempts = Cardinality(GuessesOn(k)) /\ otp[q].attempts < OtpAttempts
      BY <3>1, <3>2 DEF OtpInv, HeldCodes, Outstanding
    <3>4. k # c
      BY <1>2, <2>2, <3>3
    <3>5. /\ k \in DOMAIN sends' /\ sends'[k].phone = q /\ LastSent(k)' /\ ~RightOn(k)'
          /\ otp'[q].attempts = Cardinality(GuessesOn(k)')
      BY <1>7, <1>9, <1>10, <3>2, <3>3, <3>4
    <3>6. otp'[q].code = k /\ otp'[q].attempts < OtpAttempts
      BY <3>1, <3>2, <3>3
    <3> QED BY <3>5, <3>6 DEF Outstanding, GuessesOn, RightOn, LastSent
  <2>3. CASE q = p /\ otp'[q] # NoCode
    <3>1. /\ otp'[p] = [otp[p] EXCEPT !.attempts = tried] /\ code # c /\ ~(tried >= OtpAttempts)
      BY <1>6, <2>3
    <3>2. otp[p] \in Entries
      BY DEF TypeInv
    <3>3. otp'[p].code = c /\ otp'[p].attempts = tried
      BY <3>1, <3>2 DEF Entries
    <3>4. tried < OtpAttempts
      BY <1>2, <3>1, Assumptions
    <3>5. /\ c \in DOMAIN sends' /\ sends'[c].phone = p /\ LastSent(c)' /\ ~RightOn(c)'
      BY <1>2, <1>9, <1>10, <3>1
    <3> QED BY <1>8, <2>3, <3>3, <3>4, <3>5 DEF Outstanding, GuessesOn, RightOn, LastSent
  <2> QED BY <2>1, <2>2, <2>3
<1>13. ASSUME NEW k \in DOMAIN sends, Done(k)
       PROVE  Done(k)'
  <2>1. k # c
    BY <1>2, <1>13, Assumptions, GuessesFinite DEF Done
  <2> QED BY <1>7, <1>9, <1>13, <2>1 DEF Done
<1>14. otp'[p].code = c \/ Done(c)'
  <2>1. CASE code = c
    BY <1>9, <2>1 DEF Done
  <2>2. CASE tried >= OtpAttempts
    <3>1. Cardinality(GuessesOn(c)') = OtpAttempts
      BY <1>2, <1>8, <2>2, Assumptions
    <3> QED BY <3>1 DEF Done
  <2>3. CASE code # c /\ ~(tried >= OtpAttempts)
    <3>1. otp'[p] = [otp[p] EXCEPT !.attempts = tried] /\ otp[p] \in Entries
      BY <1>6, <2>3 DEF TypeInv
    <3> QED BY <3>1 DEF Entries
  <2> QED BY <2>1, <2>2, <2>3
<1>15. LastIsHeld'
  <2> SUFFICES ASSUME Few, NEW k \in DOMAIN sends, LastSent(k), sends[k].at + Cooldown > now
               PROVE  otp'[sends[k].phone].code = k \/ Done(k)'
    BY <1>10 DEF LastIsHeld, Few
  <2> DEFINE q == sends[k].phone
  <2>1. q \in Phones /\ k \in Nat /\ k # 0 /\ sends[k].at \in Nat
    BY HistoryTypes
  <2>2. otp[q].code = k \/ Done(k)
    BY DEF OtpInv, LastIsHeld
  <2>3. CASE otp[q].code = k /\ q # p
    <3>1. otp[q] # NoCode
      BY <2>1, <2>3, NoCodeEntry
    <3>2. sends[k].at + OtpTtl > now
      BY <2>1, Assumptions, HistoryTypes
    <3>3. LiveOtp[q] = otp[q]
      BY <2>1, <2>3, <3>1, <3>2, LiveEntries
    <3> QED BY <1>6, <2>1, <2>3, <3>3
  <2>4. CASE otp[q].code = k /\ q = p
    BY <1>14, <2>4
  <2> QED BY <1>13, <2>2, <2>3, <2>4
<1>16. GuessesPerCode'
  <2> SUFFICES ASSUME NEW k \in DOMAIN sends PROVE Cardinality(GuessesOn(k)') <= OtpAttempts
    BY DEF GuessesPerCode, GuessesOn
  <2>1. CASE k = c
    BY <1>2, <1>8, <2>1
  <2>2. CASE k # c
    BY <1>7, <2>2 DEF OtpInv, GuessesPerCode, GuessesOn
  <2> QED BY <2>1, <2>2
<1>17. CodeOpensOnce'
  <2> SUFFICES ASSUME NEW i \in DOMAIN guesses', guesses'[i].right
               PROVE  LET k == guesses'[i].code
                      IN /\ \A j \in DOMAIN guesses' : guesses'[j].code = k /\ guesses'[j].right => j = i
                         /\ guesses'[i].at - sends[k].at < OtpTtl
                         /\ \A f \in DOMAIN sends :
                              (f > k /\ sends[f].phone = sends[k].phone) => sends[f].at >= guesses'[i].at
    BY DEF CodeOpensOnce
  <2>1. \A j \in DOMAIN guesses : guesses[j].right => guesses[j].code # c
    BY <1>2 DEF RightOn
  <2>2. CASE i = n
    <3>1. \A j \in DOMAIN guesses' : guesses'[j].code = c /\ guesses'[j].right => j = n
      BY <1>4, <2>1
    <3>2. now - sends[c].at < OtpTtl
      BY <1>1, <1>2, Assumptions, HistoryTypes
    <3>3. \A f \in DOMAIN sends : ~(f > c /\ sends[f].phone = sends[c].phone)
      BY <1>2, HistoryTypes DEF LastSent
    <3> QED BY <1>4, <2>2, <3>1, <3>2, <3>3
  <2>3. CASE i # n
    <3>1. i \in DOMAIN guesses /\ guesses'[i] = guesses[i] /\ guesses[i].code # c
      BY <1>4, <2>1, <2>3
    <3> QED BY <1>4, <3>1 DEF OtpInv, CodeOpensOnce
  <2> QED BY <2>2, <2>3
<1>18. SendsAreSpaced'
  <2> SUFFICES ASSUME Few, NEW k \in DOMAIN sends, NEW f \in DOMAIN sends, k < f,
                      sends[k].phone = sends[f].phone, sends[f].at - sends[k].at < Cooldown
               PROVE  Done(k)'
    BY DEF SendsAreSpaced, Few, Done, GuessesOn, RightOn
  <2>1. Done(k)
    BY DEF OtpInv, SendsAreSpaced, Few, Done, GuessesOn, RightOn
  <2> QED BY <1>13, <2>1
<1> QED BY <1>11, <1>12, <1>15, <1>16, <1>17, <1>18 DEF OtpInv

LEMMA OtpStep ==
  ASSUME TypeInv, OtpInv, OtpMoves
  PROVE  OtpInv'
<1>1. CASE Clock /\ UNCHANGED otpVars
  <2>1. now' \in Nat /\ now <= now' /\ sends' = sends /\ guesses' = guesses /\ otp' = otp
    BY <1>1 DEF Clock, otpVars, TypeInv
  <2> QED BY <2>1, OtpDropped
<1>2. ASSUME NEW p \in Phones, ~CoolingDown(p), IssueOtp(p), now' = now
      PROVE  OtpInv'
  BY <1>2, OtpIssued
<1>3. ASSUME NEW p \in Phones, NEW code \in Nat, TryOtp(p, code), now' = now
      PROVE  OtpInv'
  <2>1. sends' = sends
    BY <1>3 DEF TryOtp
  <2>2. CASE LiveOtp[p] # NoCode
    <3>1. otp[p] # NoCode /\ LiveOtp[p] = otp[p]
      BY <2>2, LiveEntries
    <3>2. otp[p].attempts < OtpAttempts
      BY <3>1 DEF OtpInv, HeldCodes, Outstanding
    <3>3. Compare(p, code)
      BY <1>3, <2>2, <3>1, <3>2 DEF TryOtp
    <3>4. PICK c \in Nat : c = otp[p].code
      BY HistoryTypes
    <3> QED BY <1>3, <2>1, <2>2, <3>3, <3>4, OtpCompared
  <2>3. CASE LiveOtp[p] = NoCode
    <3>1. otp' = [LiveOtp EXCEPT ![p] = NoCode] /\ guesses' = guesses
      BY <1>3, <2>3 DEF TryOtp
    <3>2. \A q \in Phones : otp'[q] = LiveOtp[q]
      BY <2>3, <3>1, LiveEntries
    <3>3. \A q \in Phones : /\ otp'[q] \in {otp[q], NoCode}
                            /\ (otp[q] # NoCode /\ sends[otp[q].code].at + OtpTtl > now')
                                 => otp'[q] = otp[q]
      BY <1>3, <3>2, LiveEntries
    <3>4. now' \in Nat /\ now <= now'
      BY <1>3 DEF TypeInv
    <3> QED BY <2>1, <3>1, <3>3, <3>4, OtpDropped
  <2> QED BY <2>2, <2>3
<1> QED BY <1>1, <1>2, <1>3 DEF OtpMoves

-----------------------------------------------------------------------------
(* The invariant of the module.                                             *)

Inv == TypeInv /\ LimitInv /\ NonceInv /\ OtpInv

LEMMA InitInv == Init => Inv
<1> SUFFICES ASSUME Init PROVE Inv
  OBVIOUS
<1>1. TypeInv
  BY Assumptions, NoCodeEntry DEF Init, TypeInv
<1>2. LimitInv
  <2>1. \A l \in Limiters, ip \in Ips, from \in Nat : AdmittedIn(l, ip, from) = {}
    BY DEF Init, AdmittedIn
  <2>2. EveryWindow
    BY <2>1, FS_EmptySet, Assumptions DEF EveryWindow
  <2> QED BY <2>2 DEF Init, LimitInv, BucketsKeep, Counted
<1>3. NonceInv
  BY DEF Init, NonceInv, NonceBurnsOnce, RecentNoncesKept
<1>4. OtpInv
  BY DEF Init, OtpInv, Histories, HeldCodes, Outstanding, LastIsHeld, GuessesPerCode,
         CodeOpensOnce, SendsAreSpaced
<1> QED BY <1>1, <1>2, <1>3, <1>4 DEF Inv

LEMMA InvStep == Inv /\ [Next]_vars => Inv'
BY StepMoves, TypeStep, LimitStep, NonceStep, OtpStep DEF Inv

LEMMA Invariance == Spec => []Inv
BY InitInv, InvStep, PTL DEF Spec

\* Every window of a limiter that starts with a request let through is one of
\* the windows the invariant counts.
LEMMA InvShortWindows == Inv => ShortWindowsHold
<1> SUFFICES ASSUME Inv, NEW l \in Limiters, Shortest(l), NEW ip \in Ips, NEW i \in DOMAIN admitted
             PROVE  Cardinality(AdmittedIn(l, ip, admitted[i].at)) <= Budget[l]
  BY DEF ShortWindowsHold, WindowHolds, Shortest
<1>1. admitted[i] \in Admissions
  BY DEF Inv, TypeInv
<1>2. admitted[i].at \in Nat
  BY <1>1 DEF Admissions
<1> QED BY <1>2 DEF Inv, LimitInv, EveryWindow

\* The variables are typed: what is outstanding and what is in the histories
\* are entries of the stores (rateLimiter.js, otpStore.js, nonceStore.js).
THEOREM TypesHold == Spec => []TypeInv
BY Invariance, PTL DEF Inv

\* For every set of limiters and windows: a limiter with the shortest window
\* lets no more than its budget through in any window (rateLimit, sweep).
THEOREM ShortWindows == Spec => []ShortWindowsHold
BY Invariance, InvShortWindows, PTL

\* A code is compared a bounded number of times and opens one login in time;
\* a nonce is accepted once and in time (verifyOtp, consumeNonce).
THEOREM CodesAndNoncesWorkOnce == Spec => []WorksOnce
<1>1. Inv => WorksOnce
  BY DEF Inv, OtpInv, NonceInv, WorksOnce
<1> QED BY Invariance, <1>1, PTL

\* While the store has room, a second code within the cooldown means that the
\* first was used up (resendCooldownRemaining, issueOtp).
THEOREM CodesAreSpaced == Spec => []SendsAreSpaced
<1>1. Inv => SendsAreSpaced
  BY DEF Inv, OtpInv
<1> QED BY Invariance, <1>1, PTL

\* The full nonce store gives up the oldest nonces only (issueNonce).
THEOREM RecentNonces == Spec => []RecentNoncesKept
<1>1. Inv => RecentNoncesKept
  BY DEF Inv, NonceInv
<1> QED BY Invariance, <1>1, PTL

=============================================================================
