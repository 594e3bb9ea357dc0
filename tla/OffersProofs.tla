---------------------------- MODULE OffersProofs ----------------------------
(***************************************************************************)
(* Proofs about Offers for every set of addresses, numbers and promos: the *)
(* two properties the run checks.  They rest on what the accounts keep     *)
(* (AnswerKept, OwnNumber) and on what emissions and records remember.     *)
(***************************************************************************)
EXTENDS Offers, TLAPS

Phones == Mobiles \cup {Landline, Junk}

UsersOK == /\ users \in [Accounts -> User \cup {None}]
           /\ said \in [Accounts -> {"nothing", "yes", "no"}]

\* A record of an account is as the customer last answered.
AnswerKept(a) == /\ Known(a) /\ users[a].optIn => said[a] = "yes"
                 /\ said[a] = "no" => Known(a) /\ users[a].optOut

\* A phone-only account has the number it is addressed by.
OwnNumber(a) == Known(a) /\ a \in Numbers => users[a].phone = Mobile(a, FALSE)

AccountsOK == UsersOK /\ \A a \in Accounts : AnswerKept(a) /\ OwnNumber(a)

\* A number on file stays: only what is no mobile is ever replaced.
StillHolds(a, to) == Known(a) /\ (to \in {Landline, Junk} \/ to = users[a].phone)

EmissionOK(e) == /\ e.account \in Accounts
                 /\ e.email # None => e.email = e.account /\ e.said # "no"
                 /\ e.sms # None => e.said = "yes" /\ StillHolds(e.account, e.sms)

RecordOK(r) == /\ r.account \in Accounts
               /\ r.channel \in {"email", "sms"}
               /\ r.channel = "email" => r.to = r.account /\ r.said # "no"
               /\ r.channel = "sms" => /\ r.said = "yes" /\ r.to # Junk
                                       /\ StillHolds(r.account, r.to)

OnePerAddress == \A r, s \in records :
                   r.promo = s.promo /\ r.channel = s.channel /\ r.to = s.to => r = s

IntakeOK == /\ \A e \in bus : EmissionOK(e)
            /\ \A r \in records : RecordOK(r)
            /\ OnePerAddress

Inv == AccountsOK /\ IntakeOK

-----------------------------------------------------------------------------
(* Phones *)

LEMMA PhoneFacts ==
  ASSUME NEW text \in Phones
  PROVE  /\ Normalized(text) = None <=> text \in {Landline, Junk}
         /\ Normalized(text) # None => Normalized(text) \in Mobiles /\ text \in Mobiles
<1>1. Landline \notin Mobiles /\ Junk \notin Mobiles
  BY OffersAssumption DEF Mobiles, Landline, Junk
<1>2. text \in Mobiles => Mobile(text.number, FALSE) \in Mobiles
  BY DEF Mobiles, Mobile
<1>3. None \notin Mobiles
  BY OffersAssumption DEF Mobiles
<1> QED BY <1>1, <1>2, <1>3 DEF Phones, Normalized

LEMMA TextsArePhones ==
  /\ Texts \subseteq Phones /\ DefaultPhone \in Phones
  /\ \A n \in Numbers : Mobile(n, FALSE) \in Phones
BY DEF Texts, Phones, Mobiles, Mobile, DefaultPhone

\* A record of an account becomes u: a new account, or the same one with its
\* mobile number.
Becomes(a, u) == /\ users' = [users EXCEPT ![a] = u]
                 /\ u \in User
                 /\ Known(a) /\ users[a].phone \notin {Landline, Junk} =>
                      u.phone = users[a].phone

\* Whose numbers emissions and records remember still holds them.
LEMMA HoldersStay ==
  ASSUME UsersOK, NEW a \in Accounts, NEW u, Becomes(a, u),
         NEW b \in Accounts, NEW to, StillHolds(b, to)
  PROVE  StillHolds(b, to)'
BY OffersAssumption DEF UsersOK, Becomes, StillHolds, Known

LEMMA IntakeStays ==
  ASSUME AccountsOK, IntakeOK, NEW a \in Accounts, NEW u, Becomes(a, u),
         UNCHANGED <<bus, records>>
  PROVE  IntakeOK'
<1>1. \A e \in bus : EmissionOK(e)'
  BY HoldersStay DEF AccountsOK, IntakeOK, EmissionOK
<1>2. \A r \in records : RecordOK(r)'
  BY HoldersStay DEF AccountsOK, IntakeOK, RecordOK
<1> QED BY <1>1, <1>2 DEF IntakeOK, OnePerAddress

-----------------------------------------------------------------------------
(* The accounts *)

LEMMA ConsentType ==
  ASSUME NEW u \in User, NEW optIn \in BOOLEAN, NEW source \in {"signup", "account-settings"}
  PROVE  LET v == SetMarketingConsent(u, optIn, source)
         IN /\ v \in User /\ v.phone = u.phone /\ v.source = source
            /\ v.optIn = optIn /\ v.optOut = ~optIn
BY DEF SetMarketingConsent, User

LEMMA AttachType ==
  ASSUME NEW u \in User, NEW text \in Phones
  PROVE  LET v == AttachPhoneIfMissing(u, text)
         IN /\ v \in User /\ v.optIn = u.optIn /\ v.optOut = u.optOut /\ v.source = u.source
            /\ u.phone \notin {Landline, Junk} => v.phone = u.phone
            /\ u.phone \in Mobiles => v.phone \in Mobiles /\ v.phone = u.phone
<1>1. u.phone \in Phones
  BY DEF User, Phones
<1>2. Normalized(u.phone) # None \/ u.phone \in {Landline, Junk}
  BY <1>1, PhoneFacts
<1>3. u.phone \in Mobiles => u.phone \notin {Landline, Junk}
  BY OffersAssumption DEF Mobiles, Landline, Junk
<1>4. Normalized(text) = None \/ Normalized(text) \in Mobiles
  BY PhoneFacts
<1>5. CASE AttachPhoneIfMissing(u, text) = u
  BY <1>5
<1>6. CASE /\ AttachPhoneIfMissing(u, text) = [u EXCEPT !.phone = Normalized(text)]
           /\ Normalized(text) # None /\ Normalized(u.phone) = None
  BY <1>2, <1>3, <1>4, <1>6 DEF User
<1> QED BY <1>5, <1>6 DEF AttachPhoneIfMissing

LEMMA AccountsStay ==
  ASSUME AccountsOK, NEW a \in Accounts, NEW u \in User, users' = [users EXCEPT ![a] = u],
         said' \in [Accounts -> {"nothing", "yes", "no"}],
         \A b \in Accounts \ {a} : said'[b] = said[b],
         u.optIn => said'[a] = "yes", said'[a] = "no" => u.optOut,
         a \in Numbers => u.phone = Mobile(a, FALSE)
  PROVE  AccountsOK'
<1>1. UsersOK'
  BY DEF AccountsOK, UsersOK
<1>2. users'[a] = u /\ u # None /\ \A b \in Accounts \ {a} : users'[b] = users[b]
  BY OffersAssumption DEF AccountsOK, UsersOK
<1>3. AnswerKept(a)' /\ OwnNumber(a)'
  BY <1>2 DEF AnswerKept, OwnNumber, Known
<1>4. ASSUME NEW b \in Accounts \ {a} PROVE AnswerKept(b)' /\ OwnNumber(b)'
  BY <1>2, <1>4 DEF AccountsOK, AnswerKept, OwnNumber, Known
<1> QED BY <1>1, <1>3, <1>4 DEF AccountsOK

LEMMA NewAccount ==
  ASSUME Inv, NEW a \in Accounts, ~Known(a), NEW phone \in Phones,
         a \in Numbers => phone = Mobile(a, FALSE),
         users' = [users EXCEPT ![a] = NewUser(a, phone)], UNCHANGED <<bus, records, said>>
  PROVE  Inv'
<1> DEFINE u == NewUser(a, phone)
<1>1. u \in User /\ ~u.optIn /\ u.phone = phone
  BY DEF NewUser, User, Phones
<1>2. said[a] # "no"
  BY DEF Inv, AccountsOK, AnswerKept
<1>3. AccountsOK'
  BY <1>1, <1>2, AccountsStay DEF Inv, AccountsOK, UsersOK
<1>4. Becomes(a, u)
  BY <1>1 DEF Becomes
<1> QED BY <1>3, <1>4, IntakeStays DEF Inv

LEMMA SaysFacts ==
  ASSUME UsersOK, NEW a \in Accounts, NEW optIn \in BOOLEAN, Says(a, optIn)
  PROVE  /\ said' \in [Accounts -> {"nothing", "yes", "no"}]
         /\ \A b \in Accounts \ {a} : said'[b] = said[b]
         /\ said'[a] = IF optIn THEN "yes" ELSE "no"
BY DEF UsersOK, Says

LEMMA RegisterInv ==
  ASSUME Inv, NEW a \in Mails, NEW text \in Texts \cup {None}, NEW optIn \in BOOLEAN,
         RegisterLocal(a, text, optIn)
  PROVE  Inv'
<1> DEFINE phone == IF text = None THEN DefaultPhone ELSE text
           u == NewUser(a, phone)
<1>0. a \in Accounts /\ a \notin Numbers /\ phone \in Phones /\ ~Known(a) /\ UNCHANGED <<bus, records>>
  BY TextsArePhones, OffersAssumption DEF Accounts, RegisterLocal
<1>1. u \in User /\ ~u.optIn /\ u.phone = phone
  BY <1>0 DEF NewUser, User, Phones
<1> HIDE DEF phone
<1>2. CASE optIn
  <2> DEFINE v == SetMarketingConsent(u, TRUE, "signup")
  <2>1. users' = [users EXCEPT ![a] = v] /\ Says(a, TRUE)
    BY <1>2 DEF RegisterLocal, Accept, phone
  <2>2. v \in User /\ v.source = "signup" /\ v.optIn /\ ~v.optOut
    BY <1>1, ConsentType
  <2> HIDE DEF v, u
  <2>3. AccountsOK'
    <3>1. /\ said' \in [Accounts -> {"nothing", "yes", "no"}]
          /\ \A b \in Accounts \ {a} : said'[b] = said[b]
          /\ said'[a] = "yes"
      BY <1>0, <2>1, SaysFacts DEF Inv, AccountsOK
    <3> QED BY <1>0, <2>1, <2>2, <3>1, AccountsStay DEF Inv
  <2>4. Becomes(a, v)
    BY <1>0, <2>1, <2>2 DEF Becomes
  <2> QED BY <1>0, <2>3, <2>4, IntakeStays DEF Inv
<1>3. CASE ~optIn
  <2>1. users' = [users EXCEPT ![a] = u] /\ UNCHANGED said
    BY <1>3 DEF RegisterLocal, Accept, phone
  <2> QED BY <1>0, <2>1, NewAccount
<1> QED BY <1>2, <1>3

LEMMA MarketingInv ==
  ASSUME Inv, NEW a \in Accounts, NEW optIn \in BOOLEAN, NEW text \in Texts \cup {None},
         MarketingConsent(a, optIn, text)
  PROVE  Inv'
<1> DEFINE u == IF optIn /\ text # None THEN AttachPhoneIfMissing(users[a], text) ELSE users[a]
           v == SetMarketingConsent(u, optIn, "account-settings")
<1>0. Known(a) /\ users[a] \in User /\ UNCHANGED <<bus, records>>
      /\ AnswerKept(a) /\ OwnNumber(a)
  BY DEF MarketingConsent, Inv, AccountsOK, UsersOK, Known
<1>1. /\ u \in User /\ u.optIn = users[a].optIn /\ u.optOut = users[a].optOut
      /\ u.source = users[a].source
      /\ users[a].phone \notin {Landline, Junk} => u.phone = users[a].phone
      /\ users[a].phone \in Mobiles => u.phone \in Mobiles /\ u.phone = users[a].phone
  BY <1>0, AttachType, TextsArePhones
<1>2. v \in User /\ v.phone = u.phone /\ v.optIn = optIn /\ v.optOut = ~optIn
  BY <1>1, ConsentType
<1>3. \/ optIn /\ ~HasNumber(u) /\ Accept(a, u) /\ UNCHANGED said
      \/ ~(optIn /\ ~HasNumber(u)) /\ Accept(a, v) /\ Says(a, optIn)
  BY DEF MarketingConsent
<1>7. a \in Numbers => users[a].phone = Mobile(a, FALSE) /\ users[a].phone \in Mobiles
  <2>1. a \in Numbers => users[a].phone = Mobile(a, FALSE)
    BY <1>0 DEF OwnNumber
  <2>2. a \in Numbers => Mobile(a, FALSE) \in Mobiles
    BY DEF Mobiles, Mobile
  <2> QED BY <2>1, <2>2
<1> HIDE DEF u, v
<1>5. CASE optIn /\ ~HasNumber(u) /\ Accept(a, u) /\ UNCHANGED said
  <2>1. users' = [users EXCEPT ![a] = u]
    BY <1>5 DEF Accept
  <2>2. AccountsOK'
    BY <1>0, <1>1, <1>5, <1>7, <2>1, AccountsStay DEF Inv, AccountsOK, UsersOK, AnswerKept, OwnNumber
  <2>3. Becomes(a, u)
    BY <1>1, <2>1 DEF Becomes
  <2> QED BY <1>0, <2>2, <2>3, IntakeStays DEF Inv
<1>6. CASE ~(optIn /\ ~HasNumber(u)) /\ Accept(a, v) /\ Says(a, optIn)
  <2>1. users' = [users EXCEPT ![a] = v]
    BY <1>6 DEF Accept
  <2>2. /\ said' \in [Accounts -> {"nothing", "yes", "no"}]
        /\ \A b \in Accounts \ {a} : said'[b] = said[b]
        /\ said'[a] = IF optIn THEN "yes" ELSE "no"
    BY <1>6, SaysFacts DEF Inv, AccountsOK
  <2>3. AccountsOK'
    BY <1>1, <1>2, <1>6, <1>7, <2>1, <2>2, AccountsStay DEF Inv
  <2>4. Becomes(a, v)
    BY <1>1, <1>2, <2>1 DEF Becomes
  <2> QED BY <1>0, <2>3, <2>4, IntakeStays DEF Inv
<1> QED BY <1>3, <1>5, <1>6

-----------------------------------------------------------------------------
(* Announcements and the intake *)

AccountVars == <<users, said>>

LEMMA AccountsUnchanged ==
  ASSUME UNCHANGED AccountVars
  PROVE  /\ AccountsOK <=> AccountsOK'
         /\ \A a \in Accounts : \A to : StillHolds(a, to) <=> StillHolds(a, to)'
BY DEF AccountVars, AccountsOK, UsersOK, AnswerKept, OwnNumber, StillHolds, Known

LEMMA AnnounceInv ==
  ASSUME Inv, NEW p \in Promos, AnnouncePromo(p)
  PROVE  Inv'
<1>1. UNCHANGED AccountVars /\ UNCHANGED records
  BY DEF AnnouncePromo, AccountVars
<1>2. ASSUME NEW e \in bus' PROVE EmissionOK(e)
  <2>1. CASE e \in bus
    BY <2>1 DEF Inv, IntakeOK
  <2>2. CASE e \notin bus
    <3>1. PICK a \in Audience :
            e = [promo |-> p, account |-> a, sms |-> SmsOf(a), email |-> EmailOf(a),
                 said |-> said[a], nth |-> announced', next |-> "email"]
      BY <1>2, <2>2 DEF AnnouncePromo
    <3>2. a \in Accounts /\ Known(a) /\ AnswerKept(a)
      BY DEF Audience, Inv, AccountsOK
    <3>3. EmailOf(a) # None => EmailOf(a) = a /\ said[a] # "no"
      BY <3>2 DEF EmailOf, AnswerKept
    <3>4. SmsOf(a) # None => said[a] = "yes" /\ SmsOf(a) = users[a].phone
      BY <3>2 DEF SmsOf, AnswerKept
    <3> QED BY <3>1, <3>2, <3>3, <3>4 DEF EmissionOK, StillHolds
  <2> QED BY <2>1, <2>2
<1>3. \A e \in bus' : EmissionOK(e)'
  BY <1>1, <1>2, AccountsUnchanged DEF EmissionOK
<1>4. \A r \in records' : RecordOK(r)'
  BY <1>1, AccountsUnchanged DEF RecordOK, Inv, IntakeOK
<1>5. OnePerAddress'
  BY <1>1 DEF Inv, IntakeOK, OnePerAddress
<1> QED BY <1>1, <1>3, <1>4, <1>5, AccountsUnchanged DEF Inv, IntakeOK

\* What the intake adds keeps the records one per address.
LEMMA RecordInv ==
  ASSUME Inv, NEW e \in bus, NEW channel \in {"email", "sms"}, NEW to,
         channel = "email" => to = e.email,
         channel = "sms" => to = None \/ (to = e.sms /\ Textable(to)),
         records' = records \cup Record(e, channel, to),
         UNCHANGED AccountVars,
         \A f \in bus' : EmissionOK(f)
  PROVE  Inv'
<1>1. EmissionOK(e) /\ \A r \in records : RecordOK(r)
  BY DEF Inv, IntakeOK
<1>2. \A r \in Record(e, channel, to) :
        /\ r.promo = e.promo /\ r.channel = channel /\ r.to = to
        /\ r.account = e.account /\ r.said = e.said
        /\ to # None /\ ~Taken(e.promo, channel, to)
  BY DEF Record, Fresh
<1>3. \A r, s \in Record(e, channel, to) : r = s
  BY DEF Record
<1>4. \A r \in Record(e, channel, to) : RecordOK(r)
  BY <1>1, <1>2 DEF RecordOK, EmissionOK, Textable
<1>5. \A r \in records' : RecordOK(r)
  BY <1>1, <1>4
<1>6. OnePerAddress'
  BY <1>2, <1>3 DEF OnePerAddress, Inv, IntakeOK, Taken
<1>7. \A r \in records' : RecordOK(r)'
  BY <1>5, AccountsUnchanged DEF RecordOK
<1>8. \A f \in bus' : EmissionOK(f)'
  BY AccountsUnchanged DEF EmissionOK
<1> QED BY <1>6, <1>7, <1>8, AccountsUnchanged DEF Inv, IntakeOK

LEMMA HandleInv ==
  ASSUME Inv, NEW e \in bus, HandleEvent(e)
  PROVE  Inv'
<1>1. UNCHANGED AccountVars
  BY DEF HandleEvent, AccountVars
<1>2. EmissionOK(e) /\ \A f \in bus : EmissionOK(f)
  BY DEF Inv, IntakeOK
<1>3. CASE HandleEmail(e)
  <2> DEFINE f == [e EXCEPT !.next = "sms"]
  <2>1. EmissionOK(f)
    <3>1. f.account = e.account /\ f.email = e.email /\ f.sms = e.sms /\ f.said = e.said
      OBVIOUS
    <3> QED BY <1>2, <3>1 DEF EmissionOK
  <2> QED BY <1>1, <1>2, <1>3, <2>1, RecordInv DEF HandleEmail
<1>4. CASE HandleSms(e)
  <2> DEFINE to == IF e.sms # None /\ Textable(e.sms) THEN e.sms ELSE None
  <2>1. records' = records \cup Record(e, "sms", to) /\ bus' = bus \ {e}
    BY <1>4 DEF HandleSms
  <2>2. to = None \/ (to = e.sms /\ Textable(to))
    OBVIOUS
  <2> HIDE DEF to
  <2> QED BY <1>1, <1>2, <2>1, <2>2, RecordInv
<1> QED BY <1>3, <1>4 DEF HandleEvent

-----------------------------------------------------------------------------
(* The theorems *)

LEMMA InitInv == Init => Inv
BY DEF Init, Inv, AccountsOK, UsersOK, AnswerKept, OwnNumber, Known, IntakeOK, OnePerAddress

LEMMA NextInv == Inv /\ [Next]_vars => Inv'
<1> SUFFICES ASSUME Inv, [Next]_vars PROVE Inv'
  OBVIOUS
<1>1. ASSUME NEW a \in Mails, NEW text \in Texts \cup {None}, NEW optIn \in BOOLEAN,
             RegisterLocal(a, text, optIn)
      PROVE  Inv'
  BY <1>1, RegisterInv
<1>2. ASSUME NEW a \in Mails, GoogleLogin(a) PROVE Inv'
  BY <1>2, NewAccount, TextsArePhones, OffersAssumption DEF GoogleLogin, Accept, Accounts
<1>3. ASSUME NEW n \in Numbers, PhoneLogin(n) PROVE Inv'
  <2>1. CASE ~Known(n)
    BY <1>3, <2>1, NewAccount, TextsArePhones DEF PhoneLogin, Accept, Accounts
  <2>2. CASE Known(n)
    <3>1. n \in HeldBy(n)
      <4>1. users[n].phone = Mobile(n, FALSE) /\ Mobile(n, FALSE) \notin {Landline, Junk}
        BY <2>2, OffersAssumption DEF Inv, AccountsOK, OwnNumber, Accounts, Mobile, Landline, Junk
      <4>2. Normalized(users[n].phone) = Mobile(n, FALSE)
        BY <4>1 DEF Normalized, Mobile
      <4> QED BY <2>2, <4>2 DEF HeldBy, Accounts
    <3> QED BY <1>3, <3>1 DEF PhoneLogin
  <2> QED BY <2>1, <2>2
<1>4. ASSUME NEW a \in Accounts, NEW optIn \in BOOLEAN, NEW text \in Texts \cup {None},
             MarketingConsent(a, optIn, text)
      PROVE  Inv'
  BY <1>4, MarketingInv
<1>5. ASSUME UNCHANGED <<AccountVars, records>>, bus' \subseteq bus PROVE Inv'
  <2>1. OnePerAddress'
    BY <1>5 DEF Inv, IntakeOK, OnePerAddress
  <2>2. (\A e \in bus' : EmissionOK(e)') /\ (\A r \in records' : RecordOK(r)')
    BY <1>5, AccountsUnchanged DEF Inv, IntakeOK, EmissionOK, RecordOK
  <2> QED BY <1>5, <2>1, <2>2, AccountsUnchanged DEF Inv, IntakeOK
<1>6. ASSUME NEW p \in Promos, CreatePromo(p) \/ RemovePromo(p) PROVE Inv'
  BY <1>5, <1>6 DEF CreatePromo, RemovePromo, AccountVars
<1>7. ASSUME NEW p \in Promos, AnnouncePromo(p) PROVE Inv'
  BY <1>7, AnnounceInv
<1>8. ASSUME NEW e \in bus, HandleEvent(e) PROVE Inv'
  BY <1>8, HandleInv
<1>9. CASE Restart \/ UNCHANGED vars
  BY <1>5, <1>9 DEF Restart, vars, AccountVars
<1> QED BY <1>1, <1>2, <1>3, <1>4, <1>6, <1>7, <1>8, <1>9 DEF Next

\* What the properties rest on holds in every state: records of one promo
\* and channel have different addresses, and accounts keep what was answered.
THEOREM InvHolds == Spec => []Inv
BY InitInv, NextInv, PTL DEF Spec

\* A promo is recorded once for each text of an address, and for each customer
\* but with a landline: the intake looks for the key and inserts in one turn, and
\* a mobile number on file is never replaced.
THEOREM AnnouncedOnceHolds == Spec => []AnnouncedOnce
<1>1. Inv => AnnouncedOnce
  BY DEF Inv, IntakeOK, OnePerAddress, RecordOK, StillHolds, AnnouncedOnce
<1> QED BY <1>1, InvHolds, PTL

\* Texts go to those whose last answer was yes, mail to none that said no, and
\* the uploaded rows are of those whose last answer is yes.
THEOREM ConsentIsObeyed == Spec => []ConsentObeyed
<1>1. Inv => ConsentObeyed
  BY DEF Inv, AccountsOK, AnswerKept, IntakeOK, RecordOK, ConsentRows, ConsentObeyed
<1> QED BY <1>1, InvHolds, PTL

=============================================================================
