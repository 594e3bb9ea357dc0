------------------------------- MODULE Offers -------------------------------
(***************************************************************************)
(* Who hears of an offer: marketing consent and phone numbers on the       *)
(* accounts (userService.js, auth.controller.js), the promos, the          *)
(* broadcast (offerBroadcast.js) with the engine's intake behind it, and   *)
(* the consents that can be uploaded (consentExport.js).                   *)
(*                                                                         *)
(* An account is its address: a mailbox, or the number of a phone-only     *)
(* account, whose address takes no mail.  A phone is the text on file.     *)
(* Overlapping registrations of one address are module Auth's.             *)
(***************************************************************************)
EXTENDS Naturals, FiniteSets

CONSTANTS
    Mails, Numbers,
    Staff,          \* ADMIN_EMAILS
    DefaultNumber,  \* DEFAULT_USER_PHONE
    Promos,         \* the random ids drawn for promos
    MaxRequests,    \* bound on the requests of a behaviour
    None

-----------------------------------------------------------------------------
(* Phones *)

Mobile(n, plus) == [number |-> n, plus |-> plus]
Landline == [number |-> "landline", plus |-> FALSE]   \* ten digits, no mobile
Junk == [number |-> "none", plus |-> FALSE]
DefaultPhone == Mobile(DefaultNumber, TRUE)

Mobiles == [number : Numbers \cup {DefaultNumber}, plus : BOOLEAN]
User == [phone : Mobiles \cup {Landline, Junk}, optIn : BOOLEAN, optOut : BOOLEAN,
         source : {"none", "signup", "account-settings"}, staff : BOOLEAN]

ASSUME OffersAssumption == /\ Mails \cap Numbers = {}
                           /\ {"landline", "none"} \cap (Numbers \cup {DefaultNumber}) = {}
                           /\ None \notin Mobiles \cup User

VARIABLES
    users,      \* address -> record, or None
    promo,      \* id -> "free", "listed" or "removed"
    bus,        \* emissions the engine has not done with
    records,    \* what the engine took on
    said,       \* history: what each customer last answered
    announced,  \* history: announcements so far
    requests

vars == <<users, promo, bus, records, said, announced, requests>>

Texts == {Mobile(n, plus) : n \in Numbers, plus \in BOOLEAN} \cup {Landline, Junk}

\* normalizePhone: bare digits of an Indian mobile, or nothing.
Normalized(text) == IF text \in {Landline, Junk} THEN None ELSE Mobile(text.number, FALSE)

\* validateRecipient keeps a leading + and asks for ten digits at least.
Textable(text) == text # Junk

-----------------------------------------------------------------------------
(* Accounts *)

Accounts == Mails \cup Numbers
Known(a) == users[a] # None

NewUser(a, phone) == [phone |-> phone, optIn |-> FALSE, optOut |-> FALSE,
                      source |-> "none", staff |-> a \in Staff]

HeldBy(n) == {a \in Accounts : Known(a) /\ Normalized(users[a].phone) = Mobile(n, FALSE)}

SuppressionForgotten(u, optIn, source) ==   \* mutant: withdrawing leaves mail on
    [u EXCEPT !.optIn = optIn, !.source = source]
SetMarketingConsent(u, optIn, source) ==
    [u EXCEPT !.optIn = optIn, !.optOut = ~optIn, !.source = source]

AttachPhoneIfMissing(u, text) ==
    IF Normalized(text) = None \/ Normalized(u.phone) # None THEN u
    ELSE [u EXCEPT !.phone = Normalized(text)]

Request == requests < MaxRequests /\ requests' = requests + 1
Accept(a, u) == users' = [users EXCEPT ![a] = u]
Says(a, optIn) == said' = [said EXCEPT ![a] = IF optIn THEN "yes" ELSE "no"]

\* A box left alone is no answer.
RegisterLocal(a, text, optIn) ==
    LET u == NewUser(a, IF text = None THEN DefaultPhone ELSE text)
    IN /\ Request
       /\ ~Known(a)
       /\ IF optIn THEN Accept(a, SetMarketingConsent(u, TRUE, "signup")) /\ Says(a, TRUE)
          ELSE Accept(a, u) /\ UNCHANGED said
       /\ UNCHANGED <<promo, bus, records, announced>>

GoogleLogin(a) ==
    /\ Request
    /\ ~Known(a)
    /\ Accept(a, NewUser(a, DefaultPhone))
    /\ UNCHANGED <<promo, bus, records, said, announced>>

\* verifyOtp of a number nobody holds; an account that holds it keeps its text.
PhoneLogin(n) ==
    /\ Request
    /\ HeldBy(n) = {}
    /\ Accept(n, NewUser(n, Mobile(n, FALSE)))
    /\ UNCHANGED <<promo, bus, records, said, announced>>

HasNumber(u) == Normalized(u.phone) # None

\* The number sent along is stored before it is known whether there is one.
\* (What is awaited in between is a module that is loaded already.)
MarketingConsent(a, optIn, text) ==
    LET u == IF optIn /\ text # None THEN AttachPhoneIfMissing(users[a], text) ELSE users[a]
    IN /\ Request
       /\ Known(a)
       /\ IF optIn /\ ~HasNumber(u) THEN Accept(a, u) /\ UNCHANGED said
          ELSE Accept(a, SetMarketingConsent(u, optIn, "account-settings")) /\ Says(a, optIn)
       /\ UNCHANGED <<promo, bus, records, announced>>

\* consentRows: who opted in and has ten digits on file.
ConsentRows == {a \in Accounts : Known(a) /\ users[a].optIn /\ Textable(users[a].phone)}

-----------------------------------------------------------------------------
(* Promos and their announcement *)

CreatePromo(p) ==
    /\ Request
    /\ promo[p] = "free"
    /\ promo' = [promo EXCEPT ![p] = "listed"]
    /\ UNCHANGED <<users, bus, records, said, announced>>

RemovePromo(p) ==
    /\ Request
    /\ promo[p] = "listed"
    /\ promo' = [promo EXCEPT ![p] = "removed"]
    /\ UNCHANGED <<users, bus, records, said, announced>>

\* offerAudience: texts to those who opted in, mail to those who did not opt
\* out; who has neither is left out.
SmsOf(a) == IF users[a].optIn THEN users[a].phone ELSE None
EmailOf(a) == IF users[a].optOut \/ a \notin Mails THEN None ELSE a
Audience == {a \in Accounts : /\ Known(a) /\ ~users[a].staff
                              /\ SmsOf(a) # None \/ EmailOf(a) # None}

AnnouncePromo(p) ==
    /\ Request
    /\ promo[p] = "listed"
    /\ announced' = announced + 1
    /\ bus' = bus \cup {[promo |-> p, account |-> a, sms |-> SmsOf(a), email |-> EmailOf(a),
                         said |-> said[a], nth |-> announced', next |-> "email"] : a \in Audience}
    /\ UNCHANGED <<users, promo, records, said>>

-----------------------------------------------------------------------------
(* The engine's intake *)

Taken(p, channel, to) ==
    \E r \in records : r.promo = p /\ r.channel = channel /\ r.to = to

PerAnnouncement(e, channel, to) == to # None   \* mutant: the key is drawn per emission
Fresh(e, channel, to) == to # None /\ ~Taken(e.promo, channel, to)

Record(e, channel, to) ==
    IF Fresh(e, channel, to)
      THEN {[promo |-> e.promo, channel |-> channel, to |-> to, account |-> e.account,
             said |-> e.said, nth |-> e.nth]}
      ELSE {}

\* handleEvent takes the channels of an emission one after the other, each
\* record an await; the emissions of a broadcast interleave.
HandleEmail(e) ==
    /\ e.next = "email"
    /\ records' = records \cup Record(e, "email", e.email)
    /\ bus' = (bus \ {e}) \cup {[e EXCEPT !.next = "sms"]}

HandleSms(e) ==
    /\ e.next = "sms"
    /\ records' = records \cup
         Record(e, "sms", IF e.sms # None /\ Textable(e.sms) THEN e.sms ELSE None)
    /\ bus' = bus \ {e}

HandleEvent(e) ==
    /\ HandleEmail(e) \/ HandleSms(e)
    /\ UNCHANGED <<users, promo, said, announced, requests>>

Restart ==
    /\ bus # {} /\ bus' = {}
    /\ UNCHANGED <<users, promo, records, said, announced, requests>>

Init == /\ users = [a \in Accounts |-> None]
        /\ promo = [p \in Promos |-> "free"]
        /\ bus = {} /\ records = {}
        /\ said = [a \in Accounts |-> "nothing"]
        /\ announced = 0 /\ requests = 0

Next == \/ \E a \in Mails, text \in Texts \cup {None}, optIn \in BOOLEAN :
             RegisterLocal(a, text, optIn)
        \/ \E a \in Mails : GoogleLogin(a)
        \/ \E n \in Numbers : PhoneLogin(n)
        \/ \E a \in Accounts, optIn \in BOOLEAN, text \in Texts \cup {None} :
             MarketingConsent(a, optIn, text)
        \/ \E p \in Promos : CreatePromo(p) \/ RemovePromo(p) \/ AnnouncePromo(p)
        \/ \E e \in bus : HandleEvent(e)
        \/ Restart

Spec == Init /\ [][Next]_vars

-----------------------------------------------------------------------------
\* However often a promo is announced, with the emissions of two announcements
\* in flight, a restart between them or a number attached since, one text of an
\* address is never written to twice, and one customer only if one of the two
\* went to a landline, the number that may be replaced (attachPhoneIfMissing).
\* A number with and without its +91 is two texts, and may be written to under
\* both (promo.controller.js:128 means the person to be spared).
AnnouncedOnce ==
    \A r, s \in records :
      (r # s /\ r.promo = s.promo /\ r.channel = s.channel) =>
        /\ r.to # s.to
        /\ r.account = s.account => Landline \in {r.to, s.to}

\* No text goes out unless the customer's last answer when the offer was
\* announced was yes, and no mail if it was no (offerBroadcast.js); and the
\* rows uploaded to the registrar are of customers whose last answer is yes
\* (consentRows: an account that merely exists is not consent).
ConsentObeyed ==
    /\ \A r \in records : /\ r.channel = "sms" => r.said = "yes"
                          /\ r.channel = "email" => r.said # "no"
    /\ \A a \in ConsentRows : said[a] = "yes"

=============================================================================
