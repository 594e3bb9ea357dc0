CONSTANTS
    Mails = {mail, boss}
    Numbers = {n1}
    Staff = {boss}
    DefaultNumber = n0
    Promos = {p1}
    MaxRequests = 7
    None = None
SPECIFICATION Spec
INVARIANTS AnnouncedOnce ConsentObeyed
CHECK_DEADLOCK FALSE
