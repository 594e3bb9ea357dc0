------------------------------ MODULE Reminders ------------------------------
(***************************************************************************)
(* The daily sweep of tripReminders.js beside the bookings it reads: every *)
(* evening, Indian time, each trip that begins tomorrow is announced once. *)
(* The timer fires far more often than twice a day, so an evening does not *)
(* end before a sweep that is due.  Half days of Bookings' clock are the   *)
(* hours before and after sendAfterHourIst.                                *)
(*                                                                         *)
(* An announcement is the dedupe key it is persisted under: reference and  *)
(* customer.                                                               *)
(***************************************************************************)
EXTENDS Bookings

VARIABLES
  lastSwept,   \* lastSweptDate of this process
  reminded,    \* the dedupe keys announced so far
  late         \* history: references the last sweep has not seen as they are

reminderVars == <<lastSwept, reminded, late>>
allVars == <<vars, reminderVars>>

Never == -1

SweptOnce == Evening /\ lastSwept = Never   \* mutant: once per process
SweepDue == Evening /\ lastSwept # today

Live(b) == b.status \notin {"Cancelled", "Completed"}
DueBookings == {id \in Refs : bookings[id].period[1] = today + 1 /\ Live(bookings[id])}
Key(id) == <<id, bookings[id].owner>>

Sweep ==
  /\ SweepDue
  /\ lastSwept' = today
  /\ reminded' = reminded \cup {Key(id) : id \in DueBookings}
  /\ late' = {}
  /\ UNCHANGED vars

\* It throws: the error is logged, and the day counts as swept.
SweepThrows ==
  /\ SweepDue
  /\ lastSwept' = today
  /\ late' = Refs
  /\ UNCHANGED <<vars, reminded>>

\* What a handler creates, moves or brings back after the sweep is not seen.
Touched == {id \in DOMAIN bookings' :
              \/ id \notin Refs
              \/ bookings'[id].serial # bookings[id].serial
              \/ bookings'[id].period # bookings[id].period
              \/ bookings'[id].status # bookings[id].status}

HandleMeanwhile == Handle /\ late' = late \cup Touched /\ UNCHANGED <<lastSwept, reminded>>

Reboot == Restart /\ lastSwept' = Never /\ UNCHANGED <<reminded, late>>

ClockAdvances == TimePasses /\ ~SweepDue /\ UNCHANGED reminderVars

ReminderInit == Init /\ lastSwept = Never /\ reminded = {} /\ late = {}

ReminderNext == Sweep \/ SweepThrows \/ HandleMeanwhile \/ Reboot \/ ClockAdvances

ReminderSpec == ReminderInit /\ [][ReminderNext]_allVars

-----------------------------------------------------------------------------
\* On the morning of a trip that was booked and settled before the evening's
\* sweep, its reference has been announced to its customer: over restarts,
\* cancellations, deleted bookings and days on which a sweep failed.
TripsAreReminded ==
  ~Evening =>
    \A id \in Refs \ late :
      Live(bookings[id]) /\ bookings[id].period[1] = today => Key(id) \in reminded

=============================================================================
