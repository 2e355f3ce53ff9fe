------------------------------ MODULE BookingPages ------------------------------
(****************************************************************************)
(* The pages through which residents and the Community Admin reach          *)
(* Amenities: BookingsPage.jsx and AmenitiesPage.jsx of                     *)
(* front-end/src/features/amenities/pages, with the forms they open         *)
(* (ReservationForm, AmenityForm, MaintenanceBlocks) and the choices that   *)
(* dayOptions of amenities.service.ts computes for the first of them.       *)
(*                                                                          *)
(* A page loads again after every request, and listing bookings expires     *)
(* their overdue changes; so a page is a function of the stores, and Loaded *)
(* says that it has been listed. Each action is a button or a form: when it *)
(* is shown, what it lets one choose, and the request it sends. Reasons,    *)
(* prices, dates and clock times are left out, as in Amenities; so is a     *)
(* reservation form that is submitted late, which is AmenityClients.        *)
(****************************************************************************)
EXTENDS Amenities

Loaded == \A b \in Booking : \A i \in 1..MaxChanges : ~Overdue(booking[b], i)

-----------------------------------------------------------------------------
(* dayOptions: what the reservation form offers resident r, for a booking b *)
(* that is new or to be changed, and n attendees.                           *)

\* What the service checks of window w.
Valid(b, r, n, kind, w) ==
    IF kind = "BOOK" THEN Available(w, n, b, FALSE, FALSE) /\ WithinLimit(r, b)
    ELSE ValidChange(b, booking[b], kind, w, FALSE)

\* unavailableReason, as far as it stops the search: the rest of it is in the hours.
Bookable(b, r) == config.open /\ WithinLimit(r, b)

EndsAfter(s) == {w.to : w \in {v \in config.hours : v.from = s}}

\* Mutant: a start is tried with the longest stay instead of the shortest.
StartsOfLongest(b, r, n, kind) ==
    {s \in {w.from : w \in config.hours} :
        /\ EndsAfter(s) # {} /\ Bookable(b, r)
        /\ Valid(b, r, n, kind, [from |-> s, to |-> Max(EndsAfter(s))])}

\* A start is offered if the shortest stay fits; an extension keeps its start.
Starts(b, r, n, kind) ==
    IF kind = "EXTEND" THEN {booking[b].from}
    ELSE {s \in {w.from : w \in config.hours} :
            LET long == {e \in EndsAfter(s) : e >= s + config.minDuration}
            IN /\ Bookable(b, r) /\ long # {}
               /\ Valid(b, r, n, kind, [from |-> s, to |-> Min(long)])}

\* The ends offered for a start that was chosen
Ends(b, r, n, kind, s) ==
    {e \in EndsAfter(s) : /\ Bookable(b, r) /\ e - s <= config.maxDuration
                          /\ Valid(b, r, n, kind, [from |-> s, to |-> e])}

Offered(b, r, n, kind) ==
    UNION {{[from |-> s, to |-> e] : e \in Ends(b, r, n, kind, s)} : s \in Starts(b, r, n, kind)}

Widened(w) == [from |-> w.from - config.turnaround, to |-> w.to + config.turnaround]

\* The intervals the form lists as reserved and as closed, turnaround included
Reserved(b) == UNION {{Widened(h) : h \in HeldIntervals(Refreshed(o))} : o \in Others(b)}

Closed == {Widened(block[k]) : k \in {j \in Block : block[j].status = "BLOCKED"}}

\* Reserved / restricted times
TakenTimes(b) == Reserved(b) \cup Closed

\* "No bookable time", before a start is chosen or after
NoBookableTime(b, r, n, kind) ==
    \A s \in Starts(b, r, n, kind) : Ends(b, r, n, kind, s) = {}

ApprovedExtensionFee(q) ==
    SumFunctionOnSet([c \in DOMAIN q.charges |-> q.charges[c].amount],
                     {c \in DOMAIN q.charges : q.charges[c].payment # "VOIDED"})

\* Mutant: an extension is estimated at what the amenity costs now.
FeeOfToday(q, kind, e) ==
    IF kind = "EXTEND" THEN ExtensionFee(config.fee, q.originalDuration, e - q.to) ELSE 0

AdditionalFee(q, kind, e) == IF kind = "EXTEND" THEN Quote(q, e) ELSE 0

\* Total including deposit, for the window that is chosen
TotalShown(q, kind, w) ==
    IF kind = "BOOK" THEN config.fee + config.deposit
    ELSE q.fee + q.deposit + ApprovedExtensionFee(q) + AdditionalFee(q, kind, w.to)

-----------------------------------------------------------------------------
(* The resident. *)

\* Check & reserve
ReserveShown == config.open

\* The field for the attendees
FieldTakes(n) == n \in 1..config.capacity

\* Start times and durations can be chosen as soon as the fields before them are right.
TimesShown(b, r, n, kind) == IF FieldTakes(n) THEN Offered(b, r, n, kind) ELSE {}

SubmitReservation(b, r, key, w, n) ==
    /\ ReserveShown
    /\ w \in TimesShown(b, r, n, "BOOK")
    /\ Book(b, r, key, w, n, Price)

\* Mutant: a booking that waits for its approval has no button to move it.
ChangeOfApproved(b, kind) ==
    LET q == booking[b] IN
    /\ PendingChanges(q) = {}
    /\ q.status = "APPROVED" /\ q.to > now
    /\ IF kind = "EDIT" THEN q.from - now > config.cutoff ELSE config.allowExtensions

\* Change time, Extend
ChangeShown(b, kind) ==
    LET q == booking[b] IN
    /\ PendingChanges(q) = {}
    /\ IF kind = "EDIT" THEN Active(q) /\ q.from - now > config.cutoff
       ELSE q.status = "APPROVED" /\ q.to > now /\ config.allowExtensions

SendChange(b, key, kind, w) ==
    /\ ChangeShown(b, kind)
    /\ w \in TimesShown(b, booking[b].resident, booking[b].attendees, kind)
    /\ RequestChange(b, booking[b].version, key, kind, w)

\* Cancel booking, of the resident and of the administrator
CancelBooking(b) ==
    /\ Active(booking[b]) /\ booking[b].from > now
    /\ booking[b].from - now > config.cutoff
    /\ Cancel(b)

-----------------------------------------------------------------------------
(* The Community Admin. *)

\* Approve and Reject beside a booking
DecideBooking(b, action) ==
    /\ booking[b].status = "PENDING_APPROVAL" /\ booking[b].from > now
    /\ IF action = "approve" THEN Approve(b) ELSE Reject(b)

\* Approve change and Reject change, beside every change that waits
DecideChange(b, i, action) ==
    /\ i \in PendingChanges(booking[b])
    /\ IF action = "approve" THEN ApproveChange(b, i) ELSE RejectChange(b, i)

\* prepareAmenity(): the form takes limits in order that leave something to book.
PrepareAmenity(c) ==
    /\ c.hours # {}
    /\ c.minDuration <= c.maxDuration
    /\ \E w \in c.hours : w.to - w.from \in c.minDuration .. c.maxDuration

\* The form has a field for everything that is configured; some of them start from 1.
FieldsTake(c) == {c.capacity, c.minDuration, c.maxDuration, c.maxActive} \subseteq Nat \ {0}

SaveAmenity(c) == FieldsTake(c) /\ PrepareAmenity(c) /\ Update(c)

SubmitBlock(k, w) == AddBlock(k, w)

\* Release, beside a block that is not released
ConfirmRelease(k) == block[k].status = "BLOCKED" /\ ReleaseBlock(k)

-----------------------------------------------------------------------------
(* Properties. *)

Plain == config.exclusive \/ config.turnaround = 0

\* Whatever waits for the administrator can be refused on the page, and granted while
\* its time has not begun: nothing that was accepted meanwhile stands in its way. Who
\* may cancel or change a booking finds the button for it.
DecisionsWithinReach ==
    \A b \in Booking :
        LET q == booking[b] IN
        /\ q.status = "PENDING_APPROVAL" /\ q.from > now =>
              /\ ENABLED DecideBooking(b, "reject")
              /\ Plain => ENABLED DecideBooking(b, "approve")
        /\ \A i \in PendingChanges(q) :
              /\ ENABLED DecideChange(b, i, "reject")
              /\ Plain /\ (q.changes[i].kind = "EXTEND" \/ q.changes[i].from > now) =>
                    ENABLED DecideChange(b, i, "approve")
        /\ ENABLED Cancel(b) => ENABLED CancelBooking(b)
        /\ \A kind \in {"EDIT", "EXTEND"} : Eligible(q, kind) => ChangeShown(b, kind)

\* The form offers exactly what the service accepts, though it searches by starts and
\* ends and the service checks a window; and nothing it lists as taken.
OffersAreExact(b, r, n, kind) ==
    LET offered == TimesShown(b, r, n, kind) IN
    /\ offered = {w \in Window : Valid(b, r, n, kind, w)}
    /\ NoBookableTime(b, r, n, kind) <=> \A w \in Window : ~Valid(b, r, n, kind, w)
    /\ config.exclusive =>
          \A w \in offered, taken \in TakenTimes(b) : ~BufferedOverlap(w, taken, 0)
    /\ \A w \in offered, c \in Closed : ~BufferedOverlap(w, c, 0)

\* A change that is approved, now or later, leaves the booking charged with the total
\* the form showed for it, though prices may have changed in between.
TotalsHold ==
    \A b \in Booking :
        LET q == booking[b] IN
        \A i \in PendingChanges(q) :
            LET c == q.changes[i]
                approved == Charge(q, i, c)
            IN  approved.fee + approved.deposit + ApprovedExtensionFee(approved)
                    = TotalShown(q, c.kind, Span(c))

\* What waits for the administrator is worth what its resident was shown: it can still be
\* approved, and then costs that total.
WaitingIsHonoured == PlainHoldCanBeApproved /\ TotalsHold

\* Whenever the form is open, on a page of any age, it offers each window that can be
\* had, and no other, to those who book, move or extend.
FormIsExact ==
    \A b \in Booking :
        IF booking[b].status = "NONE"
        THEN \A r \in Resident, n \in Attendees : OffersAreExact(b, r, n, "BOOK")
        ELSE \A kind \in {"EDIT", "EXTEND"} :
                ChangeShown(b, kind) =>
                    OffersAreExact(b, booking[b].resident, booking[b].attendees, kind)

\* On a page that was just listed, nobody waits for a decision that cannot be taken
\* there, no booking lacks a button for what the service would do, and the form takes
\* every configuration that may be set.
BookingWithinReach ==
    Loaded =>
        /\ DecisionsWithinReach
        /\ \A c \in Config : MayConfigure(c) => FieldsTake(c) /\ PrepareAmenity(c)

\* A change can be approved as long as it is shown to wait. Not so: a move to an
\* earlier time waits until the cutoff of the booking it moves, and its own time may
\* begin before that.
ShownChangeCanBeApproved ==
    \A b \in Booking : \A i \in PendingChanges(booking[b]) :
        Loaded => ENABLED DecideChange(b, i, "approve")
=============================================================================
