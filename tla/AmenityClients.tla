--------------------------- MODULE AmenityClients ---------------------------
(****************************************************************************)
(* Amenities with one slow resident. The reservation form                   *)
(* (front-end/src/features/amenities/components/ReservationForm.jsx) shows  *)
(* the price, or a booking with its extension quotes, as they were when it  *)
(* was opened, and is submitted later with the price or the version it      *)
(* shows; meanwhile everybody else acts on what is stored now.              *)
(****************************************************************************)
EXTENDS Amenities

CONSTANT NoForm

VARIABLE form   \* the open form: a booking, its content and the price shown

formVars == <<vars, form>>

ClientsInit == Init /\ form = NoForm

\* The answer the form shows: the choices for a new booking, or for a change
\* the booking is eligible for. Computing it reads every active booking.
OpenForm(b) ==
    LET q == ExpireChanges(booking[b]) IN
    /\ form = NoForm
    /\ q.status = "NONE" \/ \E kind \in {"EDIT", "EXTEND"} : Eligible(q, kind)
    /\ Access({b} \cup Others(b))
    /\ form' = [id |-> b, shown |-> q, price |-> Price]

SubmitBooking ==
    /\ form # NoForm
    /\ form.shown.status = "NONE"
    /\ \E r \in Resident, key \in Key, w \in Window, n \in Attendees :
           Book(form.id, r, key, w, n, form.price)
    /\ form' = NoForm

SubmitChange ==
    /\ form # NoForm
    /\ AnyChange(form.id, form.shown.version)
    /\ form' = NoForm

\* The handler refuses the form, or it is left.
CloseForm ==
    /\ form # NoForm
    /\ form' = NoForm
    /\ UNCHANGED vars

ClientsNext ==
    \/ \E b \in Booking : OpenForm(b)
    \/ SubmitBooking
    \/ SubmitChange
    \/ CloseForm
    \/ Next /\ UNCHANGED form

ClientsSpec == ClientsInit /\ [][ClientsNext]_formVars

\* "The resident sees the estimate and revised total before confirming;
\* request versions prevent a stale interval from being accepted": what a form
\* creates costs the price it showed, and a change it asks for applies to
\* exactly the booking it showed, at the fee it showed.
AcceptedAsQuoted ==
    [][form # NoForm /\ form' = NoForm /\ booking' # booking =>
          LET q == form.shown
              r == booking'[form.id]
              c == r.changes[Len(r.changes)]
          IN IF q.status = "NONE"
             THEN [fee |-> r.fee, deposit |-> r.deposit] = form.price
             ELSE /\ q = ExpireChanges(booking[form.id])
                  /\ c.kind = "EXTEND" => c.fee = Quote(q, c.to)]_formVars

=============================================================================
