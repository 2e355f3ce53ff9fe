------------------------------ MODULE Workforce ------------------------------
(****************************************************************************)
(* The worker profiles of one community and the paid-service reservations   *)
(* kept beside them: back-end/src/modules/workforce/workforce.service.ts.   *)
(*                                                                          *)
(* The backend is one Node process over in-memory repositories and every    *)
(* handler runs to completion without an await, so a handler is one step.   *)
(* The community's subscription is active (an active subscription never     *)
(* becomes inactive), and a request the code refuses changes nothing and is *)
(* not a step.                                                              *)
(*                                                                          *)
(* Other services call the operators below that update a profile; the       *)
(* module that composes them supplies the next-state relation.              *)
(****************************************************************************)
EXTENDS Naturals, Sequences

CONSTANTS
    Worker,       \* worker profile ids
    Specialty,    \* WorkType values in use
    Complaint,    \* complaint ids
    Request,      \* paid-service request ids
    NoRequest     \* "the Map has no entry for this worker"

ASSUME NoRequestAssumption == NoRequest \notin Request

VARIABLES
    status,           \* WorkerProfile.status, or "ABSENT" before the profile is created
    specialization,   \* WorkerProfile.specialization
    reservation,      \* paidServiceReservations: worker -> request, or NoRequest
    workHistory,      \* WorkerProfile.workHistory
    completedWorkCount  \* WorkerProfile.completedWorkCount

profileVars == <<status, specialization>>
recordVars == <<workHistory, completedWorkCount>>
workforceVars == <<status, specialization, reservation, workHistory, completedWorkCount>>

WorkerStatus == {"AVAILABLE", "BUSY", "ON_LEAVE", "INACTIVE"}

WorkforceTypeOK ==
    /\ status \in [Worker -> WorkerStatus \cup {"ABSENT"}]
    /\ specialization \in [Worker -> Specialty]
    /\ reservation \in [Worker -> Request \cup {NoRequest}]
    /\ workHistory \in [Worker -> Seq(Complaint)]
    /\ completedWorkCount \in [Worker -> Nat]

\* Seeded profiles are available or on leave; other workers get one later.
WorkforceInit ==
    /\ status \in [Worker -> {"ABSENT", "AVAILABLE", "ON_LEAVE"}]
    /\ specialization \in [Worker -> Specialty]
    /\ reservation = [w \in Worker |-> NoRequest]
    /\ workHistory = [w \in Worker |-> <<>>]
    /\ completedWorkCount = [w \in Worker |-> 0]

-----------------------------------------------------------------------------
(* Queries and updates the other services call. *)

ProfileExists(w) == status[w] # "ABSENT"

HasPaidServiceReservation(w) == reservation[w] # NoRequest

\* The profile must exist and must not be reserved for a paid service.
AssertValidAssignmentTarget(w) ==
    /\ ~HasPaidServiceReservation(w)
    /\ ProfileExists(w)

UpdateSystemStatus(w, s) == status' = [status EXCEPT ![w] = s]

ReservePaidService(w, r) ==
    /\ AssertValidAssignmentTarget(w)
    /\ status[w] = "AVAILABLE"
    /\ reservation' = [reservation EXCEPT ![w] = r]
    /\ UpdateSystemStatus(w, "BUSY")

\* Mutant: the map entry is not deleted.
ReleaseStatusOnly(w, r) ==
    /\ reservation[w] = r
    /\ UpdateSystemStatus(w, "AVAILABLE")
    /\ UNCHANGED reservation

ReleasePaidService(w, r) ==
    /\ reservation[w] = r
    /\ reservation' = [reservation EXCEPT ![w] = NoRequest]
    /\ UpdateSystemStatus(w, "AVAILABLE")

AddCompletedComplaint(w, c) ==
    workHistory' = [workHistory EXCEPT ![w] = Append(@, c)]

\* Mutant: the count is added to the stored one.
AddPerformance(w, count) ==
    completedWorkCount' = [completedWorkCount EXCEPT ![w] = @ + count]

UpdatePerformance(w, count) ==
    completedWorkCount' = [completedWorkCount EXCEPT ![w] = count]

-----------------------------------------------------------------------------
(* Handlers of the workforce controller. *)

\* createForActor: one profile per user; any status may be given, BUSY too.
CreateProfile(w) ==
    /\ status[w] = "ABSENT"
    /\ \E s \in WorkerStatus : UpdateSystemStatus(w, s)
    /\ \E k \in Specialty : specialization' = [specialization EXCEPT ![w] = k]
    /\ UNCHANGED <<reservation, workHistory, completedWorkCount>>

\* What updating and deactivating a profile both check.
CanChangeProfile(w) == ProfileExists(w) /\ ~HasPaidServiceReservation(w)

\* updateForActor: not for a reserved worker and never to BUSY; fields that
\* are not sent keep their value.
UpdateProfile(w) ==
    /\ CanChangeProfile(w)
    /\ \E s \in (WorkerStatus \ {"BUSY"}) \cup {status[w]} : UpdateSystemStatus(w, s)
    /\ \E k \in Specialty : specialization' = [specialization EXCEPT ![w] = k]
    /\ UNCHANGED <<reservation, workHistory, completedWorkCount>>

Deactivate(w) ==
    /\ CanChangeProfile(w)
    /\ UpdateSystemStatus(w, "INACTIVE")
    /\ UNCHANGED <<specialization, reservation, workHistory, completedWorkCount>>

WorkforceNext ==
    \E w \in Worker : CreateProfile(w) \/ UpdateProfile(w) \/ Deactivate(w)

=============================================================================
