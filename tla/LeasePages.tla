------------------------------- MODULE LeasePages -------------------------------
(****************************************************************************)
(* The pages through which the Community Admin and the tenants reach        *)
(* Leases: front-end/src/features/community-admin/pages/RentalsPage.jsx     *)
(* with rentalView.js, rentalForms.js and RentalOnboarding.jsx, and         *)
(* front-end/src/features/resident/pages/RentalsPage.jsx; and `inventory`   *)
(* of rentals.service.ts, which the first of them reads.                    *)
(*                                                                          *)
(* A page loads again after every request, and loading refreshes every      *)
(* lease it shows; so a page is a function of the stores, and Loaded says   *)
(* that the refresh has been made. Each action is a button or a form: its   *)
(* first conjuncts say when it is shown and what it lets one enter, the     *)
(* last is the request. Amounts, texts and the drafts of forms are left     *)
(* out, as are the records of private rentals, which nobody can change.     *)
(****************************************************************************)
EXTENDS Leases

\* The pages list leases and listings, and listing them refreshes the leases.
Loaded == Past(Lease) = {}

-----------------------------------------------------------------------------
(* The inventory of apartments. *)

\* Older residents of a whom no lease anywhere explains
LegacyOccupants(a) ==
    {r \in Resident : /\ resident[r].home = a /\ resident[r].situation = "LEGACY"
                      /\ \A l \in Lease : lease[l].tenant # r}

Occupancy(a) ==
    IF CurrentLeases(a) # {} THEN "COMMUNITY_TENANT"
    ELSE IF LegacyOccupants(a) # {} THEN "REVIEW_REQUIRED" ELSE "VACANT"

\* Mutant: a withdrawn listing keeps its apartment off the list.
NeverListed ==
    {a \in Apartment : Occupancy(a) = "VACANT" /\ \A i \in Listing : listing[i].apartment # a}

EligibleApartments ==
    {a \in Apartment :
        /\ Occupancy(a) = "VACANT"
        /\ \A i \in Listing : listing[i].apartment = a => listing[i].status \notin OpenStatus}

AvailableListings == {i \in Listing : listing[i].status = "AVAILABLE"}

\* Mutant: an agreement counts before it begins.
OverviewOfAgreements ==
    [available |-> Cardinality(AvailableListings),
     active |-> Cardinality({l \in Lease : lease[l].status = "ACTIVE"}),
     occupied |-> Cardinality({a \in Apartment :
                      \E l \in Lease : lease[l].status = "ACTIVE" /\ ApartmentOf(lease[l]) = a})]

\* The four figures of the overview, without the rent that is due
Overview ==
    [available |-> Cardinality(AvailableListings),
     active |-> Cardinality({l \in Lease : lease[l].status = "ACTIVE"}),
     occupied |-> Cardinality({a \in Apartment : Occupancy(a) = "COMMUNITY_TENANT"})]

-----------------------------------------------------------------------------
(* The admin's buttons and forms. *)

\* The form offers apartments, and has no field for the last day.
ListingForm(a, from) == IF a \in EligibleApartments THEN {[from |-> from, until |-> Never]} ELSE {}

SubmitListing(i, a, from) == \E window \in ListingForm(a, from) : CreateListing(i, a, window)

EditShown(i) == listing[i].status \in {"DRAFT", "AVAILABLE"}

EditListing(i, from) ==
    /\ EditShown(i)
    /\ UpdateListing(i, listing[i].status, [from |-> from, until |-> listing[i].until])

SetListing(i, status) ==
    UpdateListing(i, status, [from |-> listing[i].from, until |-> listing[i].until])

PublishListing(i) == listing[i].status = "DRAFT" /\ SetListing(i, "AVAILABLE")

WithdrawListing(i) == listing[i].status = "AVAILABLE" /\ SetListing(i, "WITHDRAWN")

\* RentalOnboarding: the fields' limits
FormTakes(i, term) ==
    /\ i \in AvailableListings
    /\ listing[i].from <= term.start
    /\ term.end <= listing[i].until

\* The dates are compared once more, the account is left out.
TenantOnboardingPayload(term) == term.start < term.end

CanOnboard(i, term) == FormTakes(i, term) /\ TenantOnboardingPayload(term)

SubmitOnboarding(l, i, t, term) == CanOnboard(i, term) /\ OnboardTenant(l, i, t, term)

Activate(l) ==
    lease[l].status = "PENDING_APPROVAL" /\ lease[l].accepted /\ ActivateLease(l)

\* Review lease approval / rejection
ReviewRentalLease(l, decision) ==
    /\ lease[l].status = "PENDING_APPROVAL"
    /\ IF decision = "APPROVED" THEN ApproveLease(l) ELSE CancelProposal(l)

\* Approve and Decline beside a pending request; approving needs an id for a successor.
DecideRentalRequest(l, k, decision) ==
    /\ lease[l].request # NoRequest
    /\ CASE decision = "DECLINED" -> DeclineLifecycle(l)
         [] decision = "APPROVED" /\ lease[l].request.type = "TERMINATION" -> ApproveTermination(l)
         [] OTHER -> ApproveRenewal(l, k)

-----------------------------------------------------------------------------
(* The tenant's. *)

AcceptTerms(l) ==
    lease[l].status = "PENDING_APPROVAL" /\ ~lease[l].accepted /\ AcceptLease(l)

ProposeRenewal(l, term) == lease[l].status = "ACTIVE" /\ RequestRenewal(l, term)

AskTermination(l) == lease[l].status = "ACTIVE" /\ RequestTermination(l)

WithdrawRequest(l) == lease[l].request # NoRequest /\ WithdrawLifecycle(l)

-----------------------------------------------------------------------------
(* Properties. *)

\* What waits for a person can be ended by that person: a proposal by the tenant who
\* has to accept it, or by an admin's refusal, a request by the admin and by the tenant.
DecisionsWithinReach ==
    \A l \in Lease :
        /\ lease[l].status = "PENDING_APPROVAL" =>
              /\ ENABLED ReviewRentalLease(l, "REJECTED")
              /\ ~lease[l].accepted => ENABLED AcceptTerms(l)
        /\ lease[l].request # NoRequest =>
              /\ ENABLED DecideRentalRequest(l, l, "DECLINED") /\ ENABLED WithdrawRequest(l)
              /\ lease[l].request.type = "TERMINATION" =>
                    ENABLED DecideRentalRequest(l, l, "APPROVED")

\* An apartment the service would take a new listing for is one the page offers.
OffersAreComplete ==
    \A a \in Apartment, i \in Listing : \A from \in 0..MaxDay :
        ENABLED CreateListing(i, a, [from |-> from, until |-> Never])
            => ENABLED SubmitListing(i, a, from)

\* An agreement the service would accept is one the onboarding form lets the admin enter.
AgreementsOffered ==
    \A i \in Listing, term \in Term :
        CanCreateLease(lease, i, NoResident, term) => CanOnboard(i, term)

\* The overview counts an apartment as occupied once for every lease that runs today.
OverviewCounts ==
    Overview.occupied =
        Cardinality({l \in Lease : lease[l].status = "ACTIVE" /\ lease[l].start <= today})

\* Once loaded, the pages keep up with the rules of the service: no decision is
\* awaited from a person who is shown no way to make it, and no apartment the service
\* would take is missing from the forms.
LettingWithinReach ==
    Loaded => DecisionsWithinReach /\ OffersAreComplete

\* Nor is an agreement, and the figures fit the leases: renewals, proposals, terminations
\* and expiry leave no apartment counted twice, too early or too long.
PagesFitLeases ==
    Loaded => OverviewCounts /\ AgreementsOffered

\* So listings, and what the pages make of them, follow the leases.
InventoryFollowsLeases == ListingFollowsLeases /\ PagesFitLeases

\* An apartment that is offered is one the service takes. Not so: the inventory
\* forgives an older resident who has a lease of any apartment, createListing one of
\* this apartment only.
OffersAreAccepted ==
    Loaded => \A a \in EligibleApartments : UnverifiedOccupants(a) = {}

\* A draft can be published or withdrawn. Not so: Withdraw is shown for a published
\* listing only, and Publish fails while an older resident is recorded there.
DraftsCanGo ==
    \A i \in Listing : listing[i].status = "DRAFT" =>
        ENABLED PublishListing(i) \/ ENABLED WithdrawListing(i)
=============================================================================
