# Urbanity: a TLA+ model of the application's workflows

Urbanity manages residential communities: complaints and the maintenance workers
who handle them, paid home services, visits, amenity bookings, rentals, the
registration of new communities, their hierarchy and their accounts. The backend
(`src/back-end`, NestJS) keeps its state in process memory; the front end
(`src/front-end`, React) shows it and decides what people are offered. The modules here
model the workflows in which several people act on shared state over a long time, and
the pages through which they do, and say what both have to guarantee.
Paths below are relative to `src/back-end/src/modules/` unless they start with
`src/`. `PROJECT.json` maps every definition to the source lines it stands for.

## 1. The system

### How it executes

One Node process, one event loop. The repositories (`common/crud`) are arrays in
memory: `update` is `Object.assign` on the stored record, so a record that was
looked up shows later updates. The service handlers modelled here contain no
`await` between their checks and their writes, so a handler runs to completion:
**one handler call is one step**, and concurrency is the interleaving of whole
calls of different people, with whatever each of them had on the screen. A
refused request throws before its first write and changes nothing, with these
exceptions, all modelled: reading a booking expires its overdue changes; reading
a lease ends it after its last day and bills the months that are due, up to the first whose
rent exceeds the limit; the creation of a community and the approval of a registration do
several things in a row and undo them when one fails. `releasePaidService` could throw
half-way for a worker who is not reserved for the request, and `ReservationsAgree`
(section 5) implies that this never happens. A restart loses all repositories at once and
gives the initial state again; no component survives a crash with part of its state.

The front end is where requests wait. A tab sends them, may be left or reloaded before
they are answered, and shows what came back last. `Portal` models this with the session;
the other page modules look at a page that has just loaded.

What is hard here is therefore not threads but long histories: a status is
copied into another service and both change on their own; a decision was taken
against something that has been revised since; time passes between a request
and its approval; a record that others point to is moved or deleted; a page works out
for itself what the service will accept.

### Inventory

| Component | State it keeps | Operations | Uses | Status |
|---|---|---|---|---|
| Workforce (`workforce/`) | worker profiles with status, specialization, history, count; reservation map worker -> request | create, update, deactivate; for other services: set status, reserve, release, add to history | - | `Workforce` |
| Complaints (`complaints/`, `attachments/`) | complaints; private lists of assignments and reviews; proof attachments | create, edit, delete, status changes, assign, start, upload proof, resolve, verify, review | Workforce, community | `Complaints`; who may do it: `Jurisdiction` |
| Paid services (`paid-services/`) | requests with estimates, appointment, bill, evidence, payment record, version | create, assign, estimate, decide, schedule, start, progress, complete, correct bill, review cost, authorize, evidence, report, verify, confirm, cancel, review | Workforce | `PaidServices`, without the catalogue |
| Appointments (`appointments/`) | visits with requested, scheduled and proposed slot, worker, arrival | request, confirm, reschedule, decide, cancel, arrive, outcome, missed | Complaints (assigns through it) | `Appointments` |
| Amenities (`amenities/`) | amenities, bookings with changes and charges, blocks, creation keys | configure, book, cancel, approve, reject, change, decide change, block, release; expiry on access | community (occupancy) | `Amenities` |
| Rentals (`rentals/`) | listings, leases, amendments, lifecycle requests, obligations, payments, deposit records | list, propose, accept, activate, renew, end, amend, generate dues, report, verify, refund, deposit adjust / dispute, onboard a tenant | community, users | `Leases`, `RentLedger`, `RentSchedule`; in part |
| Registrations (`registrations/`) | applications with evaluation payments, payment evidence, audit; pricing | quote, submit, pay, send evidence, decide evidence, approve, reject, notify | community, users, subscriptions, mail | `Registrations` |
| Subscriptions (`subscriptions/`) | plan, contracted sizes, pending upgrade | create, pay, upgrade, capacity checks | - | `Communities`, `Registrations` |
| Community hierarchy (`community/`) | communities, towers, floors, apartments, owners | create, update, delete, transfer, associate | subscriptions, rental policy | `Communities` |
| User accounts (`users/`) | users with role and place | create, update, delete | community | `Communities` |
| Role guards, generic CRUD (`common/`) | none | check role, filter by community | - | `Jurisdiction` |
| Dashboard, reports | none | read-only projections | community, complaints | `Jurisdiction` |
| Session (`auth/`, `src/front-end/src/auth`, `api/client.js`) | token and user in `sessionStorage` and in React's state | sign in, restore, refresh, sign out, refuse | users | `Portal` |
| Asynchronous pages (`src/front-end/src/hooks`) | what a resource shows, which load is the latest | load, reload, abort, act in a dialog | session | `Portal` |
| Pages of each workflow (`src/front-end/src/features`) | what is shown, drafts of forms | buttons, forms | all | `RequestPages`, `VisitPages`, `BookingPages`, `LeasePages`, `LedgerPages`, `RegistrationPages`; submitted late: `ServiceForms`, `AmenityClients` |
| Reference data (areas, cities, offices, ...) | flat lists | generic create, read, update, delete | - | not modelled |
| Legacy prototypes (`src/front-end/<role>/script.js`, `mockData.js`) | mock arrays of one page | static pages | - | not modelled |

### How the components meet

- Complaints and paid services take workers from **one pool**. Complaints look
  at the profile's status and at their own assignment list; paid services look at
  the status and at the reservation map; profile edits look at the map only.
- Appointments call `ComplaintsService.assignWorker` when a confirmation names a
  worker for a complaint that has none; otherwise a visit and its complaint
  change independently, and the complaint may be resolved or deleted.
- Amenity bookings meet only inside one amenity: through the windows they hold,
  the windows their pending changes hold, the turnaround, the capacity, the
  maintenance blocks and the rules, which may be edited.
- Leases of one apartment meet through the listing they reserve, the dates they
  cover and the tenant they share; user records, edited elsewhere, decide whether
  an apartment is vacant when it is handed over. A lease expires, and its rent is
  billed, only when somebody reads it.
- In the ledger of a lease, tenant and manager each report and decide in turn;
  several reports wait at once, and an amendment changes the agreed deposit meanwhile.
- Towers, floors, apartments and accounts are moved by hand while complaints and
  requests that name them are open: each service compares the place it kept with the
  place as it is. Capacity is checked by every handler that adds or moves a row.
- An approval creates a community, its administrator and its subscription in one go,
  through three services, and takes them back when a later one fails. The email and the
  transaction reference of an application are compared with all others.
- Clients submit what they fetched earlier. Paid services and amenity changes
  carry a version, amenity bookings and payments the expected price; creation carries a
  key so that it can be repeated. All of a tab's requests share one session.

## 2. Modules

```
Workforce <- Complaints <- PaidServices <- ServiceDesk <- ServiceForms, RequestPages
                  ^                             ^-- MCServiceDesk
                  |                             `-- (INSTANCE) OneJob
                  `- Appointments <- VisitDesk <- VisitPages <- MCVisitDesk
ServiceForms, RequestPages <- MCServiceForms    ServiceForms, VisitPages <- ServiceDesk_proofs
Amenities <- BookingPages <- MCAmenities        Amenities <- AmenityClients <- MCAmenityClients
Leases <- LeasePages <- MCLeases                RentSchedule <- MCRentSchedule
RentLedger <- LedgerPages <- MCRentLedger
Communities <- Jurisdiction <- MCCommunities    Registrations <- RegistrationPages <- MCRegistrations
Portal <- MCPortal, Portal_proofs
LeasePages <- Leases_proofs                     Sums, LedgerPages <- RentLedger_proofs
Sums, Jurisdiction, RegistrationPages <- Communities_proofs
Sums, AmenityClients, BookingPages <- Amenities_proofs
Sums, RentSchedule <- RentSchedule_proofs
```

| Module | Models | State and code |
|---|---|---|
| `Workforce` | `workforce.service.ts` | `status`, `specialization`, `workHistory`, `completedWorkCount` are fields of the profiles; `reservation` is `paidServiceReservations`. Operators `ReservePaidService`, `ReleasePaidService`, `UpdateSystemStatus`, ... are the methods the other services call, so a handler that calls two of them is one action. |
| `Complaints` | `complaints.service.ts`, proof upload | `complaint` (with `NONE` before creation and `DELETED` after), `assignments` and `reviews` (the private arrays). One action per handler. |
| `PaidServices` | `paid-services.service.ts`, `paid-service-evidence.service.ts` | `request`, a record with all decisions and the version; every handler takes the version the client sends (`Mutation`). |
| `ServiceDesk` | the three services together | `Next` is any handler of any service. States the properties that relate them, and the refinement to `OneJob`. |
| `OneJob` | what the desk promises | a worker holds at most one job, a job is handed out once. |
| `ServiceForms` | a client of paid services | a form keeps a fetched request and is submitted with its version. |
| `RequestPages` | `PaidServicesPage.jsx` | the dialog of a request, button by button, over `ServiceDesk`. |
| `Appointments`, `VisitDesk` | `appointments.service.ts`, with complaints and workers | `appointment`; time counts hours, `Day` is the local date. |
| `VisitPages` | the representative's two details pages and modals, the worker's task, the resident's review | what is shown next to whom, the eligible workers, the slots of the picker. |
| `Amenities` | `amenities.service.ts`, `amenities.pricing.ts` | `config`, `booking`, `block`, `creationRetries`; `Available` is `validateAvailability`, `Refreshed` the expiry that reading another booking causes. |
| `AmenityClients` | `ReservationForm.jsx` over it | a form keeps a price, or a booking with its version, and is submitted late. |
| `BookingPages` | `dayOptions`, `BookingsPage.jsx`, `AmenitiesPage.jsx` and their forms | the times and totals offered, the decisions, the administrator's fields. |
| `Leases` | `rentals.service.ts`: listings, leases, lifecycle requests, monthly obligations; `associateResident` | `listing`, `lease` (a lease carries its one open request and the months it was billed for), `resident` (situation and apartment of the user record), `today`. `Refreshed` is `refreshRentals` and `ReleaseListings` the listings it releases: every handler that reads leases does both, and the views are actions of their own. |
| `LeasePages` | the inventory; `RentalsPage.jsx` of both sides, `rentalForms.js`, `rentalView.js`, `RentalOnboarding.jsx` | eligible apartments, onboarding, reviews and requests. |
| `RentLedger` | `rentals.service.ts`: payments, refunds, deposit entries, amendments | `payment`, `refund`, `entry`, `amendment` of one lease, `active` and `today`. The sums are the code's, each over its own set of statuses. |
| `LedgerPages` | `leaseView`, `depositSummary`, the money parts of both pages | figures, forms and decisions. |
| `RentSchedule` | `rentals.service.ts`: `rentForPeriod`, `escalationDates`, `nextRentIncrease`, `generateCurrentObligations`, amendments | `amendment`, `bill` (what a month owes and when), the state of the lease, `today`. |
| `Communities` | `community.service.ts`, `user-access.service.ts`, `subscription.service.ts` | every row of the hierarchy by its parent (`tower`, `floor`, `apartment`), `owner`, `place` of an account, `subscription`. |
| `Jurisdiction` | the location and authority checks of complaints and paid services, the role guard, dashboard and reports | `ticket`: what a resident filed, with its place as it was then. |
| `Registrations` | `registration.service.ts`, `createCommunity`, the two pages' requests | `application`, `evidence`, `account`, `linked` (what the approval created), `page` (the quote and view an applicant holds), `pricing`. |
| `RegistrationPages` | `RegistrationsPage.jsx`, `RegistrationPage.jsx`, `RegistrationStatusPage.jsx` | the form's steps, what is payable, the reviewer's decisions, the facts both read. |
| `Portal` | `api/client.js`, `AuthContext.jsx`, `authService.js`, `useAsyncResource.js`, a list page with its dialog, the token guard | `storage` and `session` (the two copies), `me` and `signIn` (requests under way), `shown`, `reads`, `stray`, `act` (loads and an action under way), `server`. |
| `Sums` | - | what a sum over a finite set is, for the proofs about money and attendance. |
| `*_proofs` | - | theorems of section 5. |
| `MC*` | - | constants of the instances. |

A page module has no state of its own: pages load again after every request, so what a
page shows is a function of the stores that have just been read, and an action of the
module is *the condition under which the button or form is shown* in conjunction with
*the request it sends*. Its properties compare both with what the service would do: they
ask that whoever has to go on is shown a way (`ENABLED` of the page's action) and that
what is offered is accepted. What needs no `ENABLED` - the figures shown, the times and
agreements offered - is a property of its own, so that it can be proved.

Abstractions. Titles, notes, photos, histories and mail are left out. Ratings are
left out because they decide nothing: only displays and averages read them. Amounts, references and
windows come from small sets. Opening hours, weekdays, time zones and the
booking interval are the set `hours` of bookable windows: `validateAvailability`
reads them only to accept or refuse a window. Time in `Amenities` counts booking
intervals. In `PaidServices` and `Amenities` refusals because a resident moved
away are not modelled (they change nothing). The peak of simultaneous
attendees, which the code finds by sweeping sorted events, is the maximum over
the unit slots of the window. Merging the windows of a booking before they are
counted is the existential in `Holds`.

Rentals. A listing is a community rental managed by the Community Admin; the listings of
individual owners are left out, and so is the archive. A day is the unit of time and both
ends of a lease are included. The retry key of
onboarding is left out, because a known key changes nothing. Blockers of a handover
other than residents (bookings, services) can only refuse it. `RentLedger` takes the
life of the lease from outside: `EndLease` is `refreshLease` or an approved
termination, and obligations are there from the start, because what `Leases` shows
of them does not depend on money. `RentSchedule` has one lease that is active from the start
and one kind of month. Amounts are whole cents, as the code compares them; a percentage
is rounded half up where the code rounds.

Hierarchy and registrations. Names and codes, which must be unique, and the rental policy,
which freezes an apartment or a resident, may only refuse a step, with one exception that is
kept: an owner is frozen. A registration page is known by the request id it was mounted
with; its own lock keeps its requests one after the other, but any answer may be lost, and
the view it holds may be older than the application. An approval that fails half-way
is modelled by the number of its steps that were done. The rate limit, the number of
applications that are kept and the older set-up endpoints are left out.

Portal. A request is sent in one step, handled in a second and answered in a third;
it may be lost before or after it was handled. A row is known by its version. What
runs between two awaits is one step.

The comment `Mutant:` marks an operator that no specification uses: it is a
plausible bug of the definition that follows it, and each property was seen to
fail when the definition is replaced by it (`PROJECT.json`, "mutants").


## 3. What is checked

All runs explore every reachable state of their instance. `CHECK_DEADLOCK` is off where
an instance really ends because all ids, tokens, requests and the clock are used
up; an application can always be looked at again, so `onboarding` never ends.

| Run | Instance | Properties and what they show |
|---|---|---|
| `desk` | 2 workers, 2 complaints, 1 request | `StoresAgree`: the copies of "who works for whom" in the three services agree, and a reserved worker is busy, through profile edits, deletions and cancellations. `RecordIsEarned`: the work history counts what was done. `OneJobAtATime`: the pool implements `OneJob`. |
| `paid_pair` | 2 requests of one resident, 2 workers, three windows of which one overlaps the others | `NoDoubleBooking` over reschedules; `ReferenceBacksOnePayment` over rejected and repeated reports; `OnlyOwnRequestReleases`: a corrected bill does not free a worker's newer job. |
| `paid_forms` | 1 request, 2 amounts, 2 estimates, 1 slow client, the dialog | `NoStaleSubmission`: nothing is applied to a request that changed after the decider looked. `NothingUnapproved`: work and money follow the latest decision. `RequestNeverStuck`: whosever turn it is has a button and the service takes it. |
| `visits` | 2 visits, 2 complaints (one emergency), 1 worker, 2 slots on two days, the representative's modals | `NoVisitTwice`: neither a worker's slot nor a complaint is booked twice. `VisitHeldAsRecorded`: worker and arrival of a visit are those of its complaint and its slot. `VisitWithinReach`: the modals offer exactly what both services accept, and nothing is left without its button. |
| `bookings` | 2 bookings, 2 residents, 1 block, an exclusive hall and a shared pool, the pages | `NoOverbooking` with pending changes, turnaround, blocks, limits, expiry and rule changes; `CreatedOnce`: repeating a creation makes no second booking; `OnlyApprovedChangesMove`; `FormIsExact`: exactly the bookable windows are offered. `WaitingIsHonoured`: what waits can be approved, and costs the total that was shown. `BookingWithinReach`: whatever is awaited can be decided on a page. |
| `quotes` | 1 booking, 2 changes, 3 configurations, 1 slow client | `OwedForTimeHeld`: reserved time is paid for at the original rate, rounded half up once per extension, and nothing is owed afterwards; `AcceptedAsQuoted`. |
| `leases` | 2 apartments, 2 residents (one with an older account), 2 listings, 3 leases, 3 terms, 2 availabilities, 2 months of 2 days, the pages of both sides | `LetOnce`: no two live leases share an apartment and a day. `InventoryFollowsLeases`: a listing is reserved or rented exactly while a lease of it is live, the overview counts one apartment per lease that runs, and every agreement the service takes can be entered. `AccessFollowsLease`: while a lease runs its tenant and nobody else acts for the apartment. `BilledInFull`: an ended lease owes exactly the months it touched. `LettingWithinReach`: every awaited decision and every apartment the service takes is on a page. |
| `ledger` | 2 obligations, 3 payments, 2 refunds, 3 deposit entries, 1 amendment, amounts 1 and 2, the pages of both sides | `RentAddsUp`: payments less refunds stay between 0 and what is due, accepted reports can be verified, and what is shown as paid and open is what is due. `DepositAddsUp`: every open or disputed claim on the deposit can still be granted, and what is shown as held is what is left of it. `MoneyWithinReach`: what is owed or held can be moved by the person concerned. |
| `rent` | 2 amendments over months 0 to 2 of 2 days, a lease that begins in month 1, a base increase of 50% in month 2, amended ones of +1 in month 2 or in months 1 and 2, limit 5 | `RentAsAgreed`: amendments come one after the other, a month is billed what was agreed before it began and the rent never moves before the announced date. |
| `hierarchy` | 2 of each row, 2 accounts, 4 plans, 1 ticket | `PlanRespected`: no community exceeds its plan or upgrades below its price, one apartment or a whole tower at a time. `HierarchyWhole`: deletions, moves, transfers and failed creations leave nothing that points at nothing, owners are residents, a tower has one representative. `FollowsHierarchy`: decisions and counts follow the hierarchy as it is, not as it was at filing. |
| `onboarding` | 2 applications, 2 pieces of evidence, 1 bank reference and the 4 of evaluation payments, 2 emails, fee 3, 2 prices | `ProvisionedTogether`: community, administrator and subscription exist exactly for approved applications. `PaidAsTold`: the initial part is the one that was shown, claims can be verified, a settled fee is recorded, and what the pages call due, pending and settled is what was claimed and paid. `ClaimsAreUnique`: an open application has its email to itself and a piece of evidence its reference, and what waits for its review has no reference of an evaluation payment of its application. `ApplicationNeverStuck`: the pages of both sides lead on. `ChargedAtMostShown`: an old view or a retry never charges more. |
| `portal` | 1 user, 2 tokens, a list with a row, 2 versions of it | `CopiesAgree`: the pages believe about the session what requests are sent with. `ShownNeverGoesBack`: no superseded answer is shown. `EveryWaitEnds` (liveness): restoring, signing in, busy dialogs and loading pages all end. |

The names of some properties stand for several: `StoresAgree` is `AssignmentAgrees`,
`ReservationAgrees` and `ReservedIsBusy`; `NothingUnapproved` is `WorkIsApproved` and
`PaymentIsAuthorized`; `NoOverbooking` includes `HoldsApart`, `ClosedForMaintenance` and
`LimitRespected`. Others join a rule of the services with what the pages make of it:
`RentAddsUp` contains `NeverOverpaid`, `DepositAddsUp` `DepositCovered`, `InventoryFollowsLeases` is
`ListingFollowsLeases` and `PagesFitLeases`, `PaidAsTold` is `PaidAsAgreed` and `PagesTellTheMoney`,
`WaitingIsHonoured` is `PlainHoldCanBeApproved` and `TotalsHold`; and `RentAsAgreed` contains
`OneTermsPerMonth`. They belong to one question and are checked together.

**Bounds.** Two of each kind of actor are enough for the pairwise properties: each
conflict the code checks is between the record that changes and one other.
`MaxVersion` lets a request of `paid_pair` and `paid_forms` reach its last status with
corrections in between (13 and 15 mutations), and one of `desk` complete and have its
bill corrected (8); `MaxEstimates = 2` lets an estimate be revised after
approval; `MaxTime` reaches past the end of the first window, so that visits
start, extensions and edits expire and bookings become history. `EarlyArrivalHours`,
`ChangeCutoffHours` and `HorizonHours` are scaled to a day of two hours, so that
each limit has times on both sides. Symmetry is used only over ids that no
definition distinguishes, and not where liveness is checked. Three leases let one be
renewed while another waits for the same apartment; `MCTerms` has two terms that meet a
third at its first and last day, one month boundary inside a term and one term that begins
within a month. Two cents per obligation and amounts 1 and 2 let a payment be reported
in full, in halves, or once too often; three entries are a collection, a disputed
deduction and a refund competing for the rest. The fee 3 over a duration of 2 makes an exact
half, which the code rounds up, and so does 50% of rent 3; the amendments of `rent` may both
raise it above the limit and come before, on and after the increases, and before the lease begins.

Four instances are cut further, where the product of independent parts is too large.
In `ledger` either rent is paid or the deposit is dealt with (`OneLedger`): no guard and no
part of a property reads both, so together they reach pairs of what each reaches alone.
In `hierarchy` a ticket exists only while no plan is in the way (`TicketBound`): what a
ticket's checks read is the hierarchy and its accounts, never a plan, and the moves that
a plan would refuse are all possible then. `visits` has a `VIEW` that drops the slot a settled
request once preferred and the work records: the first is only displayed and no guard or
property of that run reads the second. In `onboarding` a second piece of evidence is sent
only at the first price, while no account of others has an email of the run, no upgrade waits and
approval mails were recorded (`SecondEvidenceApart`): what waits, its reference and what is paid
depend on the price only through the initial part that was agreed, and on the rest not at all.
In `portal` the list can be loaded three times while its page is mounted: one load that is
superseded, one that an action asks for and one more. The row is loaded once each time its dialog is
opened: only a load that ended can be repeated there, so that none is superseded.

**Fairness.** Only `portal` needs it. A browser ends every request with an answer or an
error, so the requests for the session (`AnswerMe \/ LoseMe`), of the login form, of the
dialog's action and the latest load of each resource are weakly fair, each as a disjunction
with its failure. Nothing else is owed: not an answer rather than an error, not the steps of the
server, of other users or of the person at the screen. In all other modules every step is a person's
request or the clock, and nothing in the code promises that either happens, so no
liveness is claimed there; that nobody is *stuck* is what the page properties say instead.

### Disagreements between the code and what is said or shown

Met while modelling. The modules state those that are named as definitions; their
comments say why they do not hold.

Services:

- *"RESOLVED: the owner may review once"* (`src/docs/ARCHITECTURE.md:43`): the review
  recomputes the worker's rating over earlier reviewed complaints and throws once one of
  them was deleted (`ResolvedCanBeReviewed`).
- *"BUSY status is managed by worker assignment operations"* (`workforce.service.ts:95`): a
  profile edit replaces the BUSY of a worker with an active complaint assignment; only
  reservations are protected. `OneJobAtATime` holds all the same.
- *"Emergency visits stay changeable until they start"* (`appointments.service.ts:296`):
  nothing compares the time, a confirmed emergency visit can be moved after it began.
- *"Pending approval holds capacity"* (`amenities/README.md:37`): in a shared amenity with a
  turnaround, two later bookings on both sides of a waiting one can fill its window with
  their buffers (`HoldCanBeApproved`); `PlainHoldCanBeApproved` is the part that holds.
  And `transition` does not expire changes first, so a pending edit past its deadline is
  recorded as REJECTED where `amenities/README.md:49` calls it EXPIRED.
- *"Rent is generated only after approved activation and commencement"*
  (`rentals/README.md:33`): a lease terminated before it begins is billed when it was to begin
  later in that month (`rentals.service.ts:1523`, `:1539`).
- *"Agreed deposit cannot be reduced below submitted collection evidence"*
  (`rentals.service.ts:957`): checked at the proposal only (`AgreementCoversEvidence`).
- An amendment that changes only the due day or the deposit and begins on the date of an
  increase swallows that increase (`AmendmentLeavesRentAlone`). A due month whose
  rent exceeds the limit makes every read of the lease throw (`AlwaysReadable`). An
  amendment accepted after its month began is billed or not depending on who looked
  meanwhile, and one can be accepted after the lease ended.
- Deleting the tower of a representative makes the directory of every Community Admin
  fail (`DirectoryReadable`); a moved apartment keeps an owner who lives elsewhere
  (`OwnerIsNeighbour`); one complaint whose apartment was moved makes the list, the
  dashboard and the reports fail for everybody (`BoardReadable`); a community complaint is
  bound to the admin it was routed to, also after that admin left
  (`CommunityComplaintDecidable`); residents lose their requests with a moved tower
  (`RequesterReads`).
- *"pending until the balance is settled"* (`registrations/README.md:13`): an upgrade marks
  the subscription settled (`PendingUntilSettled`).
- *"disallows reusing transaction references"* (`registrations/registration.service.spec.ts:159`): so it
  is among evidence, and evidence is compared with evaluation payments too. But these are
  recorded as `MOCK-<id>-<phase>` (`registration.service.ts:273`) without a comparison, and the form of
  evidence takes such a reference: when the evidence comes first, and was reviewed, or is of another
  application, the two share it (`OnePaymentPerReference`).

Pages:

- *"Logout clears the browser session"* (`src/back-end/README.md:23`): the answer to an earlier
  `refreshUser` brings the session back (`LogoutLasts`); two callers of the shared
  request may save the user of one token under the other, and the late refusal of
  an old token ends a newer session.
- A visit to which the worker came can be ended from no page (`ArrivedCanEnd`).
- Amenity pages offer the current window of a booking as its edit, which the service refuses, and
  show changes as waiting whose own time has come (`ShownChangeCanBeApproved`).
- The inventory forgives an older resident with a lease anywhere, `createListing` one with
  a lease of this apartment only (`OffersAreAccepted`); a draft may be neither
  publishable nor withdrawable (`DraftsCanGo`); renewal defaults ignore amended terms.
- An amendment that raises the deposit leaves the tenant without a form
  (`RaisedDepositPayable`), the Withdraw button outlives the lease (`WithdrawalsAccepted`), the
  amendment form never sends a deposit, and drafts carry over between leases and payments.
- Evidence that waits cannot be decided from the page of an active registration: the reason's
  field is hidden (`EvidenceCanBeResolved`, against `registrations/README.md:18`). After
  "Pricing changed" the form keeps the stale quote until Back and a fresh review.
- A bill that is approved and unpaid is listed as history (`ActiveListsUnpaid`).

## 4. What the state machines do not promise

The properties are worth stating precisely because near misses of them are false:

- `ReservedIsBusy` has no counterpart for complaints (see above).
- `AssignmentAgrees` speaks of stored complaints only: a deleted one leaves its
  assignment active and its worker BUSY.
- `HoldsApart` speaks of upcoming reservations: when nothing is upcoming the
  administrator may change the turnaround, and old neighbours are then closer.
- `AccessFollowsLease` speaks of days on which a lease runs: between leases the user
  record decides, and it is not touched when a lease ends.
- `BilledInFull` says nothing of a lease terminated before it began.
- `BilledAsAgreed` speaks of months whose amendments were all accepted before they began.
- `BookingWithinReach`, `LettingWithinReach` and `PagesFitLeases` speak of a page that was just loaded
  (`Loaded`): the load is what expires changes and ends leases.
- `ClaimsAreUnique` compares evidence with evidence, and evidence that waits with the evaluation
  payments of its application; after its review, or between applications, a reference
  may be that of an evaluation payment as well.
- `FoundedTogether` says nothing of what a deleted community leaves: its accounts and its
  subscription stay.
- Visits and paid-service appointments of one worker are never compared by the
  code, and no document says they are; there is no property about it.

## 5. What is proved

Every theorem holds for **any** values of the constants that satisfy the named assumptions
of the modules, which TLC evaluates in the runs. Sets may be infinite unless it is said
otherwise. Each part of a proof module states its inductive invariant first, has one lemma per
handler or group of handlers, and ends with its theorems.

| Module | Theorem | States | Run |
|---|---|---|---|
| `ServiceDesk_proofs` | `DeskInvariant`, `TypeCorrect` | `[]IInv`, `[]TypeOK` | |
| | `ReservationsAgree`, `ReservedStaysBusy`, `AssignmentsAgree`, `StoresStayInStep` | `[]StoresAgree` and its three parts | `desk` |
| | `ReservedProfilesFrozen` | `ReservedProfileFrozen` | |
| | `OnlyOwnRequestsRelease` | `OnlyOwnRequestReleases` | `paid_pair` |
| | `DeskImplementsOneJob` | `OneJobAtATime`: the refinement | `desk` |
| | `RequestInvariant` | `[]RequestInv` | |
| | `AppointmentsApart`, `ReferencesUsedOnce` | `[]NoDoubleBooking`, `[]ReferenceBacksOnePayment` | `paid_pair` |
| | `OnlyApprovedWork` | `[]NothingUnapproved` | `paid_forms` |
| | `RecordsAreEarned` | `[]RecordIsEarned` | `desk` |
| | `SlowClientIsAClient`, `NothingStaleIsSubmitted` | `FormsSpec => Spec`; `NoStaleSubmission` | `paid_forms` |
| | `VisitsInvariant` | `[]VisitsInv` | |
| | `VisitsApart`, `VisitsAsRecorded` | `[]NoVisitTwice`, `[]VisitHeldAsRecorded` | `visits` |
| | `ModalsOfferWhatFits` | `[]ModalsAreExact` of every visit, a part of `VisitWithinReach` | `visits` |
| `Leases_proofs` | `LeasesInvariant`, `TypeCorrect` | `[]IInv` (with `LetIsVacant`), `[]TypeOK` | |
| | `LetAtMostOnce`, `AccessFollowsLeases` | `[]LetOnce`, `[]AccessFollowsLease` | `leases` |
| | `EndedLeasesAreBilled` | `[]BilledInFull` | `leases` |
| | `ListingsFollowLeases`, `OverviewIsRight` | `[]ListingFollowsLeases`; with it `[]InventoryFollowsLeases` | `leases` |
| | `OffersAreAll` | a loaded page offers every apartment a listing is created for | |
| `RentSchedule_proofs` | `TypeCorrect` | `[]TypeOK` | |
| | `AmendmentsAreOrdered`, `RentIsAsAgreed` | `[]OneTermsPerMonth`; with it `[]RentAsAgreed` | `rent` |
| `Communities_proofs` | `CommunitiesInvariant`, `TypeCorrect` | `[]IInv`, `[]TypeOK` | |
| | `HierarchyStaysWhole`, `PlansRespected` | `[]HierarchyWhole`, `[]PlanRespected` | `hierarchy` |
| | `JurisdictionInvariant` | `[]JurisdictionInv` | |
| | `HierarchyFollowed` | `[]FollowsHierarchy` | `hierarchy` |
| | `RegistrationsInvariant` | `[]ApprovalInv` | |
| | `ApprovalIsWhole`, `NothingClaimedTwice` | `[]ProvisionedTogether`, `[]ClaimsAreUnique` | `onboarding` |
| | `MoneyIsAsAgreed`, `PagesAreTrue` | `[]PaidAsAgreed`; with it `[]PaidAsTold` | `onboarding` |
| | `NoHiddenCharge` | `ChargedAtMostShown` | `onboarding` |
| `RentLedger_proofs` | `TypeCorrect` | `[]TypeOK` | |
| | `RentNeverOverpaid`, `RentFiguresAgree` | `[]NeverOverpaid`; with it `[]RentAddsUp` | `ledger` |
| | `DepositStaysCovered`, `DepositFiguresAgree` | `[]DepositCovered`; with it `[]DepositAddsUp` | `ledger` |
| | `FormsAreShown` | what may be paid or waits for a decision has its form | |
| `Amenities_proofs` | `TypeCorrect` | `[]TypeOK` | |
| | `NeverOverbooked` | `[]NoOverbooking` | `bookings` |
| | `WaitingCanBeApproved`, `WaitingAlwaysHonoured` | `[]PlainHoldCanBeApproved`; with it `[]WaitingIsHonoured` | `bookings` |
| | `OneBookingPerKey`, `OnlyApprovalMoves` | `[]CreatedOnce`; `OnlyApprovedChangesMove` | `bookings` |
| | `OwedAsReserved` | `[]OwedForTimeHeld` | `quotes` |
| | `FormsOfferWhatFits` | `[]FormIsExact` | `bookings` |
| | `SlowResidentIsAResident`, `FormsAcceptAsQuoted` | `ClientsSpec => Spec`; `AcceptedAsQuoted` | `quotes` |
| `Portal_proofs` | `PortalInvariant`, `TypeCorrect` | `[]IInv`, `[]TypeOK` | |
| | `SessionCopiesAgree`, `PagesOnlyAdvance` | `[]CopiesAgree`, `ShownNeverGoesBack` | `portal` |

### The worker pool (`ServiceDesk_proofs`)

Assumptions: the sentinels are not ids (`NoRequestAssumption`, `NoWorkerAssumption`,
`ServiceAssumption`), a complaint and a request ask for a specialization
(`RequiredWorkTypeAssumption`, `ServiceAssumption`), amounts are positive, and no complaint
has the id of a request (`JobIdsAssumption`; ids are random UUIDs).

The inductive invariant `IInv` is the conjunction of

- `TypeOK`, and `FiniteReviews`: the number of reviews is a number;
- `FreshRequest`: a request that waits for a worker has none and was never completed,
  and one under way has a worker - so an assignment never overwrites another, and
  what was completed once stays completed through corrected bills;
- `NewComplaintUnassigned`: a complaint that does not exist yet left no assignment, so
  creating it cannot break `AssignmentAgrees`;
- `OneActiveAssignment`: a worker has at most one assignment that is not completed;
- `ReservedHasNoAssignment`: a reserved worker has none - the two pools exclude
  each other although each is checked by a different service;
- `ReservationAgrees`, `ReservedIsBusy`, `AssignmentAgrees`: the checked properties.

`OneActiveAssignment` needs `AssignmentAgrees` (the assignment a handler completes is
the one of its complaint) and `ReservedHasNoAssignment` needs `ReservedIsBusy` and
`ReservationAgrees` (complaints only see the status, paid services only see
their own map and the assignments). None of them is inductive alone.

Twelve handlers of a request leave its job alone; they are `Routine` steps, and
`RoutineKeepsIInv` treats them at once. Assign, complete and cancel have their own lemmas,
as has every complaint handler. The refinement maps `AssignWorker` and `Assign` to `Take`,
`ResolveWork`, the first completion and the cancellation to `Drop`, and everything else to
a stutter.

A second invariant, `RequestInv`, is about the requests alone: `RowOK` of each request,
`NoDoubleBooking` and `ReferenceBacksOnePayment`. `RowOK` says what a request has in each
status: no appointment before it is scheduled, an approved and sufficient estimate while it
is worked on, a cost only once completed, and a payment only of the approved cost, under a
review of the latest estimate, with a reference until it is approved. Each handler
`Moves` one request: its place (worker, resident, window) is what it was, gone, or free; its
reference is what it was, cleared, or unused. `Moves` keeps `RequestInv` whatever the
handler does otherwise, and one lemma per handler or group of handlers shows that it moves
its request. `NothingUnapproved` is then a fact about `RowOK`.

`RecordIsEarned` needs to know where the entries of a history come from. `HistoryInv` says
that they name verified or deleted complaints, none twice, and that a verified complaint is named
in the history of its worker; `CountInv` that the review count is the number of reviews. Only
`VerifyResolution` adds an entry, of a complaint that was not verified and hence not
named. In every other step a complaint `Follows`: it is not unverified but by being deleted,
and keeps its worker.

The stale forms rest on the version. `MutationAdvances`: every handler that touches a request
adds one to its version. Hence `FormInv`: a form shows its request as it was at the version it
carries, and if that is still the version of the store, it shows the request as it is
stored. A submission that passes `Mutation`'s comparison is therefore one of a client who looked just
now, which is `NoStaleSubmission`, and with `UNCHANGED` forms for all others it is a step of
`ServiceDesk`: `FormsSpec => Spec`, so that every theorem about the desk holds with slow clients.

### Visits (`ServiceDesk_proofs`)

From `AppointmentAssumption` and the assumptions of complaints. The visit properties are
inductive with the types of complaints and visits and with `VisitsFiled`: what a visit has
in each status (`VisitOK`: a worker and a slot once it holds one, neither before), and that
its complaint was created. The proof splits by who moves. A step of the complaints
`ComplaintsKept`: a complaint once deleted stays deleted, and one that has a worker keeps
it, although it may be resolved or deleted under the visit; `VisitsSurvive` shows that this is
all that the visits rely on. A step of a visit replaces one row: `VisitReplaced` states what that row must
satisfy - its slot free for its worker, its complaint free of other visits, its worker the
complaint's, its arrival on the day of its slot - and each handler's lemma shows that its
guards give this. The assignment inside `Confirm` is `AssignKeeps`.

`ModalsOfferWhatFits` compares what the two modals work out from the lists they load with
the checks of the service, `CanConfirm` and `CanApproveReschedule`. It needs two more facts.
`AssignedOK`: a complaint's worker has a profile, work under way belongs to a complaint that
has a worker, and nobody is reserved - so the guards of `assignWorker` that no modal knows
of never refuse. `VisitsOfHomes`: community complaints have no visits. And
`CalendarWithinHorizon` shows that the days of the picker lie within the service's horizon.
What is left open is a representative who is told that the assigned worker is away.

### Leases (`Leases_proofs`)

From `LeasesAssumption`: the sentinels are not ids, dates lie within the horizon, a
month has a day. The inductive invariant is `TypeOK`, `LetIsVacant` and `Core`, a formula
about listings and leases with these parts:

- `FreshRows` and `Listed`: a lease that does not exist has no listing, tenant or request,
  and every other lease has a listing that exists - so nothing is proposed into
  somebody's history, and no listing is created under a lease;
- `Marked`: listings off the market and live leases belong to each other, and an active
  lease has a RENTED listing - so an AVAILABLE listing has no live lease and a renewal
  finds its listing rented;
- `OneOpen`: an apartment has one open listing;
- `Agreed`: an active lease is accepted and approved;
- `LetApart`: live leases of one apartment share no day, nor do active ones of one tenant.

`Core` takes the listings and the leases as arguments, because most handlers first
refresh all leases and then act on the result: `ReleaseFollows` and `SettlingKeepsCore`
show `Core` of the refreshed stores, and `ArrivalKeepsCore`, `ListingKeepsCore` or
`ActivationKeepsCore` of what the handler makes of them. A lease either `Settles` (stays what it
is, or ends), arrives or is activated; only the last two use the overlap check.
`LetIsVacant` needs no more than that a step is `Quiet`, except for the activation,
which checks it, and for `associateResident`, whose `CanMove` refuses apartments with a live lease.

`BilledInFull` has an invariant of its own, `BillsOK`, one formula per lease and day: nothing is
billed and nothing requested before the lease is active, no month is billed before it
begins, and once the lease ended the months are those it touched. Time enters only through
`MonthBegins` (a month begins by a day exactly if it is no later than the day's month, for
any length of months), from which follow `AllMonths` - once the last day of a lease has come,
every month it touches has begun, so that a late refresh still bills them all - and
`MoreMonths` - a later day has no fewer, so that what was billed stays due.

*The pages.* `PagesFitLeases` needs one more invariant, `Placed`: open listings, and the listings of all
leases, have an apartment. The overview counts apartments and the property leases, so
the proof is a bijection: on a loaded page a lease is active only while it is not over, the listings of
running leases have apartments, and two of one apartment would meet today, against `LetOnce`. Only here the
apartments must be finite, for a cardinality says nothing otherwise; that is the hypothesis of
`OverviewIsRight`, not an assumption of the model. `OffersAreAll` is an action property: the step that creates
a listing on a loaded page takes an apartment which the form offered before it. It says without
`ENABLED` what `LettingWithinReach` says of apartments.

### Rent and amendments (`RentSchedule_proofs`)

From `ScheduleAssumption`: months have days, a lease ends after it begins, rents are within the
limit, an escalation has an interval. Amendments need not be finite.

*Amendments.* `OneTermsPerMonth` is inductive with the type of the amendments and with
`EscalationsBegin`, what `validateEscalation` checks: the escalation of an amendment raises
no rent before the month after it. A proposal needs that nothing waits and begins after everything
accepted, an acceptance turns the one that waits into the last.

*Segments and months.* `rentForPeriod` goes from amendment to amendment and raises the rent a
counted number of times in between; `AgreedRent` goes month by month. `RentIsAgreed` says that they
agree whenever the rent of the month can be computed. It rests on three lemmas about what one month
more does. `RentNextMonth`: rent up to month `m + 1` is the rent up to `m`, raised once more if `m + 1`
is a month of the escalation. `TermsAfterLast`: the amendments applied in the order of their dates are the
last of them applied to all others, so the terms of month `m + 1` are those of `m` (`SameTerms`), or
one amendment more (`NewTerms`), and by `OneTermsPerMonth` never two. `AgreedNextMonth` puts both
together. The month in which an amendment begins needs `EscalationsBegin`: the new escalation
does not raise the rent at once (`NoIncreaseAtOnce`), and the old one is cut off the day before, which is
why `BilledAsAgreed` excludes an amendment that swallows an increase.

*Announcements.* `NothingUnannounced` is no matter of steps: the rent of a month that is no date of `RentDates`
is that of the month before (`RentHolds`), in any state with `IInv`, and between today's month and the
announced one there is no such date.

*Bills.* `BilledAsAgreed` speaks of a bill made once and of amendments that come later. It is inductive
with `BillsBegun`: a month is billed when its first day has come, so whatever is accepted afterwards is
accepted too late for it, and either the terms of the month stay (`AgreedStays`) or the property claims
nothing of it (`BillsStay`). What is billed in a step is computed from the terms of that
moment (`BillsMade`). `TypeCorrect` follows on the way: no bill is made of `TooHigh`.

*Recursion.* Runs of increases, months and folds over sets of amendments are recursive functions, and the library's
induction theorems cannot be cited for them. Each induction is done with sets instead: the
numbers or subsets of which a claim holds, and a least number (`LeastNumber`, `CountUp`) or a
minimal subset (`SubsetInduction` of `Sums`) of which it does not.

What the proof taught: a first version of `AgreedRent` began in the month of the lease's first
day. `AgreedUnfolds` could not be used for amendments before it, and rightly so: an active lease
may be amended from a month before it begins, with effect on its first bill.

### The hierarchy (`Communities_proofs`)

From `CommunitiesAssumption`: plans and rates are numbers, the kinds of rows are disjoint,
towers and apartments are finite sets (communities, floors and users need not be).
`TypeOK`, `HierarchyWhole` and `PlanRespected` are inductive together: capacity is counted
along rows that hang together, and a tower that is moved takes apartments with it. A count is
changed in one of three ways, each with its lemma: rows leave (`FewerFit`), one comes
(`OneMore`), several come at once (`SeveralMore`, from the cardinality of a union); and
`NothingInNone` starts a community that is founded at zero. The handlers' own checks then
supply what the lemma asks for.

`JurisdictionInv` adds that a complaint keeps an apartment and an account (`ComplaintsFiled`);
tickets hold no change of the hierarchy back, so that a step of `JurisdictionNext` is
a step of `Communities` or leaves it alone, and its invariant is used as it is. `FollowsHierarchy` then
needs no induction: a matched location is the path of the rows that hang together
(`MatchedLocation`), and a tower has one representative.

### Registrations (`Communities_proofs`)

From `RegistrationsAssumption`. `ProvisionedTogether` and `ClaimsAreUnique` are inductive with
the shape of the stores (`StoresOK`: an open application has an email, a piece of evidence
that was sent has an application and a reference): `ApprovalInv`. `PaymentsKeep` says that a step which
leaves decisions, emails and evidence as they are keeps it, if it records payments only for applications
without evidence that waits; so `mockPayment`'s own check is what keeps references apart then
(`StaysAlone`). `FailureKeeps` says that an approval that fails
half-way leaves what it found.

What payments add up to has an invariant of its own, `MoneyOK` of each application: nothing
is agreed or offered before it is submitted, and then the initial part is the one of the quote its
applicant held; what is paid and claimed stays within the limit of its phase; an approved
application has paid its initial part, and its balance is recorded. The sums are reasoned about
with `Sums`: a handler changes one piece of evidence, so `Paid` and `Committed` change by its
amount. `PaidAsAgreed` is a part of it. `ChargedAtMostShown` needs the last conjunct, that an
old page never offers less than what is due: the limit of a phase
stays whatever is configured meanwhile, and what is paid only grows.

`PagesTellTheMoney` compares sums over different sets: what is pending on the page is claimed less
paid (`WhatWaits`), and the page's smallest and largest of two amounts are taken apart by `Extremes`. It
needs `AmountsEntered` - every piece of evidence has one of the amounts that the form takes, so none is
zero and one that waits is seen in the sum - and that what is paid and claimed
stays within the limit of the phase (`MoneyOK`).

### Sums (`Sums`)

`SumFunctionOnSet` of the community modules is a fold, defined by recursion over a set. Nothing that
takes an operator can be cited, so the induction is done with sets: `SubsetInduction` takes the set
of the subsets for which a claim holds, and follows from the library's theorem that the
strict subsets of a finite set are well founded. It gives `SumIsUnits`: a sum of naturals is the
cardinality of the set of its units (`f[x]` pairs for each `x`). Everything else is then about
cardinalities: `SumOfOneMore`, `SumOfUnion`, `SumOfSubset`, `SumIsMonotonic`, `SumOfGroups` (a sum by
groups is the sum) and `SumAfterChange` (when one term changes, the sum does by as much).

### The ledger (`RentLedger_proofs`)

From `LedgerAssumption`: amounts are positive, what is due and the first deposit are naturals. Obligations,
payments, refunds and entries need not be finite: `FinitelyMany` says that those in use are. The
inductive invariant is `TypeOK`, `RentInv` and `DepositInv`. `RentInv` consists of

- `RowsRefer` and `RefundsOfReceived`: a report has an obligation and a refund a payment, which
  is and stays verified;
- `ClaimsCovered`: what is claimed back of a payment, confirmed or not, is in it - without it two
  refunds that wait could both be confirmed;
- `DueCovered`: if all reports that wait were verified, the obligation would not receive more than it
  asks for - so that reports that were accepted in turn never exceed it together, and the same
  check, which `reviewPayment` repeats, refuses none of them.

`DepositInv` is `DepositCovered` itself, which already counts entries that wait or are
disputed. Rent and deposit are proved apart: `RentUnchanged` and `DepositUnchanged` say that neither
reads the other's rows. Every handler changes one row, and `TotalAfter` says what
this does to a total; what remains is the arithmetic of the handler's guard.
`NeverOverpaid` adds that what was returned is part of what was received (`ReturnedWithinReceived`):
each refund is part of its payment, and the refunds are summed by payment (`SumOfGroups`).

What the pages print needs no new invariant, but both: the page cuts off below zero what is outstanding and what is
held, and the figures add up only because `NeverOverpaid` and `DepositCovered` keep it from
ever cutting. `FormsShown` is about the buttons: where something may still be paid or waits for a decision, its form is drawn.

### Amenities (`Amenities_proofs`)

From `AmenityAssumption`: configurations are of their type, windows are not empty, the sentinels are
not ids. Bookings, residents, keys and configurations need not be finite.

*Rows.* `RowsInv` is `TypeOK` and, of each booking, `RowOK`: its shape (`ShapeOK`: at most one
change waits), its prices (`PricesOK`: an extension costs what its minutes cost at the original
rate), its charges (`ChargesOK`: one for each approved extension, of its fee, and the booking is no
longer than what was reserved and charged) and what it owes (`OwedOK`). Whatever the handler,
each booking makes a `RowStep`: it stays, expires its changes, is withdrawn, decided, changed or
is new. `RowStepKeeps` shows `RowOK` of each of these once, and one lemma per handler shows
that it moves every booking by a `RowStep` - also those that it only reads, since reading expires
changes. `OwedForTimeHeld` and `OnlyApprovedChangesMove` follow from `RowOK` and `RowStep` alone.

*Keys.* `KeysAgree`: an answered key names a booking that was made with it by that resident, and every
booking made with a key has its answer, hence `CreatedOnce`.

*Space.* `FitsInv` has the parts of `NoOverbooking` for what a booking holds *at a time* (`HeldAt`: its
window and those of changes that are not overdue), and two more: `ConfiguredAt`, that what is
reserved still fits the rules in force, and that finitely many bookings were made, without which
attendees could not be added up. A booking either `Narrows` - time passes, a change expires, it is
withdrawn, refused, or moves to a window that it held already - or it takes one window, for which
the handler has called `validateAvailability`. `NarrowFits` keeps everything for the
first kind; `AvailableIsFree` and `WidenFits` for the second, where the attendees of each instant grow
by those of one booking. Rules that decide about reservations change while nothing is ahead
(`NewRulesFit`), others at any time (`SameRulesFit`), and a new block closes only what is free
(`BlockFits`).

`PlainHoldCanBeApproved` is `WaitingFits`: what waits is part of `FitsInv` with all others, so the
check that the approval repeats finds the same room. A turnaround in a shared amenity is what
breaks this, and the property excludes it.

*Slow residents.* Each step gives a booking that it changes a new version, and keeps its terms
and decided changes (`Keeps`). So a form shows a booking as it is stored or one of an earlier version
(`FormInv`), a change is submitted only against the booking shown, and its fee is the one shown, for
the original rate and the end of the booking are. Such a submission is a step of `Amenities`:
`ClientsSpec => Spec`.

*Forms.* `TotalsHold` follows from `RowOK`: a change that waits keeps the fee of the original rate
(`PricesOK`) and the extensions that were approved are those charged (`ChargesOK`), so approving it
adds to the charge what the form showed, whatever the amenity costs by then (`ChargedAsShown`).
`FormIsExact` compares the form, which tries each start with the shortest stay and then the ends one
by one, with `validateAvailability` of a whole window. `OfferedIsValid` is the easy half. For the other one
must know that a start is not lost: if any window from it fits, the shortest one does (`ShorterStay`: a
window within another is free of holds and blocks if that is, meets the same notice, and in each of
its instants has no more attendees), and there is a first end that fits (`LeastNumber`).
The invariant `Attended`, that every booking has attendees, is what tells a booking that edits
itself from none.

### A tab (`Portal_proofs`)

From `PortalAssumption`. `CopiesAgree` and `ShownNeverGoesBack` follow from `TypeOK` and

- `ScreenOK`: pages are mounted only while somebody is signed in and show only what they
  loaded themselves;
- `LoadsNumbered`: loads belong to mounted pages, their numbers are unique and at most the
  latest, and the latest one is what the page waits for;
- `LoadsAhead`: what is on its way is no newer than the server's row, and what the
  latest load was answered is no older than what it will replace;
- `ActionAhead`: a busy dialog loads nothing, and the answer of its action is no older than
  what it shows.

`ShownNeverGoesBack` uses `LoadsAhead` for answers of loads and `ActionAhead` for the
dialog's, and that what is left or reloaded (`GoneKeeps`, `CloseKeeps`) shows nothing.

### Only model-checked

- That pages leave nobody stuck (`RequestNeverStuck`, `VisitWithinReach`,
  `BookingWithinReach`, `LettingWithinReach`, `MoneyWithinReach`, `ApplicationNeverStuck`) is
  stated with `ENABLED`, and `EveryWaitEnds` is liveness: both are beyond the prover. What these pages show
  and offer is proved (`ModalsAreExact`, `PagesFitLeases`, `RentAddsUp`, `DepositAddsUp`,
  `PagesTellTheMoney`, `FormIsExact`, `TotalsHold`).

## 6. Not modelled, and what is left

Left out because there is nothing in it to get wrong over several steps:

- *Legacy prototypes* (`src/front-end/Community Admin/script.js`, `Dept Head/`,
  `Tower Representative/`, `Resident/`, `Maintenance Worker/`, `Super Admin/`, `mockData.js`
  and `src/front-end/api.js`): static pages over mock arrays. The application does not load
  them: `src/front-end/index.html` starts `src/main.jsx`.
- *Reference data* (areas, cities, offices, departments, roles, supports, feedback, and the
  generic assignment and update records): the generic repository without rules of its own.
- The paid-service catalogue, the older account set-up endpoints of registrations, reminders,
  attachments, schemas and seed data, mail texts, tables, filters and styles.

Left out although there is something to it:

- Rentals of individual owners and private arrangements (`assignOwner`, the legacy half of
  `createListing`), which share the lease machinery but ask other people; the retry keys of onboarding.
- React's StrictMode, which mounts every page twice in development.
- The composition of complaints with amenity bookings and rentals in one state space: they
  meet in the user records only, whose effect on each is modelled where it bites.

Next, in this order: owners in `Leases`; the catalogue with its prices in `PaidServices`.
