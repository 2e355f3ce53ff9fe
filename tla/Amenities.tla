------------------------------ MODULE Amenities ------------------------------
(****************************************************************************)
(* One amenity of a community, its bookings, the changes residents ask for  *)
(* and its maintenance blocks:                                              *)
(* back-end/src/modules/amenities/amenities.service.ts and                  *)
(* amenities.pricing.ts. Amenities never look at each other's bookings.     *)
(*                                                                          *)
(* Time is counted in whole booking intervals; a window is a record         *)
(* [from, to] and half open. Opening hours, weekdays and interval alignment *)
(* are the set of windows the configuration lets residents book. Handlers   *)
(* run to completion, and a request that is refused changes nothing except  *)
(* that reading a booking expires its overdue changes (Access).             *)
(****************************************************************************)
EXTENDS Integers, Sequences, FiniteSets, FiniteSetsExt

CONSTANTS
    Booking,      \* booking ids
    Block,        \* maintenance block ids
    Resident,
    Config,       \* configurations the administrator may set
    Window,       \* windows the clients ask for
    BlockWindow,  \* windows the administrator blocks
    Attendees,    \* numbers of attendees the clients ask for
    Key,          \* clientRequestId values
    NoKey,        \* clientRequestId left out when booking
    NoResident,   \* booking not created yet
    MaxChanges,   \* bound: changes per booking
    MaxTime       \* bound: the clock

ConfigType ==
    [open : BOOLEAN,                 \* status = ACTIVE
     hours : SUBSET Window,
     exclusive : BOOLEAN,
     capacity : Nat,
     turnaround : Nat,
     allowExtensions : BOOLEAN,
     requiresApproval : BOOLEAN,
     cutoff : Nat,                   \* cancellationCutoffMinutes
     maxActive : Nat,
     notice : Nat,                   \* advanceDays
     minDuration : Nat,
     maxDuration : Nat,
     fee : Nat,
     deposit : Nat]

ASSUME AmenityAssumption ==
    /\ Config \subseteq ConfigType
    /\ Window \cup BlockWindow \subseteq {w \in [from : Nat, to : Nat] : w.from < w.to}
    /\ Attendees \subseteq Nat \ {0}
    /\ NoKey \notin Key
    /\ NoResident \notin Resident
    /\ {MaxChanges, MaxTime} \subseteq Nat

VARIABLES
    config,            \* the stored Amenity
    booking,           \* the stored bookings
    block,             \* the stored maintenance blocks
    creationRetries,   \* creation requests that were answered with a booking
    now                \* Date.now()

vars == <<config, booking, block, creationRetries, now>>

ChangeStatus == {"PENDING_APPROVAL", "APPROVED", "REJECTED", "EXPIRED"}
PaymentStatus == {"NOT_REQUIRED", "PENDING", "VOIDED"}

ChangeType ==
    [key : Key, kind : {"EDIT", "EXTEND"}, status : ChangeStatus, from : Nat, to : Nat,
     minutes : Nat,      \* extensionDurationMinutes
     fee : Nat]          \* extensionFeeMinor

\* A change is known by its place in the booking's list.
ChargeType == [change : Nat, amount : Nat, payment : PaymentStatus]

BookingType ==
    [status : {"NONE", "PENDING_APPROVAL", "APPROVED", "REJECTED", "CANCELLED"},
     resident : Resident \cup {NoResident},
     key : Key \cup {NoKey},
     from : Nat, to : Nat,
     attendees : Nat,
     version : Nat,
     fee : Nat, deposit : Nat,
     originalDuration : Nat,
     payment : PaymentStatus,
     changes : Seq(ChangeType),
     charges : Seq(ChargeType)]

BlockType == [status : {"NONE", "BLOCKED", "RELEASED"}, from : Nat, to : Nat]

\* Which booking answered a resident's key.
RetryType == [resident : Resident, key : Key, id : Booking]

TypeOK ==
    /\ config \in Config
    /\ booking \in [Booking -> BookingType]
    /\ block \in [Block -> BlockType]
    /\ creationRetries \in SUBSET RetryType
    /\ now \in Nat

NoBooking ==
    [status |-> "NONE", resident |-> NoResident, key |-> NoKey, from |-> 0, to |-> 0,
     attendees |-> 0, version |-> 0, fee |-> 0, deposit |-> 0, originalDuration |-> 0,
     payment |-> "NOT_REQUIRED", changes |-> <<>>, charges |-> <<>>]

Init ==
    /\ config \in Config
    /\ booking = [b \in Booking |-> NoBooking]
    /\ block = [k \in Block |-> [status |-> "NONE", from |-> 0, to |-> 0]]
    /\ creationRetries = {}
    /\ now = 0

-----------------------------------------------------------------------------
(* Holds: what a booking keeps others from using. *)

Active(q) == q.status \in {"PENDING_APPROVAL", "APPROVED"}

Upcoming(q) == Active(q) /\ q.to > now

Span(q) == [from |-> q.from, to |-> q.to]

PendingChanges(q) == {i \in DOMAIN q.changes : q.changes[i].status = "PENDING_APPROVAL"}

\* The deadline of a pending change has passed: the end of the booking for an
\* extension, the cancellation cutoff for an edit.
Overdue(q, i) ==
    /\ i \in PendingChanges(q)
    /\ IF q.changes[i].kind = "EXTEND" THEN q.to <= now ELSE q.from <= now + config.cutoff

\* expireChanges(): what a booking looks like once it has been read.
ExpireChanges(q) ==
    IF \E i \in DOMAIN q.changes : Overdue(q, i)
    THEN [q EXCEPT
            !.version = @ + 1,
            !.changes = [i \in DOMAIN @ |-> IF Overdue(q, i) THEN [@[i] EXCEPT !.status = "EXPIRED"]
                                            ELSE @[i]]]
    ELSE q

\* heldIntervals(): the booking and the windows its pending changes ask for.
HeldIntervals(q) == {Span(q)} \cup {Span(q.changes[i]) : i \in PendingChanges(q)}

\* bufferedOverlap()
BufferedOverlap(a, b, buffer) == a.from < b.to + buffer /\ b.from < a.to + buffer

\* What the other bookings, read just now, hold. The union of a booking's
\* windows counts once.
Refreshed(o) == IF Active(booking[o]) THEN ExpireChanges(booking[o]) ELSE booking[o]

Others(b) == {o \in Booking \ {b} : Active(booking[o])}

Holds(o, w) == \E h \in HeldIntervals(Refreshed(o)) : BufferedOverlap(h, w, config.turnaround)

\* The attendees of the bookings in S.
Occupied(S) == SumFunctionOnSet([o \in Booking |-> booking[o].attendees], S)

\* Mutant: the new attendees are not counted.
OthersFit(w, n, b) ==
    \A t \in w.from .. w.to - 1 :
        Occupied({o \in Others(b) : Holds(o, [from |-> t, to |-> t + 1])}) <= config.capacity

\* The peak of simultaneous attendees.
EverybodyFits(w, n, b) ==
    \A t \in w.from .. w.to - 1 :
        n + Occupied({o \in Others(b) : Holds(o, [from |-> t, to |-> t + 1])}) <= config.capacity

NotBlocked(w) ==
    ~\E k \in Block : block[k].status = "BLOCKED" /\ BufferedOverlap(block[k], w, config.turnaround)

WithinLimit(r, b) ==
    Cardinality({o \in Others(b) : booking[o].resident = r /\ booking[o].to > now}) < config.maxActive

\* validateAvailability() of window w for n attendees, not counting booking b.
\* started: the window may have begun. noticed: notice was given before.
Available(w, n, b, started, noticed) ==
    /\ w.to > now
    /\ started \/ w.from > now
    /\ config.open
    /\ started \/ noticed \/ w.from >= now + config.notice
    /\ w.to - w.from \in config.minDuration .. config.maxDuration
    /\ n <= config.capacity
    /\ w \in config.hours
    /\ NotBlocked(w)
    /\ config.exclusive => ~\E o \in Others(b) : Holds(o, w)
    /\ EverybodyFits(w, n, b)

\* A write stores q as booking b; the others have been read.
StoreReading(b, q) == booking' = [o \in Booking |-> IF o = b THEN q ELSE Refreshed(o)]

Store(b, q) == booking' = [booking EXCEPT ![b] = q]

-----------------------------------------------------------------------------
(* Extension fees. *)

\* extensionFeeMinor(): proportional, rounded half up.
ExtensionFee(fee, duration, minutes) == (2 * fee * minutes + duration) \div (2 * duration)

\* Mutant: the current duration instead of the original one.
CurrentRateQuote(q, to) == ExtensionFee(q.fee, q.to - q.from, to - q.to)

\* What extending q to the given end costs: always at the original rate.
Quote(q, to) == ExtensionFee(q.fee, q.originalDuration, to - q.to)

\* approvedExtensionCharge(): one charge for one approved extension.
Charge(q, i, change) ==
    IF change.kind # "EXTEND" \/ \E c \in DOMAIN q.charges : q.charges[c].change = i THEN q
    ELSE LET due == IF change.fee > 0 THEN "PENDING" ELSE "NOT_REQUIRED" IN
         [q EXCEPT !.charges = Append(@, [change |-> i, amount |-> change.fee, payment |-> due]),
                   !.payment = IF change.fee > 0 THEN "PENDING" ELSE @]

-----------------------------------------------------------------------------
(* Residents. *)

\* Mutant: a repeated request is not recognised.
AnswerAgain(r, key) == FALSE

\* This resident's key was answered before; the handler then only returns
\* the booking, or refuses.
Answered(r, key) == \E p \in creationRetries : p.resident = r /\ p.key = key

\* What the amenity costs now.
Price == [fee |-> config.fee, deposit |-> config.deposit]

CurrentPrice(price) == price = Price

\* price is what the resident was shown.
Book(b, r, key, w, n, price) ==
    /\ booking[b].status = "NONE"
    /\ ~Answered(r, key)
    /\ CurrentPrice(price)
    /\ Available(w, n, b, FALSE, FALSE)
    /\ WithinLimit(r, b)
    /\ StoreReading(b,
         [NoBooking EXCEPT
            !.status = IF config.requiresApproval THEN "PENDING_APPROVAL" ELSE "APPROVED",
            !.resident = r, !.key = key, !.from = w.from, !.to = w.to, !.attendees = n,
            !.version = 1, !.fee = config.fee, !.deposit = config.deposit,
            !.originalDuration = w.to - w.from,
            !.payment = IF config.fee + config.deposit > 0 THEN "PENDING" ELSE "NOT_REQUIRED"])
    /\ creationRetries' =
         IF key = NoKey THEN creationRetries
         ELSE creationRetries \cup {[resident |-> r, key |-> key, id |-> b]}
    /\ UNCHANGED <<config, block, now>>

\* eligibleChange()
Eligible(q, kind) ==
    /\ Active(q)
    /\ PendingChanges(q) = {}
    /\ IF kind = "EXTEND"
       THEN config.allowExtensions /\ q.status = "APPROVED" /\ q.to > now
       ELSE q.from > now + config.cutoff

\* validateChange()
ValidChange(b, q, kind, w, noticed) ==
    /\ IF kind = "EXTEND" THEN w.from = q.from /\ w.to > q.to
       ELSE w.to - w.from <= q.to - q.from
    /\ Available(w, q.attendees, b, kind = "EXTEND", noticed)
    /\ WithinLimit(q.resident, b)

\* Mutant: the new window is stored at once.
MovedWhenRequested(q, c) ==
    [q EXCEPT !.version = @ + 1, !.changes = Append(@, c), !.from = c.from, !.to = c.to]

\* The booking after change c was accepted, approved automatically or not.
WithChange(q, c) ==
    LET next == [q EXCEPT !.version = @ + 1, !.changes = Append(@, c)] IN
    IF c.status = "APPROVED"
    THEN [Charge(next, Len(next.changes), c) EXCEPT !.from = c.from, !.to = c.to]
    ELSE next

\* Mutant: any version is accepted.
AnyVersion(q, v) == TRUE

CurrentVersion(q, v) == q.version = v

\* change(): v is the version the resident's screen showed. A key the booking
\* already has is a retry, which is answered without a further change.
RequestChange(b, v, key, kind, w) ==
    LET q == ExpireChanges(booking[b])
        extends == kind = "EXTEND"
    IN
    /\ q.status # "NONE"
    /\ Len(q.changes) < MaxChanges
    /\ ~\E i \in DOMAIN q.changes : q.changes[i].key = key
    /\ CurrentVersion(q, v)
    /\ Eligible(q, kind)
    /\ ValidChange(b, q, kind, w, FALSE)
    /\ w # Span(q)
    /\ StoreReading(b, WithChange(q,
         [key |-> key, kind |-> kind, from |-> w.from, to |-> w.to,
          status |-> IF config.requiresApproval THEN "PENDING_APPROVAL" ELSE "APPROVED",
          minutes |-> IF extends THEN w.to - q.to ELSE 0,
          fee |-> IF extends THEN Quote(q, w.to) ELSE 0]))
    /\ UNCHANGED <<config, block, creationRetries, now>>

\* What cancelling and rejecting do to a booking.
Withdrawn(q, s) ==
    [q EXCEPT
        !.status = s, !.version = @ + 1,
        !.payment = IF @ = "PENDING" THEN "VOIDED" ELSE @,
        !.changes = [i \in DOMAIN @ |-> IF i \in PendingChanges(q)
                                        THEN [@[i] EXCEPT !.status = "REJECTED"] ELSE @[i]],
        !.charges = [i \in DOMAIN @ |-> IF @[i].payment = "PENDING"
                                        THEN [@[i] EXCEPT !.payment = "VOIDED"] ELSE @[i]]]

\* By the resident or the administrator; the booking is not read first.
Cancel(b) ==
    LET q == booking[b] IN
    /\ Active(q)
    /\ q.from > now + config.cutoff
    /\ Store(b, Withdrawn(q, "CANCELLED"))
    /\ UNCHANGED <<config, block, creationRetries, now>>

-----------------------------------------------------------------------------
(* The administrator. *)

CanApprove(b) ==
    /\ booking[b].status = "PENDING_APPROVAL"
    /\ booking[b].from > now
    /\ Available(Span(booking[b]), booking[b].attendees, b, FALSE, TRUE)

Approve(b) ==
    /\ CanApprove(b)
    /\ StoreReading(b, [booking[b] EXCEPT !.status = "APPROVED", !.version = @ + 1])
    /\ UNCHANGED <<config, block, creationRetries, now>>

Reject(b) ==
    /\ booking[b].status = "PENDING_APPROVAL"
    /\ booking[b].from > now
    /\ Store(b, Withdrawn(booking[b], "REJECTED"))
    /\ UNCHANGED <<config, block, creationRetries, now>>

Decided(q, i, s) == [q EXCEPT !.version = @ + 1, !.changes[i].status = s]

\* decideChange(), approving: everything is checked again.
ApproveChange(b, i) ==
    LET q == ExpireChanges(booking[b])
        c == q.changes[i]
    IN
    /\ i \in PendingChanges(q)
    /\ Active(q)
    /\ IF c.kind = "EXTEND"
       THEN config.allowExtensions /\ q.status = "APPROVED" /\ q.to > now
       ELSE q.from > now + config.cutoff
    /\ ValidChange(b, q, c.kind, Span(c), TRUE)
    /\ StoreReading(b, [Charge(Decided(q, i, "APPROVED"), i, c) EXCEPT !.from = c.from, !.to = c.to])
    /\ UNCHANGED <<config, block, creationRetries, now>>

RejectChange(b, i) ==
    LET q == ExpireChanges(booking[b]) IN
    /\ i \in PendingChanges(q)
    /\ Active(q)
    /\ Store(b, Decided(q, i, "REJECTED"))
    /\ UNCHANGED <<config, block, creationRetries, now>>

Rules(c) == [c EXCEPT !.fee = 0, !.deposit = 0]

\* Mutant: upcoming reservations do not matter.
AnyConfig(c) == TRUE

\* Prices may always change, rules only while nothing is upcoming.
MayConfigure(c) == Rules(c) # Rules(config) => ~\E b \in Booking : Upcoming(booking[b])

Update(c) ==
    /\ MayConfigure(c)
    /\ config' = c
    /\ UNCHANGED <<booking, block, creationRetries, now>>

AddBlock(k, w) ==
    /\ block[k].status = "NONE"
    /\ w.from > now
    /\ ~\E o \in Booking : Active(booking[o]) /\ Holds(o, w)
    /\ ~\E j \in Block : block[j].status = "BLOCKED" /\ BufferedOverlap(block[j], w, 0)
    /\ block' = [block EXCEPT ![k] = [status |-> "BLOCKED", from |-> w.from, to |-> w.to]]
    /\ booking' = [o \in Booking |-> Refreshed(o)]
    /\ UNCHANGED <<config, creationRetries, now>>

ReleaseBlock(k) ==
    /\ block[k].status = "BLOCKED"
    /\ block' = [block EXCEPT ![k].status = "RELEASED"]
    /\ UNCHANGED <<config, booking, creationRetries, now>>

-----------------------------------------------------------------------------

\* A listing, an availability query, a retry or a refused request reads these
\* bookings.
Access(read) ==
    /\ booking' = [o \in Booking |-> IF o \in read THEN ExpireChanges(booking[o]) ELSE booking[o]]
    /\ UNCHANGED <<config, block, creationRetries, now>>

Tick ==
    /\ now < MaxTime
    /\ now' = now + 1
    /\ UNCHANGED <<config, booking, block, creationRetries>>

\* Every change a client may send for booking b with version v.
AnyChange(b, v) ==
    \E key \in Key, kind \in {"EDIT", "EXTEND"}, w \in Window : RequestChange(b, v, key, kind, w)

Next ==
    \/ \E b \in Booking :
           \/ \E r \in Resident, key \in Key \cup {NoKey}, w \in Window, n \in Attendees :
                  Book(b, r, key, w, n, Price)
           \/ Cancel(b) \/ Approve(b) \/ Reject(b)
           \/ AnyChange(b, booking[b].version)
           \/ \E i \in 1..MaxChanges : ApproveChange(b, i) \/ RejectChange(b, i)
    \/ \E c \in Config : Update(c)
    \/ \E k \in Block : ReleaseBlock(k) \/ \E w \in BlockWindow : AddBlock(k, w)
    \/ \E read \in SUBSET Booking : Access(read)
    \/ Tick

Spec == Init /\ [][Next]_vars

-----------------------------------------------------------------------------

\* Two windows leave the turnaround between them.
Apart(a, b) == ~BufferedOverlap(a, b, config.turnaround)

\* In an exclusive amenity no two reservations come closer than the
\* turnaround, the windows that wait for approval included, whatever was
\* edited, extended, expired or cancelled in between. Reservations that ended
\* may have been made under other rules.
HoldsApart ==
    config.exclusive =>
        \A o, p \in Booking :
            o # p /\ Active(booking[o]) /\ Upcoming(booking[p]) =>
                \A h \in HeldIntervals(Refreshed(o)), g \in HeldIntervals(Refreshed(p)) : Apart(h, g)

\* "Shared amenities use peak simultaneous attendee occupancy": from now on
\* there are never more attendees than the capacity, counting a booking with
\* a pending change once.
WithinCapacity ==
    \A t \in {u \in UNION {w.from .. w.to - 1 : w \in Window} : now <= u} :
        LET present == {o \in Booking : /\ Active(booking[o])
                                        /\ \E h \in HeldIntervals(Refreshed(o)) : h.from <= t /\ t < h.to}
        IN Occupied(present) <= config.capacity

\* A resident never has more upcoming reservations than the limit of the
\* configuration in force.
LimitRespected ==
    \A r \in Resident :
        Cardinality({o \in Booking : booking[o].resident = r /\ Upcoming(booking[o])}) <= config.maxActive

\* A maintenance block stays clear of every upcoming reservation, with the
\* turnaround, also of those extended or moved after it was set.
ClosedForMaintenance ==
    \A k \in Block, o \in Booking :
        block[k].status = "BLOCKED" /\ Upcoming(booking[o]) =>
            \A h \in HeldIntervals(Refreshed(o)) : Apart(h, block[k])

\* The amenity is never booked beyond its rules, whether it is used by one party
\* at a time or shared, neither by one resident alone nor into maintenance, while
\* bookings, their pending changes, the blocks and the rules themselves change.
NoOverbooking == HoldsApart /\ WithinCapacity /\ LimitRespected /\ ClosedForMaintenance

\* "Pending approval holds capacity": before it starts, a booking that waits
\* for approval can be approved. It does not hold in a shared amenity with a
\* turnaround: bookings accepted just before and just after a waiting one add up
\* in its window once its own buffer counts (amenities.service.ts:293).
HoldCanBeApproved ==
    \A b \in Booking :
        booking[b].status = "PENDING_APPROVAL" /\ booking[b].from > now => CanApprove(b)

\* ... which the code guarantees in exclusive amenities and in those without
\* a turnaround.
PlainHoldCanBeApproved ==
    config.exclusive \/ config.turnaround = 0 => HoldCanBeApproved

\* "Original dates/status/charges remain intact until approval": a booking
\* moves only in the step that makes one of its changes APPROVED, to the
\* window of that change, and a decided change stays decided.
OnlyApprovedChangesMove ==
    [][\A b \in Booking :
          LET q == booking[b]
              r == booking'[b]
              approved == {i \in DOMAIN r.changes : r.changes[i].status = "APPROVED"}
              before == {i \in DOMAIN q.changes : q.changes[i].status = "APPROVED"}
          IN q.status # "NONE" =>
                /\ Span(r) # Span(q) => \E i \in approved \ before : Span(r.changes[i]) = Span(r)
                /\ \A i \in DOMAIN q.changes \ PendingChanges(q) : r.changes[i] = q.changes[i]]_vars

\* A resident's key stands for one booking: repeated and delayed creation
\* requests never make a second one, also after it was cancelled or rejected.
CreatedOnce ==
    \A b \in Booking :
        booking[b].key # NoKey =>
            {p.id : p \in {e \in creationRetries :
                              e.resident = booking[b].resident /\ e.key = booking[b].key}} = {b}

\* Reserved time is charged time: a booking is as long as what was paid for
\* at first plus the extensions charged, each approved extension has exactly
\* one charge, and the charge is within half a unit of the original rate.
TimeIsCharged ==
    \A b \in Booking :
        LET q == booking[b]
            extensions == {i \in DOMAIN q.changes :
                              q.changes[i].kind = "EXTEND" /\ q.changes[i].status = "APPROVED"}
        IN /\ q.to - q.from <=
                q.originalDuration
                    + SumFunctionOnSet([i \in DOMAIN q.changes |-> q.changes[i].minutes], extensions)
           /\ extensions = {q.charges[c].change : c \in DOMAIN q.charges}
           /\ Cardinality(extensions) = Len(q.charges)
           /\ \A c \in DOMAIN q.charges :
                 LET exact == q.fee * q.changes[q.charges[c].change].minutes
                     charged == q.charges[c].amount * q.originalDuration
                 IN /\ 2 * (charged - exact) <= q.originalDuration
                    /\ 2 * (exact - charged) < q.originalDuration

\* Nothing is owed for a booking that is cancelled or rejected, and an active
\* one is marked unpaid exactly when something is.
NothingOwedAfterwards ==
    \A b \in Booking :
        LET q == booking[b]
            owed == {c \in DOMAIN q.charges : q.charges[c].payment = "PENDING"}
        IN IF Active(q)
           THEN (q.payment = "PENDING") <=> (q.fee + q.deposit > 0 \/ owed # {})
           ELSE q.payment # "PENDING" /\ owed = {}

\* What a resident owes is the time reserved and held, through every edit,
\* extension, expiry and cancellation.
OwedForTimeHeld == TimeIsCharged /\ NothingOwedAfterwards

=============================================================================
