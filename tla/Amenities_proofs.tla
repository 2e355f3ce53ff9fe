--------------------------- MODULE Amenities_proofs ---------------------------
(****************************************************************************)
(* Proofs about Amenities and AmenityClients, for any number of bookings,   *)
(* blocks, residents, configurations and windows: the rules are kept, time  *)
(* is charged as reserved, and a form changes only what it shows.           *)
(****************************************************************************)
EXTENDS AmenityClients, BookingPages, Sums, SequenceTheorems

Extensions(q) ==
    {i \in DOMAIN q.changes : q.changes[i].kind = "EXTEND" /\ q.changes[i].status = "APPROVED"}

MinutesOf(q) == [i \in DOMAIN q.changes |-> q.changes[i].minutes]

Minutes(q) == SumFunctionOnSet(MinutesOf(q), Extensions(q))

\* A booking id that is not used yet has the blank content; a booking has a resident,
\* a version and a window, and at most one change waits for a decision.
ShapeOK(q) ==
    /\ q.status = "NONE" => q = NoBooking
    /\ q.status # "NONE" =>
          q.resident \in Resident /\ q.version # 0 /\ q.originalDuration # 0 /\ q.from < q.to
    /\ \A i \in DOMAIN q.changes : q.changes[i].from < q.changes[i].to
    /\ \A i, j \in PendingChanges(q) : i = j

\* An extension costs what its minutes cost at the original rate, and one that waits is
\* still counted from the end the booking has.
PricesOK(q) ==
    \A i \in DOMAIN q.changes : q.changes[i].kind = "EXTEND" =>
        /\ q.changes[i].fee = ExtensionFee(q.fee, q.originalDuration, q.changes[i].minutes)
        /\ q.changes[i].status = "PENDING_APPROVAL" => q.changes[i].minutes = q.changes[i].to - q.to

\* Each approved extension has its charge, and the booking is not longer than the charges say.
ChargesOK(q) ==
    /\ q.to - q.from <= q.originalDuration + Minutes(q)
    /\ Extensions(q) = {q.charges[c].change : c \in DOMAIN q.charges}
    /\ Cardinality(Extensions(q)) = Len(q.charges)
    /\ \A c \in DOMAIN q.charges : q.charges[c].amount = q.changes[q.charges[c].change].fee

Owed(q) == {c \in DOMAIN q.charges : q.charges[c].payment = "PENDING"}

OwedOK(q) ==
    IF Active(q)
    THEN (q.payment = "PENDING") <=> (q.fee + q.deposit > 0 \/ Owed(q) # {})
    ELSE q.payment # "PENDING" /\ Owed(q) = {}

RowOK(q) == q \in BookingType /\ ShapeOK(q) /\ PricesOK(q) /\ ChargesOK(q) /\ OwedOK(q)

\* Change i of booking q is overdue under configuration c at time t.
OverdueAt(q, i, c, t) ==
    /\ i \in PendingChanges(q)
    /\ IF q.changes[i].kind = "EXTEND" THEN q.to <= t ELSE q.from <= t + c.cutoff

\* What booking q holds then: its window and those it waits for.
HeldAt(q, c, t) ==
    {Span(q)} \cup {Span(q.changes[i]) : i \in {j \in PendingChanges(q) : ~OverdueAt(q, j, c, t)}}

\* The parts of NoOverbooking, and that what is reserved fits the rules in force, for
\* bookings B and blocks K.
ApartAt(B, c, t) ==
    c.exclusive =>
        \A o, p \in Booking :
            o # p /\ Active(B[o]) /\ Active(B[p]) /\ B[p].to > t =>
                \A h \in HeldAt(B[o], c, t), g \in HeldAt(B[p], c, t) : ~BufferedOverlap(h, g, c.turnaround)

Slot == UNION {w.from .. w.to - 1 : w \in Window}

Covers(q, c, t, u) == Active(q) /\ \E h \in HeldAt(q, c, t) : h.from <= u /\ u < h.to

Heads(B) == [o \in Booking |-> B[o].attendees]

CapacityAt(B, c, t) ==
    \A u \in Slot : t <= u =>
        SumFunctionOnSet(Heads(B), {o \in Booking : Covers(B[o], c, t, u)}) <= c.capacity

UpcomingOf(B, r, t) == {o \in Booking : B[o].resident = r /\ Active(B[o]) /\ B[o].to > t}

LimitAt(B, c, t) == \A r \in Resident : Cardinality(UpcomingOf(B, r, t)) <= c.maxActive

ClosedAt(B, c, t, K) ==
    \A k \in Block, o \in Booking :
        K[k].status = "BLOCKED" /\ Active(B[o]) /\ B[o].to > t =>
            \A h \in HeldAt(B[o], c, t) : ~BufferedOverlap(h, K[k], c.turnaround)

ConfiguredAt(B, c, t) ==
    \A o \in Booking : Active(B[o]) /\ B[o].to > t =>
        /\ c.open /\ B[o].attendees <= c.capacity
        /\ \A h \in HeldAt(B[o], c, t) : h \in c.hours /\ h.to - h.from \in c.minDuration .. c.maxDuration

MadeIn(B) == {o \in Booking : B[o].status # "NONE"}

FitsAt(B, c, t, K) ==
    /\ ApartAt(B, c, t) /\ CapacityAt(B, c, t) /\ LimitAt(B, c, t) /\ ClosedAt(B, c, t, K)
    /\ ConfiguredAt(B, c, t)
    /\ IsFiniteSet(MadeIn(B))

\* An answered key names its booking, and a booking that was made with a key answers it.
KeysAgree ==
    /\ \A p \in creationRetries : booking[p.id].status # "NONE" /\ booking[p.id].key = p.key
                                    /\ booking[p.id].resident = p.resident
    /\ \A p, e \in creationRetries : p.resident = e.resident /\ p.key = e.key => p = e
    /\ \A b \in Booking : booking[b].key # NoKey =>
          [resident |-> booking[b].resident, key |-> booking[b].key, id |-> b] \in creationRetries

-----------------------------------------------------------------------------
(* Updates of one booking, field by field.                                  *)

\* What a reservation is about stays; r may hold other changes, charges and windows.
SameTerms(q, r) ==
    /\ r.resident = q.resident /\ r.key = q.key /\ r.attendees = q.attendees
    /\ r.fee = q.fee /\ r.deposit = q.deposit /\ r.originalDuration = q.originalDuration

SameWindow(q, r) == r.from = q.from /\ r.to = q.to

SameMoney(q, r) == r.payment = q.payment /\ r.charges = q.charges

\* A sequence is rewritten place by place.
LEMMA MapIsSeq ==
    ASSUME NEW S, NEW T, NEW s \in Seq(S), NEW f \in [DOMAIN s -> T]
    PROVE  f \in Seq(T) /\ DOMAIN f = DOMAIN s /\ Len(f) = Len(s)
<1>1. Len(s) \in Nat /\ DOMAIN s = 1..Len(s)
      OBVIOUS
<1>2. f \in [1..Len(s) -> T]
      BY <1>1
<1>3. f \in Seq(T)
      BY <1>1, <1>2, SeqDef
<1> QED
    BY <1>1, <1>2, <1>3

\* A change takes a status and a charge a payment; all else in it stays.
LEMMA ChangeGets ==
    ASSUME NEW c \in ChangeType, NEW s \in ChangeStatus
    PROVE  LET d == [c EXCEPT !.status = s] IN
           /\ d \in ChangeType /\ d.status = s
           /\ d.key = c.key /\ d.kind = c.kind /\ d.from = c.from /\ d.to = c.to
           /\ d.minutes = c.minutes /\ d.fee = c.fee
BY DEF ChangeType

LEMMA ChargeGets ==
    ASSUME NEW c \in ChargeType, NEW p \in PaymentStatus
    PROVE  LET d == [c EXCEPT !.payment = p] IN
           d \in ChargeType /\ d.payment = p /\ d.change = c.change /\ d.amount = c.amount
BY DEF ChargeType

LEMMA PlaceTypes ==
    ASSUME NEW q \in BookingType
    PROVE  /\ q.changes \in Seq(ChangeType) /\ q.charges \in Seq(ChargeType)
           /\ \A i \in DOMAIN q.changes : q.changes[i] \in ChangeType
           /\ \A c \in DOMAIN q.charges : q.charges[c] \in ChargeType
<1>1. q.changes \in Seq(ChangeType) /\ q.charges \in Seq(ChargeType)
      BY DEF BookingType
<1> QED
    BY <1>1

LEMMA NumberTypes ==
    ASSUME NEW q \in BookingType
    PROVE  /\ q.from \in Nat /\ q.to \in Nat /\ q.attendees \in Nat /\ q.version \in Nat
           /\ q.fee \in Nat /\ q.deposit \in Nat /\ q.originalDuration \in Nat
           /\ q.version + 1 # 0
BY DEF BookingType

\* expireChanges() only rejects overdue changes, and moves the version if there is one.
LEMMA ExpireFields ==
    ASSUME NEW q \in BookingType
    PROVE  LET r == ExpireChanges(q) IN
           /\ r \in BookingType
           /\ r.status = q.status /\ SameTerms(q, r) /\ SameWindow(q, r) /\ SameMoney(q, r)
           /\ DOMAIN r.changes = DOMAIN q.changes /\ Len(r.changes) = Len(q.changes)
           /\ \A i \in DOMAIN q.changes :
                 r.changes[i] = IF Overdue(q, i) THEN [q.changes[i] EXCEPT !.status = "EXPIRED"]
                                ELSE q.changes[i]
           /\ r = q \/ r.version = q.version + 1
<1> DEFINE cs == [i \in DOMAIN q.changes |->
                     IF Overdue(q, i) THEN [q.changes[i] EXCEPT !.status = "EXPIRED"] ELSE q.changes[i]]
           v == q.version + 1
           p == [q EXCEPT !.version = v, !.changes = cs]
<1>1. q.changes \in Seq(ChangeType) /\ v \in Nat
      BY DEF BookingType
<1>2. \A i \in DOMAIN q.changes : cs[i] \in ChangeType
  <2>1. "EXPIRED" \in ChangeStatus
        BY DEF ChangeStatus
  <2> QED
      BY <2>1, ChangeGets, PlaceTypes
<1>3. cs \in Seq(ChangeType) /\ DOMAIN cs = DOMAIN q.changes /\ Len(cs) = Len(q.changes)
  <2>1. cs \in [DOMAIN q.changes -> ChangeType]
        BY <1>2
  <2> QED
      BY <1>1, <2>1, MapIsSeq
<1>4. \A i \in DOMAIN q.changes :
          cs[i] = IF Overdue(q, i) THEN [q.changes[i] EXCEPT !.status = "EXPIRED"] ELSE q.changes[i]
      OBVIOUS
<1>5. ExpireChanges(q) = IF \E i \in DOMAIN q.changes : Overdue(q, i) THEN p ELSE q
      BY DEF ExpireChanges
<1>6. /\ p \in BookingType /\ p.version = v /\ p.changes = cs
      /\ p.status = q.status /\ SameTerms(q, p) /\ SameWindow(q, p) /\ SameMoney(q, p)
  <2> HIDE DEF cs, v
  <2> QED
      BY <1>1, <1>3 DEF BookingType, SameTerms, SameWindow, SameMoney
<1> HIDE DEF p, cs
<1>7. CASE \E i \in DOMAIN q.changes : Overdue(q, i)
      BY <1>3, <1>4, <1>5, <1>6, <1>7
<1>8. CASE ~\E i \in DOMAIN q.changes : Overdue(q, i)
      BY <1>5, <1>8 DEF SameTerms, SameWindow, SameMoney
<1> QED
    BY <1>7, <1>8

\* Cancelling and rejecting end what waits and void what is unpaid.
LEMMA WithdrawnFields ==
    ASSUME NEW q \in BookingType, NEW s \in {"CANCELLED", "REJECTED"}
    PROVE  LET r == Withdrawn(q, s) IN
           /\ r \in BookingType
           /\ r.status = s /\ SameTerms(q, r) /\ SameWindow(q, r) /\ r.version = q.version + 1
           /\ r.payment # "PENDING"
           /\ DOMAIN r.changes = DOMAIN q.changes
           /\ \A i \in DOMAIN q.changes :
                 r.changes[i] = IF i \in PendingChanges(q) THEN [q.changes[i] EXCEPT !.status = "REJECTED"]
                                ELSE q.changes[i]
           /\ DOMAIN r.charges = DOMAIN q.charges /\ Len(r.charges) = Len(q.charges)
           /\ \A c \in DOMAIN q.charges :
                 /\ r.charges[c].change = q.charges[c].change /\ r.charges[c].amount = q.charges[c].amount
                 /\ r.charges[c].payment # "PENDING"
<1> DEFINE cs == [i \in DOMAIN q.changes |->
                     IF i \in PendingChanges(q) THEN [q.changes[i] EXCEPT !.status = "REJECTED"]
                     ELSE q.changes[i]]
           ds == [c \in DOMAIN q.charges |->
                     IF q.charges[c].payment = "PENDING" THEN [q.charges[c] EXCEPT !.payment = "VOIDED"]
                     ELSE q.charges[c]]
           v == q.version + 1
           pay == IF q.payment = "PENDING" THEN "VOIDED" ELSE q.payment
           r1 == [q EXCEPT !.status = s, !.version = v]
           r2 == [r1 EXCEPT !.payment = pay, !.changes = cs]
           r3 == [r2 EXCEPT !.charges = ds]
<1>1. /\ q.changes \in Seq(ChangeType) /\ q.charges \in Seq(ChargeType) /\ v \in Nat
      /\ pay \in PaymentStatus /\ pay # "PENDING"
      BY DEF BookingType, PaymentStatus
<1>2. cs \in [DOMAIN q.changes -> ChangeType]
  <2>1. "REJECTED" \in ChangeStatus
        BY DEF ChangeStatus
  <2> QED
      BY <2>1, ChangeGets, PlaceTypes
<1>3. /\ ds \in [DOMAIN q.charges -> ChargeType]
      /\ \A c \in DOMAIN q.charges :
            /\ ds[c].change = q.charges[c].change /\ ds[c].amount = q.charges[c].amount
            /\ ds[c].payment # "PENDING"
  <2>1. "VOIDED" \in PaymentStatus
        BY DEF PaymentStatus
  <2> QED
      BY <2>1, ChargeGets, PlaceTypes
<1>4. /\ cs \in Seq(ChangeType) /\ DOMAIN cs = DOMAIN q.changes
      /\ ds \in Seq(ChargeType) /\ DOMAIN ds = DOMAIN q.charges /\ Len(ds) = Len(q.charges)
  <2> HIDE DEF cs, ds
  <2> QED
      BY <1>1, <1>2, <1>3, MapIsSeq
<1>5. \A i \in DOMAIN q.changes :
          cs[i] = IF i \in PendingChanges(q) THEN [q.changes[i] EXCEPT !.status = "REJECTED"]
                  ELSE q.changes[i]
      OBVIOUS
<1>6. Withdrawn(q, s) = r3
      BY DEF Withdrawn, BookingType
<1> HIDE DEF cs, ds, v, pay
<1>7. /\ r1 \in BookingType /\ r1.status = s /\ r1.version = v
      /\ SameTerms(q, r1) /\ SameWindow(q, r1)
      BY <1>1 DEF BookingType, SameTerms, SameWindow
<1> HIDE DEF r1
<1>8. /\ r2 \in BookingType /\ r2.payment = pay /\ r2.changes = cs
      /\ r2.status = s /\ r2.version = v /\ SameTerms(q, r2) /\ SameWindow(q, r2)
      BY <1>1, <1>4, <1>7 DEF BookingType, SameTerms, SameWindow
<1> HIDE DEF r2
<1>9. /\ r3 \in BookingType /\ r3.charges = ds /\ r3.payment = pay /\ r3.changes = cs
      /\ r3.status = s /\ r3.version = v /\ SameTerms(q, r3) /\ SameWindow(q, r3)
      BY <1>4, <1>8 DEF BookingType, SameTerms, SameWindow
<1> HIDE DEF r3
<1> QED
    BY <1>1, <1>3, <1>4, <1>5, <1>6, <1>9 DEF v

\* Deciding change i.
LEMMA DecidedFields ==
    ASSUME NEW q \in BookingType, NEW i \in DOMAIN q.changes, NEW s \in ChangeStatus
    PROVE  LET r == Decided(q, i, s) IN
           /\ r \in BookingType
           /\ r.status = q.status /\ SameTerms(q, r) /\ SameWindow(q, r) /\ SameMoney(q, r)
           /\ r.version = q.version + 1
           /\ DOMAIN r.changes = DOMAIN q.changes /\ Len(r.changes) = Len(q.changes)
           /\ r.changes[i] = [q.changes[i] EXCEPT !.status = s]
           /\ \A j \in DOMAIN q.changes \ {i} : r.changes[j] = q.changes[j]
<1> DEFINE cs == [q.changes EXCEPT ![i] = [q.changes[i] EXCEPT !.status = s]]
           v == q.version + 1
           p == [q EXCEPT !.version = v, !.changes = cs]
<1>1. q.changes \in Seq(ChangeType) /\ v \in Nat
      BY DEF BookingType
<1>2. [q.changes[i] EXCEPT !.status = s] \in ChangeType
      BY ChangeGets, PlaceTypes
<1>3. /\ cs \in Seq(ChangeType) /\ DOMAIN cs = DOMAIN q.changes /\ Len(cs) = Len(q.changes)
      /\ cs[i] = [q.changes[i] EXCEPT !.status = s]
      /\ \A j \in DOMAIN q.changes \ {i} : cs[j] = q.changes[j]
      BY <1>1, <1>2, ExceptSeq
<1>4. Decided(q, i, s) = p
      BY DEF Decided
<1>5. /\ p \in BookingType /\ p.version = v /\ p.changes = cs
      /\ p.status = q.status /\ SameTerms(q, p) /\ SameWindow(q, p) /\ SameMoney(q, p)
  <2> HIDE DEF cs, v
  <2> QED
      BY <1>1, <1>3 DEF BookingType, SameTerms, SameWindow, SameMoney
<1> HIDE DEF p, cs
<1> QED
    BY <1>3, <1>4, <1>5

\* The booking with one more change.
Appended(q, c) == [q EXCEPT !.version = @ + 1, !.changes = Append(@, c)]

LEMMA AppendedFields ==
    ASSUME NEW q \in BookingType, NEW c \in ChangeType
    PROVE  LET r == Appended(q, c)
               n == Len(q.changes) + 1 IN
           /\ r \in BookingType
           /\ r.status = q.status /\ SameTerms(q, r) /\ SameWindow(q, r) /\ SameMoney(q, r)
           /\ r.version = q.version + 1
           /\ n \in Nat /\ Len(r.changes) = n
           /\ DOMAIN r.changes = DOMAIN q.changes \cup {n} /\ n \notin DOMAIN q.changes
           /\ r.changes[n] = c
           /\ \A i \in DOMAIN q.changes : r.changes[i] = q.changes[i]
<1> DEFINE cs == Append(q.changes, c)
           v == q.version + 1
           n == Len(q.changes) + 1
           p == [q EXCEPT !.version = v, !.changes = cs]
<1>1. q.changes \in Seq(ChangeType) /\ v \in Nat
      BY DEF BookingType
<1>2. /\ n \in Nat /\ cs \in Seq(ChangeType) /\ Len(cs) = n
      /\ DOMAIN cs = DOMAIN q.changes \cup {n} /\ n \notin DOMAIN q.changes
      /\ cs[n] = c /\ \A i \in DOMAIN q.changes : cs[i] = q.changes[i]
      BY <1>1
<1>3. Appended(q, c) = p
      BY DEF Appended
<1>4. /\ p \in BookingType /\ p.version = v /\ p.changes = cs
      /\ p.status = q.status /\ SameTerms(q, p) /\ SameWindow(q, p) /\ SameMoney(q, p)
  <2> HIDE DEF cs, v
  <2> QED
      BY <1>1, <1>2 DEF BookingType, SameTerms, SameWindow, SameMoney
<1> HIDE DEF p, cs
<1> QED
    BY <1>2, <1>3, <1>4

\* A change that was approved moves the booking; an extension is charged.
Approval(q, i, c) == [Charge(q, i, c) EXCEPT !.from = c.from, !.to = c.to]

LEMMA ApprovalFields ==
    ASSUME NEW q \in BookingType, NEW i \in Nat, NEW c \in ChangeType,
           \A k \in DOMAIN q.charges : q.charges[k].change # i
    PROVE  LET r == Approval(q, i, c)
               n == Len(q.charges) + 1 IN
           /\ r \in BookingType
           /\ r.status = q.status /\ SameTerms(q, r) /\ r.version = q.version /\ r.changes = q.changes
           /\ r.from = c.from /\ r.to = c.to
           /\ c.kind # "EXTEND" => SameMoney(q, r)
           /\ c.kind = "EXTEND" =>
                /\ n \in Nat /\ Len(r.charges) = n
                /\ DOMAIN r.charges = DOMAIN q.charges \cup {n} /\ n \notin DOMAIN q.charges
                /\ r.charges[n].change = i /\ r.charges[n].amount = c.fee
                /\ r.charges[n].payment = IF c.fee > 0 THEN "PENDING" ELSE "NOT_REQUIRED"
                /\ \A k \in DOMAIN q.charges : r.charges[k] = q.charges[k]
                /\ r.payment = IF c.fee > 0 THEN "PENDING" ELSE q.payment
<1> DEFINE due == IF c.fee > 0 THEN "PENDING" ELSE "NOT_REQUIRED"
           pay == IF c.fee > 0 THEN "PENDING" ELSE q.payment
           d == [change |-> i, amount |-> c.fee, payment |-> due]
           ds == Append(q.charges, d)
           n == Len(q.charges) + 1
           p == [q EXCEPT !.charges = ds, !.payment = pay]
           u == Charge(q, i, c)
           r == Approval(q, i, c)
<1>1. /\ q.charges \in Seq(ChargeType) /\ c.fee \in Nat /\ c.from \in Nat /\ c.to \in Nat
      /\ due \in PaymentStatus /\ pay \in PaymentStatus
      BY DEF BookingType, ChangeType, PaymentStatus
<1>2. d \in ChargeType /\ d.change = i /\ d.amount = c.fee /\ d.payment = due
      BY <1>1 DEF ChargeType
<1>3. /\ n \in Nat /\ ds \in Seq(ChargeType) /\ Len(ds) = n
      /\ DOMAIN ds = DOMAIN q.charges \cup {n} /\ n \notin DOMAIN q.charges
      /\ ds[n] = d /\ \A k \in DOMAIN q.charges : ds[k] = q.charges[k]
  <2> HIDE DEF d
  <2> QED
      BY <1>1, <1>2
<1>4. u = IF c.kind # "EXTEND" THEN q ELSE p
      BY DEF Charge
<1>5. /\ p \in BookingType /\ p.charges = ds /\ p.payment = pay
      /\ p.status = q.status /\ SameTerms(q, p) /\ p.version = q.version /\ p.changes = q.changes
  <2> HIDE DEF ds, pay
  <2> QED
      BY <1>1, <1>3 DEF BookingType, SameTerms
<1>6. /\ u \in BookingType /\ u.status = q.status /\ SameTerms(q, u) /\ u.version = q.version
      /\ u.changes = q.changes
      /\ c.kind # "EXTEND" => SameMoney(q, u)
      /\ c.kind = "EXTEND" => u.charges = ds /\ u.payment = pay
  <2> HIDE DEF p, u, ds, pay
  <2> QED
      BY <1>4, <1>5 DEF SameTerms, SameMoney
<1> HIDE DEF u
<1>7. r = [u EXCEPT !.from = c.from, !.to = c.to]
      BY DEF Approval, u
<1>8. /\ r \in BookingType /\ r.status = u.status /\ SameTerms(u, r) /\ r.version = u.version
      /\ r.changes = u.changes /\ r.charges = u.charges /\ r.payment = u.payment
      /\ r.from = c.from /\ r.to = c.to
  <2> HIDE DEF r
  <2> QED
      BY <1>1, <1>6, <1>7 DEF BookingType, SameTerms
<1>9. /\ SameTerms(q, r)
      /\ c.kind # "EXTEND" => SameMoney(q, r)
      BY <1>6, <1>8 DEF SameTerms, SameMoney
<1>10. r = Approval(q, i, c)
      OBVIOUS
<1>11. ASSUME c.kind = "EXTEND" PROVE r.charges = ds /\ r.payment = pay
      BY <1>6, <1>8, <1>11
<1> HIDE DEF r, p, ds, d, pay
<1>12. r.status = q.status /\ r.version = q.version /\ r.changes = q.changes
      BY <1>6, <1>8
<1>13. /\ ds[n].change = i /\ ds[n].amount = c.fee /\ ds[n].payment = due
      BY <1>2, <1>3
<1> HIDE DEF n, due
<1>14. ASSUME c.kind = "EXTEND"
       PROVE  /\ n \in Nat /\ Len(r.charges) = n
              /\ DOMAIN r.charges = DOMAIN q.charges \cup {n} /\ n \notin DOMAIN q.charges
              /\ r.charges[n].change = i /\ r.charges[n].amount = c.fee
              /\ r.charges[n].payment = due
              /\ \A k \in DOMAIN q.charges : r.charges[k] = q.charges[k]
              /\ r.payment = pay
      BY <1>3, <1>11, <1>13, <1>14
<1> QED
    BY <1>8, <1>9, <1>10, <1>12, <1>14 DEF n, due, pay

\* A booking that was just made.
NewBooking(r, key, w, n) ==
    [NoBooking EXCEPT
        !.status = IF config.requiresApproval THEN "PENDING_APPROVAL" ELSE "APPROVED",
        !.resident = r, !.key = key, !.from = w.from, !.to = w.to, !.attendees = n,
        !.version = 1, !.fee = config.fee, !.deposit = config.deposit,
        !.originalDuration = w.to - w.from,
        !.payment = IF config.fee + config.deposit > 0 THEN "PENDING" ELSE "NOT_REQUIRED"]

LEMMA ConfigTypes ==
    ASSUME TypeOK
    PROVE  /\ now \in Nat
           /\ config \in ConfigType /\ config.open \in BOOLEAN /\ config.exclusive \in BOOLEAN
           /\ config.hours \subseteq Window /\ config.capacity \in Nat /\ config.turnaround \in Nat
           /\ config.cutoff \in Nat /\ config.maxActive \in Nat /\ config.notice \in Nat
           /\ config.fee \in Nat /\ config.deposit \in Nat
           /\ config.minDuration \in Nat /\ config.maxDuration \in Nat
           /\ config.requiresApproval \in BOOLEAN /\ config.allowExtensions \in BOOLEAN
<1>1. config \in ConfigType /\ now \in Nat
      BY AmenityAssumption DEF TypeOK
<1> QED
    BY <1>1 DEF ConfigType

LEMMA WindowTypes ==
    ASSUME NEW w \in Window \cup BlockWindow
    PROVE  w.from \in Nat /\ w.to \in Nat /\ w.from < w.to /\ w = [from |-> w.from, to |-> w.to]
BY AmenityAssumption

LEMMA BlankType == NoBooking \in BookingType
<1>1. <<>> \in Seq(ChangeType) /\ <<>> \in Seq(ChargeType) /\ "NOT_REQUIRED" \in PaymentStatus
      BY DEF PaymentStatus
<1> QED
    BY <1>1 DEF BookingType, NoBooking

LEMMA NewBookingFields ==
    ASSUME TypeOK, NEW r \in Resident, NEW key \in Key \cup {NoKey}, NEW w \in Window, NEW n \in Attendees
    PROVE  LET q == NewBooking(r, key, w, n) IN
           /\ q \in BookingType
           /\ q.status \in {"PENDING_APPROVAL", "APPROVED"} /\ q.resident = r /\ q.key = key
           /\ q.from = w.from /\ q.to = w.to /\ q.attendees = n /\ q.version = 1
           /\ q.fee = config.fee /\ q.deposit = config.deposit /\ q.originalDuration = w.to - w.from
           /\ q.payment = IF config.fee + config.deposit > 0 THEN "PENDING" ELSE "NOT_REQUIRED"
           /\ q.changes = <<>> /\ q.charges = <<>>
<1> DEFINE s == IF config.requiresApproval THEN "PENDING_APPROVAL" ELSE "APPROVED"
           pay == IF config.fee + config.deposit > 0 THEN "PENDING" ELSE "NOT_REQUIRED"
           duration == w.to - w.from
           q1 == [NoBooking EXCEPT !.status = s, !.resident = r, !.key = key]
           q2 == [q1 EXCEPT !.from = w.from, !.to = w.to, !.attendees = n]
           q3 == [q2 EXCEPT !.version = 1, !.fee = config.fee, !.deposit = config.deposit]
           q4 == [q3 EXCEPT !.originalDuration = duration, !.payment = pay]
<1>1. /\ w.from \in Nat /\ w.to \in Nat /\ duration \in Nat /\ n \in Nat
      /\ config.fee \in Nat /\ config.deposit \in Nat
      BY ConfigTypes, WindowTypes, AmenityAssumption
<1>2. s \in {"PENDING_APPROVAL", "APPROVED"} /\ pay \in PaymentStatus
      BY DEF PaymentStatus
<1>3. NewBooking(r, key, w, n) = q4
      BY DEF NewBooking
<1>4. NoBooking.changes = <<>> /\ NoBooking.charges = <<>>
      BY DEF NoBooking
<1> HIDE DEF s, pay, duration
<1>5. /\ q1 \in BookingType /\ q1.status = s /\ q1.resident = r /\ q1.key = key
      /\ q1.changes = <<>> /\ q1.charges = <<>>
      BY <1>2, <1>4, BlankType DEF BookingType
<1> HIDE DEF q1
<1>6. /\ q2 \in BookingType /\ q2.status = s /\ q2.resident = r /\ q2.key = key
      /\ q2.from = w.from /\ q2.to = w.to /\ q2.attendees = n
      /\ q2.changes = <<>> /\ q2.charges = <<>>
      BY <1>1, <1>5 DEF BookingType
<1> HIDE DEF q2
<1>7. /\ q3 \in BookingType /\ q3.status = s /\ q3.resident = r /\ q3.key = key
      /\ q3.from = w.from /\ q3.to = w.to /\ q3.attendees = n
      /\ q3.version = 1 /\ q3.fee = config.fee /\ q3.deposit = config.deposit
      /\ q3.changes = <<>> /\ q3.charges = <<>>
      BY <1>1, <1>6 DEF BookingType
<1> HIDE DEF q3
<1>8. /\ q4 \in BookingType /\ q4.status = s /\ q4.resident = r /\ q4.key = key
      /\ q4.from = w.from /\ q4.to = w.to /\ q4.attendees = n
      /\ q4.version = 1 /\ q4.fee = config.fee /\ q4.deposit = config.deposit
      /\ q4.originalDuration = duration /\ q4.payment = pay
      /\ q4.changes = <<>> /\ q4.charges = <<>>
      BY <1>1, <1>2, <1>7 DEF BookingType
<1> HIDE DEF q4
<1> QED
    BY <1>2, <1>3, <1>8 DEF pay, duration

-----------------------------------------------------------------------------
(* Each update of a booking keeps it in order.                              *)

LEMMA PlacesFinite ==
    ASSUME NEW q \in BookingType
    PROVE  /\ IsFiniteSet(DOMAIN q.changes) /\ DOMAIN q.changes \subseteq Nat
           /\ IsFiniteSet(Extensions(q)) /\ Counts(MinutesOf(q), DOMAIN q.changes)
           /\ Counts(MinutesOf(q), Extensions(q)) /\ Minutes(q) \in Nat
<1>1. q.changes \in Seq(ChangeType) /\ Len(q.changes) \in Nat /\ DOMAIN q.changes = 1..Len(q.changes)
      BY DEF BookingType
<1>2. IsFiniteSet(DOMAIN q.changes) /\ DOMAIN q.changes \subseteq Nat
      BY <1>1, FS_Interval
<1>3. IsFiniteSet(Extensions(q)) /\ Extensions(q) \subseteq DOMAIN q.changes
      BY <1>2, FS_Subset DEF Extensions
<1>4. \A i \in DOMAIN q.changes : q.changes[i].minutes \in Nat
      BY PlaceTypes DEF ChangeType
<1>5. Counts(MinutesOf(q), DOMAIN q.changes) /\ Counts(MinutesOf(q), Extensions(q))
      BY <1>3, <1>4 DEF Counts, MinutesOf
<1> QED
    BY <1>2, <1>3, <1>5, SumIsNat DEF Minutes

\* Changes that wait are ended without being approved.
LEMMA SettleKeeps ==
    ASSUME NEW q \in BookingType, NEW r \in BookingType,
           ShapeOK(q), PricesOK(q), ChargesOK(q), q.status # "NONE",
           r.status # "NONE", r.version # 0, SameTerms(q, r), SameWindow(q, r),
           DOMAIN r.changes = DOMAIN q.changes,
           \A i \in DOMAIN q.changes :
              \/ r.changes[i] = q.changes[i]
              \/ /\ i \in PendingChanges(q)
                 /\ \E s \in {"REJECTED", "EXPIRED"} : r.changes[i] = [q.changes[i] EXCEPT !.status = s],
           DOMAIN r.charges = DOMAIN q.charges, Len(r.charges) = Len(q.charges),
           \A c \in DOMAIN q.charges : /\ r.charges[c].change = q.charges[c].change
                                       /\ r.charges[c].amount = q.charges[c].amount
    PROVE  ShapeOK(r) /\ PricesOK(r) /\ ChargesOK(r)
<1>1. ASSUME NEW i \in DOMAIN q.changes
      PROVE  /\ r.changes[i].kind = q.changes[i].kind
             /\ r.changes[i].from = q.changes[i].from /\ r.changes[i].to = q.changes[i].to
             /\ r.changes[i].minutes = q.changes[i].minutes /\ r.changes[i].fee = q.changes[i].fee
             /\ \/ r.changes[i].status = q.changes[i].status
                \/ /\ q.changes[i].status = "PENDING_APPROVAL"
                   /\ r.changes[i].status \in {"REJECTED", "EXPIRED"}
  <2>1. CASE r.changes[i] = q.changes[i]
        BY <2>1
  <2>2. ASSUME NEW s \in {"REJECTED", "EXPIRED"}, r.changes[i] = [q.changes[i] EXCEPT !.status = s],
               i \in PendingChanges(q)
        PROVE  <1>1!2
    <3>1. s \in ChangeStatus /\ q.changes[i] \in ChangeType
          BY PlaceTypes DEF ChangeStatus
    <3> QED
        BY <2>2, <3>1, ChangeGets DEF PendingChanges
  <2> QED
      BY <2>1, <2>2
<1>2. PendingChanges(r) \subseteq PendingChanges(q)
      BY <1>1 DEF PendingChanges
<1>3. Extensions(r) = Extensions(q)
      BY <1>1 DEF Extensions
<1>4. ShapeOK(r)
      BY <1>1, <1>2 DEF ShapeOK, SameTerms, SameWindow
<1>5. PricesOK(r)
      BY <1>1 DEF PricesOK, SameTerms, SameWindow
<1>6. Minutes(r) = Minutes(q)
  <2>1. \A i \in Extensions(q) : MinutesOf(r)[i] = MinutesOf(q)[i]
        BY <1>1 DEF MinutesOf, Extensions
  <2> QED
      BY <1>3, <2>1, PlacesFinite, SumOfSame DEF Minutes
<1>7. {r.charges[c].change : c \in DOMAIN r.charges} = {q.charges[c].change : c \in DOMAIN q.charges}
      OBVIOUS
<1>8. \A c \in DOMAIN r.charges : r.charges[c].amount = r.changes[r.charges[c].change].fee
  <2>1. ASSUME NEW c \in DOMAIN q.charges PROVE q.charges[c].change \in DOMAIN q.changes
        BY DEF ChargesOK, Extensions
  <2> QED
      BY <1>1, <2>1 DEF ChargesOK
<1>9. ChargesOK(r)
      BY <1>3, <1>6, <1>7, <1>8 DEF ChargesOK, SameTerms, SameWindow
<1> QED
    BY <1>4, <1>5, <1>9

LEMMA ExpireKeeps ==
    ASSUME NEW q, RowOK(q)
    PROVE  RowOK(ExpireChanges(q))
<1> DEFINE r == ExpireChanges(q)
<1>1. q \in BookingType
      BY DEF RowOK
<1>2. CASE q.status = "NONE"
  <2>1. q.changes = <<>>
        BY <1>2 DEF RowOK, ShapeOK, NoBooking
  <2>2. r = q
    <3>1. \A i : i \notin DOMAIN <<>>
          OBVIOUS
    <3> QED
        BY <2>1, <3>1 DEF ExpireChanges
  <2> QED
      BY <2>2
<1>3. CASE q.status # "NONE"
  <2>1. /\ r \in BookingType
        /\ r.status = q.status /\ SameTerms(q, r) /\ SameWindow(q, r) /\ SameMoney(q, r)
        /\ DOMAIN r.changes = DOMAIN q.changes
        /\ \A i \in DOMAIN q.changes :
              r.changes[i] = IF Overdue(q, i) THEN [q.changes[i] EXCEPT !.status = "EXPIRED"]
                             ELSE q.changes[i]
        /\ r = q \/ r.version = q.version + 1
        BY <1>1, ExpireFields
  <2> HIDE DEF r
  <2>2. r.version # 0
    <3>1. q.version # 0
          BY <1>3 DEF RowOK, ShapeOK
    <3>2. r = q \/ r.version = q.version + 1
          BY <2>1
    <3> QED
        BY <1>1, <3>1, <3>2, NumberTypes
  <2>3. \A i \in DOMAIN q.changes :
            \/ r.changes[i] = q.changes[i]
            \/ /\ i \in PendingChanges(q)
               /\ \E s \in {"REJECTED", "EXPIRED"} : r.changes[i] = [q.changes[i] EXCEPT !.status = s]
        BY <2>1 DEF Overdue
  <2>4. ShapeOK(r) /\ PricesOK(r) /\ ChargesOK(r)
        BY <1>1, <1>3, <2>1, <2>2, <2>3, SettleKeeps DEF RowOK, SameMoney
  <2>5. OwedOK(r)
        BY <2>1 DEF RowOK, OwedOK, Owed, Active, SameTerms, SameMoney
  <2>6. RowOK(r)
        BY <2>1, <2>4, <2>5 DEF RowOK
  <2> QED
      BY <2>6 DEF r
<1> QED
    BY <1>2, <1>3

LEMMA WithdrawnKeeps ==
    ASSUME NEW q, RowOK(q), Active(q), NEW s \in {"CANCELLED", "REJECTED"}
    PROVE  RowOK(Withdrawn(q, s))
<1> DEFINE r == Withdrawn(q, s)
<1>1. q \in BookingType /\ q.status # "NONE"
      BY DEF RowOK, Active
<1>2. /\ r \in BookingType
      /\ r.status = s /\ SameTerms(q, r) /\ SameWindow(q, r) /\ r.version = q.version + 1
      /\ r.payment # "PENDING"
      /\ DOMAIN r.changes = DOMAIN q.changes
      /\ \A i \in DOMAIN q.changes :
            r.changes[i] = IF i \in PendingChanges(q) THEN [q.changes[i] EXCEPT !.status = "REJECTED"]
                           ELSE q.changes[i]
      /\ DOMAIN r.charges = DOMAIN q.charges /\ Len(r.charges) = Len(q.charges)
      /\ \A c \in DOMAIN q.charges :
            /\ r.charges[c].change = q.charges[c].change /\ r.charges[c].amount = q.charges[c].amount
            /\ r.charges[c].payment # "PENDING"
      BY <1>1, WithdrawnFields
<1> HIDE DEF r
<1>3. r.version # 0 /\ r.status # "NONE" /\ ~Active(r)
  <2>1. r.version = q.version + 1 /\ r.status = s
        BY <1>2
  <2> QED
      BY <1>1, <2>1, NumberTypes DEF Active
<1>4. \A i \in DOMAIN q.changes :
          \/ r.changes[i] = q.changes[i]
          \/ /\ i \in PendingChanges(q)
             /\ \E t \in {"REJECTED", "EXPIRED"} : r.changes[i] = [q.changes[i] EXCEPT !.status = t]
      BY <1>2
<1>5. ShapeOK(r) /\ PricesOK(r) /\ ChargesOK(r)
      BY <1>1, <1>2, <1>3, <1>4, SettleKeeps DEF RowOK
<1>6. OwedOK(r)
      BY <1>2, <1>3 DEF OwedOK, Owed
<1>7. RowOK(r)
      BY <1>2, <1>5, <1>6 DEF RowOK
<1> QED
    BY <1>7 DEF r

LEMMA RejectedKeeps ==
    ASSUME NEW q, RowOK(q), Active(q), NEW i \in PendingChanges(q)
    PROVE  RowOK(Decided(q, i, "REJECTED"))
<1> DEFINE r == Decided(q, i, "REJECTED")
<1>1. q \in BookingType /\ q.status # "NONE" /\ i \in DOMAIN q.changes /\ "REJECTED" \in ChangeStatus
      BY DEF RowOK, Active, PendingChanges, ChangeStatus
<1>2. /\ r \in BookingType
      /\ r.status = q.status /\ SameTerms(q, r) /\ SameWindow(q, r) /\ SameMoney(q, r)
      /\ r.version = q.version + 1
      /\ DOMAIN r.changes = DOMAIN q.changes
      /\ r.changes[i] = [q.changes[i] EXCEPT !.status = "REJECTED"]
      /\ \A j \in DOMAIN q.changes \ {i} : r.changes[j] = q.changes[j]
      BY <1>1, DecidedFields
<1> HIDE DEF r
<1>3. r.version # 0
  <2>1. r.version = q.version + 1
        BY <1>2
  <2> QED
      BY <1>1, <2>1, NumberTypes
<1>4. \A j \in DOMAIN q.changes :
          \/ r.changes[j] = q.changes[j]
          \/ /\ j \in PendingChanges(q)
             /\ \E t \in {"REJECTED", "EXPIRED"} : r.changes[j] = [q.changes[j] EXCEPT !.status = t]
      BY <1>2
<1>5. ShapeOK(r) /\ PricesOK(r) /\ ChargesOK(r)
      BY <1>1, <1>2, <1>3, <1>4, SettleKeeps DEF RowOK, SameMoney
<1>6. OwedOK(r)
      BY <1>2 DEF RowOK, OwedOK, Owed, Active, SameTerms, SameMoney
<1>7. RowOK(r)
      BY <1>2, <1>5, <1>6 DEF RowOK
<1> QED
    BY <1>7 DEF r

\* The administrator approves the booking itself.
Granted(q) == [q EXCEPT !.status = "APPROVED", !.version = @ + 1]

LEMMA GrantedFields ==
    ASSUME NEW q \in BookingType
    PROVE  LET r == Granted(q) IN
           /\ r \in BookingType /\ r.status = "APPROVED" /\ r.version = q.version + 1
           /\ SameTerms(q, r) /\ SameWindow(q, r) /\ SameMoney(q, r) /\ r.changes = q.changes
<1> DEFINE v == q.version + 1
           r == [q EXCEPT !.status = "APPROVED", !.version = v]
<1>1. v \in Nat
      BY DEF BookingType
<1>2. Granted(q) = r
      BY DEF Granted
<1> HIDE DEF v
<1>3. /\ r \in BookingType /\ r.status = "APPROVED" /\ r.version = v
      /\ SameTerms(q, r) /\ SameWindow(q, r) /\ SameMoney(q, r) /\ r.changes = q.changes
      BY <1>1 DEF BookingType, SameTerms, SameWindow, SameMoney
<1> HIDE DEF r
<1> QED
    BY <1>2, <1>3 DEF v

LEMMA GrantedKeeps ==
    ASSUME NEW q, RowOK(q), Active(q)
    PROVE  RowOK(Granted(q))
<1> DEFINE r == Granted(q)
<1>1. q \in BookingType /\ q.status # "NONE"
      BY DEF RowOK, Active
<1>2. /\ r \in BookingType /\ r.status = "APPROVED" /\ r.version = q.version + 1
      /\ SameTerms(q, r) /\ SameWindow(q, r) /\ SameMoney(q, r) /\ r.changes = q.changes
      BY <1>1, GrantedFields
<1> HIDE DEF r
<1>3. r.version # 0
  <2>1. r.version = q.version + 1
        BY <1>2
  <2> QED
      BY <1>1, <2>1, NumberTypes
<1>4. ShapeOK(r) /\ PricesOK(r) /\ ChargesOK(r)
      BY <1>1, <1>2, <1>3, SettleKeeps DEF RowOK, SameMoney
<1>5. OwedOK(r)
      BY <1>2 DEF RowOK, OwedOK, Owed, Active, SameTerms, SameMoney
<1>6. RowOK(r)
      BY <1>2, <1>4, <1>5 DEF RowOK
<1> QED
    BY <1>6 DEF r

\* What a division rounds down.
LEMMA Quotient ==
    ASSUME NEW a \in Nat, NEW b \in Nat \ {0}
    PROVE  /\ a \div b \in Nat
           /\ b * (a \div b) <= a /\ a < b * (a \div b) + b
OBVIOUS

\* An extension fee is a whole amount within half a unit of the proportional one.
LEMMA FeeIsProportional ==
    ASSUME NEW fee \in Nat, NEW duration \in Nat \ {0}, NEW minutes \in Nat
    PROVE  LET charged == ExtensionFee(fee, duration, minutes) IN
           /\ charged \in Nat
           /\ 2 * (charged * duration - fee * minutes) <= duration
           /\ 2 * (fee * minutes - charged * duration) < duration
<1> DEFINE exact == fee * minutes
           x == (2 * exact + duration) \div (2 * duration)
<1>1. exact \in Nat /\ 2 * exact + duration \in Nat /\ 2 * duration \in Nat \ {0}
      OBVIOUS
<1>2. 2 * fee * minutes = 2 * exact
      OBVIOUS
<1>3. ExtensionFee(fee, duration, minutes) = x
      BY <1>2 DEF ExtensionFee
<1> HIDE DEF exact
<1>4. /\ x \in Nat
      /\ (2 * duration) * x <= 2 * exact + duration
      /\ 2 * exact + duration < (2 * duration) * x + 2 * duration
      BY <1>1, Quotient
<1> HIDE DEF x
<1> DEFINE paid == x * duration
<1>5. (2 * duration) * x = 2 * paid /\ paid \in Nat
      BY <1>4
<1> HIDE DEF paid
<1>6. 2 * (paid - exact) <= duration /\ 2 * (exact - paid) < duration
      BY <1>1, <1>4, <1>5
<1> QED
    BY <1>3, <1>4, <1>6 DEF paid, exact

\* One more extension adds its minutes.
LEMMA OneExtensionMore ==
    ASSUME NEW q \in BookingType, NEW r \in BookingType, NEW i, i \notin Extensions(q),
           Extensions(r) = Extensions(q) \cup {i},
           \A j \in Extensions(q) : r.changes[j] = q.changes[j]
    PROVE  Minutes(r) = Minutes(q) + r.changes[i].minutes
<1> DEFINE X == Extensions(q)
           f == MinutesOf(q)
           g == MinutesOf(r)
<1>1. IsFiniteSet(X) /\ i \notin X /\ Counts(f, X) /\ Counts(g, X \cup {i})
      BY PlacesFinite
<1>2. g[i] = r.changes[i].minutes /\ \A j \in X : g[j] = f[j]
  <2>1. \A j \in X \cup {i} : j \in DOMAIN r.changes
        BY DEF Extensions
  <2>2. \A j \in X : j \in DOMAIN q.changes
        BY DEF Extensions
  <2> QED
      BY <2>1, <2>2 DEF MinutesOf
<1>3. Minutes(q) = SumFunctionOnSet(f, X) /\ Minutes(r) = SumFunctionOnSet(g, X \cup {i})
      BY DEF Minutes
<1> HIDE DEF X, f, g
<1>4. SumFunctionOnSet(g, X \cup {i}) = SumFunctionOnSet(g, X) + g[i]
      BY <1>1, SumWithNew
<1>5. Counts(g, X)
      BY <1>1 DEF Counts
<1>6. SumFunctionOnSet(g, X) = SumFunctionOnSet(f, X)
      BY <1>1, <1>2, <1>5, SumOfSame
<1> QED
    BY <1>2, <1>3, <1>4, <1>6

\* A pending change that is approved moves the booking and is charged once.
LEMMA ApprovalKeeps ==
    ASSUME NEW q, RowOK(q), Active(q), NEW p \in BookingType, NEW i \in Nat, NEW c \in ChangeType,
           p.status = q.status, SameTerms(q, p), SameWindow(q, p), SameMoney(q, p), p.version # 0,
           DOMAIN p.changes = DOMAIN q.changes \cup {i},
           p.changes[i].kind = c.kind, p.changes[i].from = c.from, p.changes[i].to = c.to,
           p.changes[i].minutes = c.minutes, p.changes[i].fee = c.fee, p.changes[i].status = "APPROVED",
           \A j \in DOMAIN q.changes \ {i} : p.changes[j] = q.changes[j],
           i \in DOMAIN q.changes => i \in PendingChanges(q),
           \A j \in PendingChanges(q) : j = i,
           c.from < c.to,
           c.kind = "EXTEND" => /\ c.from = q.from /\ c.minutes = c.to - q.to
                                /\ c.fee = ExtensionFee(q.fee, q.originalDuration, c.minutes),
           c.kind # "EXTEND" => c.to - c.from <= q.to - q.from
    PROVE  RowOK(Approval(p, i, c))
<1> DEFINE r == Approval(p, i, c)
           n == Len(p.charges) + 1
<1>1. q \in BookingType /\ q.status # "NONE" /\ c.kind \in {"EDIT", "EXTEND"} /\ c.from \in Nat /\ c.to \in Nat
      /\ c.fee \in Nat /\ c.minutes \in Nat
      BY DEF RowOK, Active, ChangeType
<1>2. i \notin Extensions(q)
      BY DEF Extensions, PendingChanges
<1>3. \A k \in DOMAIN p.charges : p.charges[k].change # i
      BY <1>2 DEF RowOK, ChargesOK, SameMoney
<1>4. /\ r \in BookingType
      /\ r.status = p.status /\ SameTerms(p, r) /\ r.version = p.version /\ r.changes = p.changes
      /\ r.from = c.from /\ r.to = c.to
      /\ c.kind # "EXTEND" => SameMoney(p, r)
      /\ c.kind = "EXTEND" =>
           /\ n \in Nat /\ Len(r.charges) = n
           /\ DOMAIN r.charges = DOMAIN p.charges \cup {n} /\ n \notin DOMAIN p.charges
           /\ r.charges[n].change = i /\ r.charges[n].amount = c.fee
           /\ r.charges[n].payment = IF c.fee > 0 THEN "PENDING" ELSE "NOT_REQUIRED"
           /\ \A k \in DOMAIN p.charges : r.charges[k] = p.charges[k]
           /\ r.payment = IF c.fee > 0 THEN "PENDING" ELSE p.payment
      BY <1>3, ApprovalFields
<1>5. r = Approval(p, i, c)
      OBVIOUS
<1> HIDE DEF r
<1>6. /\ DOMAIN r.changes = DOMAIN q.changes \cup {i} /\ SameTerms(q, r) /\ r.status = q.status
      /\ \A j \in DOMAIN q.changes \ {i} : r.changes[j] = q.changes[j]
      /\ r.changes[i].kind = c.kind /\ r.changes[i].from = c.from /\ r.changes[i].to = c.to
      /\ r.changes[i].minutes = c.minutes /\ r.changes[i].fee = c.fee /\ r.changes[i].status = "APPROVED"
      BY <1>4 DEF SameTerms
<1>7. PendingChanges(r) = {}
      BY <1>6 DEF PendingChanges
<1>8. ShapeOK(r)
      BY <1>1, <1>4, <1>6, <1>7 DEF RowOK, ShapeOK, SameTerms
<1>9. PricesOK(r)
      BY <1>6, <1>7 DEF RowOK, PricesOK, SameTerms, PendingChanges
<1>10. \A j \in DOMAIN q.changes : j # i => r.changes[j].fee = q.changes[j].fee
      BY <1>6
<1>11. \A c1 \in DOMAIN q.charges : /\ q.charges[c1].change \in DOMAIN q.changes
                                    /\ q.charges[c1].change # i
      BY <1>2 DEF RowOK, ChargesOK, Extensions
<1>12. ChargesOK(r)
  <2>1. CASE c.kind # "EXTEND"
    <3>1. Extensions(r) = Extensions(q)
          BY <1>2, <1>6, <2>1 DEF Extensions
    <3>2. Minutes(r) = Minutes(q)
      <4>1. \A j \in Extensions(q) : MinutesOf(r)[j] = MinutesOf(q)[j]
            BY <1>2, <1>6 DEF MinutesOf, Extensions
      <4> QED
          BY <1>1, <3>1, <4>1, PlacesFinite, SumOfSame DEF Minutes
    <3>3. r.charges = q.charges
          BY <1>4, <2>1 DEF SameMoney
    <3>4. r.to - r.from <= q.originalDuration + Minutes(q)
      <4>1. Minutes(q) \in Nat /\ q.to \in Nat /\ q.from \in Nat /\ q.originalDuration \in Nat
            BY <1>1, PlacesFinite DEF BookingType
      <4>2. q.to - q.from <= q.originalDuration + Minutes(q)
            BY DEF RowOK, ChargesOK
      <4>3. c.to - c.from <= q.to - q.from /\ r.from = c.from /\ r.to = c.to
            BY <1>4, <2>1
      <4>4. c.from \in Nat /\ c.to \in Nat
            BY <1>1
      <4> QED
          BY <4>1, <4>2, <4>3, <4>4
    <3>5. /\ Extensions(q) = {q.charges[k].change : k \in DOMAIN q.charges}
          /\ Cardinality(Extensions(q)) = Len(q.charges)
          /\ \A k \in DOMAIN q.charges : q.charges[k].amount = q.changes[q.charges[k].change].fee
          BY DEF RowOK, ChargesOK
    <3>6. \A k \in DOMAIN q.charges : q.charges[k].amount = r.changes[q.charges[k].change].fee
          BY <1>10, <1>11, <3>5
    <3>7. r.originalDuration = q.originalDuration
          BY <1>6 DEF SameTerms
    <3> QED
        BY <3>1, <3>2, <3>3, <3>4, <3>5, <3>6, <3>7 DEF ChargesOK
  <2>2. CASE c.kind = "EXTEND"
    <3>1. Extensions(r) = Extensions(q) \cup {i}
      <4>1. i \in Extensions(r)
            BY <1>6, <2>2 DEF Extensions
      <4>2. \A j \in DOMAIN q.changes \ {i} : j \in Extensions(r) <=> j \in Extensions(q)
            BY <1>6 DEF Extensions
      <4>3. Extensions(q) \subseteq DOMAIN q.changes /\ Extensions(r) \subseteq DOMAIN q.changes \cup {i}
            BY <1>6 DEF Extensions
      <4> QED
          BY <1>2, <4>1, <4>2, <4>3
    <3>2. Minutes(r) = Minutes(q) + c.minutes
      <4>1. \A j \in Extensions(q) : r.changes[j] = q.changes[j]
            BY <1>2, <1>6 DEF Extensions
      <4>2. r.changes[i].minutes = c.minutes
            BY <1>6
      <4>3. Minutes(r) = Minutes(q) + r.changes[i].minutes
            BY <1>1, <1>2, <1>4, <3>1, <4>1, OneExtensionMore
      <4> QED
          BY <4>2, <4>3
    <3>3. r.to - r.from <= r.originalDuration + Minutes(r)
      <4>1. Minutes(q) \in Nat /\ q.to \in Nat /\ q.from \in Nat /\ q.originalDuration \in Nat
            BY <1>1, PlacesFinite DEF BookingType
      <4>2. q.to - q.from <= q.originalDuration + Minutes(q)
            BY DEF RowOK, ChargesOK
      <4>3. r.originalDuration = q.originalDuration
            BY <1>6 DEF SameTerms
      <4>4. c.from = q.from /\ c.minutes = c.to - q.to /\ r.from = c.from /\ r.to = c.to
            BY <1>4, <2>2
      <4>5. c.to - q.from <= q.originalDuration + (Minutes(q) + (c.to - q.to))
            BY <1>1, <4>1, <4>2
      <4> QED
          BY <3>2, <4>3, <4>4, <4>5
    <3>4. /\ Len(r.charges) = Len(q.charges) + 1 /\ Len(q.charges) \in Nat
          /\ DOMAIN r.charges = DOMAIN q.charges \cup {n} /\ n \notin DOMAIN q.charges
          /\ r.charges[n].change = i /\ r.charges[n].amount = c.fee
          /\ \A k \in DOMAIN q.charges : r.charges[k] = q.charges[k]
          BY <1>1, <1>4, <2>2, PlaceTypes DEF SameMoney
    <3> HIDE DEF n
    <3>5. Extensions(r) = {r.charges[k].change : k \in DOMAIN r.charges}
          BY <3>1, <3>4 DEF RowOK, ChargesOK
    <3>6. Cardinality(Extensions(r)) = Len(r.charges)
      <4>1. IsFiniteSet(Extensions(q)) /\ Cardinality(Extensions(q)) = Len(q.charges)
            BY <1>1, PlacesFinite DEF RowOK, ChargesOK
      <4>2. Cardinality(Extensions(q) \cup {i}) = Cardinality(Extensions(q)) + 1
            BY <1>2, <4>1, FS_AddElement
      <4> QED
          BY <3>1, <3>4, <4>1, <4>2
    <3>7. \A k \in DOMAIN r.charges : r.charges[k].amount = r.changes[r.charges[k].change].fee
      <4>1. ASSUME NEW k \in DOMAIN q.charges
            PROVE  r.charges[k].amount = r.changes[r.charges[k].change].fee
        <5>1. q.charges[k].amount = q.changes[q.charges[k].change].fee
              BY DEF RowOK, ChargesOK
        <5>2. r.changes[q.charges[k].change].fee = q.changes[q.charges[k].change].fee
              BY <1>10, <1>11
        <5> QED
            BY <3>4, <5>1, <5>2
      <4>2. r.charges[n].amount = r.changes[r.charges[n].change].fee
            BY <1>6, <3>4
      <4> QED
          BY <3>4, <4>1, <4>2
    <3> QED
        BY <3>3, <3>5, <3>6, <3>7 DEF ChargesOK
  <2> QED
      BY <2>1, <2>2
<1>13. Active(r) /\ r.fee = q.fee /\ r.deposit = q.deposit
      BY <1>6 DEF Active, SameTerms
<1>14. OwedOK(r)
  <2>1. CASE c.kind # "EXTEND"
        BY <1>4, <1>13, <2>1 DEF RowOK, OwedOK, Owed, SameMoney
  <2>2. CASE c.kind = "EXTEND"
    <3>1. /\ DOMAIN r.charges = DOMAIN q.charges \cup {n} /\ n \notin DOMAIN q.charges
          /\ r.charges[n].payment = IF c.fee > 0 THEN "PENDING" ELSE "NOT_REQUIRED"
          /\ \A k \in DOMAIN q.charges : r.charges[k] = q.charges[k]
          /\ r.payment = IF c.fee > 0 THEN "PENDING" ELSE q.payment
          BY <1>4, <2>2 DEF SameMoney
    <3> HIDE DEF n
    <3>2. CASE c.fee > 0
      <4>1. n \in Owed(r) /\ r.payment = "PENDING"
            BY <3>1, <3>2 DEF Owed
      <4> QED
          BY <1>13, <4>1 DEF OwedOK
    <3>3. CASE ~(c.fee > 0)
      <4>1. Owed(r) = Owed(q) /\ r.payment = q.payment
            BY <3>1, <3>3 DEF Owed
      <4> QED
          BY <1>13, <4>1 DEF RowOK, OwedOK
    <3> QED
        BY <3>2, <3>3
  <2> QED
      BY <2>1, <2>2
<1>15. RowOK(r)
      BY <1>4, <1>8, <1>9, <1>12, <1>14 DEF RowOK
<1> QED
    BY <1>5, <1>15

\* Change c suits booking q: an extension starts where q starts and is counted from its end.
Suits(q, c) ==
    /\ c.from < c.to
    /\ c.kind = "EXTEND" => /\ c.from = q.from /\ c.minutes = c.to - q.to
                            /\ c.fee = ExtensionFee(q.fee, q.originalDuration, c.minutes)
    /\ c.kind # "EXTEND" => c.to - c.from <= q.to - q.from

\* A change that has to be approved only waits.
LEMMA AppendKeeps ==
    ASSUME NEW q, RowOK(q), Active(q), PendingChanges(q) = {},
           NEW c \in ChangeType, c.status = "PENDING_APPROVAL", Suits(q, c)
    PROVE  RowOK(Appended(q, c))
<1> DEFINE r == Appended(q, c)
           n == Len(q.changes) + 1
<1>1. q \in BookingType /\ q.status # "NONE"
      BY DEF RowOK, Active
<1>2. /\ r \in BookingType
      /\ r.status = q.status /\ SameTerms(q, r) /\ SameWindow(q, r) /\ SameMoney(q, r)
      /\ r.version = q.version + 1
      /\ DOMAIN r.changes = DOMAIN q.changes \cup {n} /\ n \notin DOMAIN q.changes
      /\ r.changes[n] = c
      /\ \A i \in DOMAIN q.changes : r.changes[i] = q.changes[i]
      BY <1>1, AppendedFields
<1>3. r = Appended(q, c)
      OBVIOUS
<1> HIDE DEF r, n
<1>4. PendingChanges(r) = {n} /\ Extensions(r) = Extensions(q)
      BY <1>2 DEF PendingChanges, Extensions
<1>5. ShapeOK(r)
  <2>1. r.version = q.version + 1
        BY <1>2
  <2>2. r.version # 0
        BY <1>1, <2>1, NumberTypes
  <2> QED
      BY <1>1, <1>2, <1>4, <2>2 DEF RowOK, ShapeOK, SameTerms, SameWindow, Suits
<1>6. PricesOK(r)
  <2>1. ASSUME NEW i \in DOMAIN q.changes, q.changes[i].kind = "EXTEND"
        PROVE  /\ q.changes[i].fee = ExtensionFee(r.fee, r.originalDuration, q.changes[i].minutes)
               /\ q.changes[i].status # "PENDING_APPROVAL"
    <3>1. q.changes[i].status # "PENDING_APPROVAL"
          BY DEF PendingChanges
    <3> QED
        BY <1>2, <2>1, <3>1 DEF RowOK, PricesOK, SameTerms
  <2>2. c.kind = "EXTEND" => /\ c.fee = ExtensionFee(r.fee, r.originalDuration, c.minutes)
                             /\ c.minutes = c.to - r.to
        BY <1>2 DEF Suits, SameTerms, SameWindow
  <2> QED
      BY <1>2, <2>1, <2>2 DEF PricesOK
<1>7. ChargesOK(r)
  <2>1. Minutes(r) = Minutes(q)
    <3>1. \A j \in Extensions(q) : MinutesOf(r)[j] = MinutesOf(q)[j]
          BY <1>2 DEF MinutesOf, Extensions
    <3> QED
        BY <1>1, <1>4, <3>1, PlacesFinite, SumOfSame DEF Minutes
  <2>2. \A k \in DOMAIN q.charges : q.charges[k].change \in DOMAIN q.changes
        BY DEF RowOK, ChargesOK, Extensions
  <2>3. \A k \in DOMAIN q.charges : q.charges[k].amount = r.changes[q.charges[k].change].fee
        BY <1>2, <2>2 DEF RowOK, ChargesOK
  <2> QED
      BY <1>2, <1>4, <2>1, <2>3 DEF RowOK, ChargesOK, SameTerms, SameWindow, SameMoney
<1>8. OwedOK(r)
      BY <1>2 DEF RowOK, OwedOK, Owed, Active, SameTerms, SameMoney
<1> QED
    BY <1>2, <1>3, <1>5, <1>6, <1>7, <1>8 DEF RowOK

\* A change that needs no approval takes effect at once.
LEMMA AcceptedKeeps ==
    ASSUME NEW q, RowOK(q), Active(q), PendingChanges(q) = {},
           NEW c \in ChangeType, c.status \in {"PENDING_APPROVAL", "APPROVED"}, Suits(q, c)
    PROVE  RowOK(WithChange(q, c))
<1>1. CASE c.status = "PENDING_APPROVAL"
  <2>1. WithChange(q, c) = Appended(q, c)
        BY <1>1 DEF WithChange, Appended
  <2> QED
      BY <1>1, <2>1, AppendKeeps
<1>2. CASE c.status = "APPROVED"
  <2> DEFINE p == Appended(q, c)
             i == Len(p.changes)
  <2>1. WithChange(q, c) = Approval(p, i, c)
        BY <1>2 DEF WithChange, Appended, Approval
  <2>2. q \in BookingType
        BY DEF RowOK
  <2>3. /\ p \in BookingType
        /\ p.status = q.status /\ SameTerms(q, p) /\ SameWindow(q, p) /\ SameMoney(q, p)
        /\ p.version = q.version + 1
        /\ i \in Nat
        /\ DOMAIN p.changes = DOMAIN q.changes \cup {i} /\ i \notin DOMAIN q.changes
        /\ p.changes[i] = c
        /\ \A j \in DOMAIN q.changes : p.changes[j] = q.changes[j]
        BY <2>2, AppendedFields
  <2> HIDE DEF i, p
  <2>4. p.version # 0
        BY <2>2, <2>3, NumberTypes
  <2>5. RowOK(Approval(p, i, c))
        BY <1>2, <2>3, <2>4, ApprovalKeeps DEF Suits
  <2> QED
      BY <2>1, <2>5
<1> QED
    BY <1>1, <1>2

\* A change that waited is approved.
LEMMA ApprovedKeeps ==
    ASSUME NEW q, RowOK(q), Active(q), NEW i \in PendingChanges(q),
           q.changes[i].kind = "EXTEND" => q.changes[i].from = q.from,
           q.changes[i].kind # "EXTEND" => q.changes[i].to - q.changes[i].from <= q.to - q.from
    PROVE  RowOK(Approval(Decided(q, i, "APPROVED"), i, q.changes[i]))
<1> DEFINE c == q.changes[i]
           p == Decided(q, i, "APPROVED")
<1>1. /\ q \in BookingType /\ i \in DOMAIN q.changes /\ "APPROVED" \in ChangeStatus
      /\ c \in ChangeType /\ c.status = "PENDING_APPROVAL" /\ i \in Nat
      BY PlaceTypes, PlacesFinite DEF RowOK, PendingChanges, ChangeStatus
<1>2. /\ p \in BookingType
      /\ p.status = q.status /\ SameTerms(q, p) /\ SameWindow(q, p) /\ SameMoney(q, p)
      /\ p.version = q.version + 1
      /\ DOMAIN p.changes = DOMAIN q.changes
      /\ p.changes[i] = [q.changes[i] EXCEPT !.status = "APPROVED"]
      /\ \A j \in DOMAIN q.changes \ {i} : p.changes[j] = q.changes[j]
      BY <1>1, DecidedFields
<1>3. c = q.changes[i] /\ p = Decided(q, i, "APPROVED")
      OBVIOUS
<1> HIDE DEF p, c
<1>4. /\ p.changes[i].kind = c.kind /\ p.changes[i].from = c.from /\ p.changes[i].to = c.to
      /\ p.changes[i].minutes = c.minutes /\ p.changes[i].fee = c.fee /\ p.changes[i].status = "APPROVED"
      BY <1>1, <1>2, <1>3, ChangeGets
<1>5. p.version # 0 /\ (\A j \in PendingChanges(q) : j = i) /\ DOMAIN p.changes = DOMAIN q.changes \cup {i}
      BY <1>1, <1>2, NumberTypes DEF RowOK, ShapeOK
<1>6. Suits(q, c)
      BY <1>1, <1>3 DEF Suits, RowOK, ShapeOK, PricesOK
<1>7. RowOK(Approval(p, i, c))
      BY <1>1, <1>2, <1>4, <1>5, <1>6, ApprovalKeeps DEF Suits
<1> QED
    BY <1>3, <1>7

LEMMA NewBookingKeeps ==
    ASSUME TypeOK, NEW r \in Resident, NEW key \in Key \cup {NoKey}, NEW w \in Window, NEW n \in Attendees
    PROVE  RowOK(NewBooking(r, key, w, n))
<1> DEFINE q == NewBooking(r, key, w, n)
<1>1. /\ q \in BookingType
      /\ q.status \in {"PENDING_APPROVAL", "APPROVED"} /\ q.resident = r
      /\ q.from = w.from /\ q.to = w.to /\ q.version = 1
      /\ q.fee = config.fee /\ q.deposit = config.deposit /\ q.originalDuration = w.to - w.from
      /\ q.payment = IF config.fee + config.deposit > 0 THEN "PENDING" ELSE "NOT_REQUIRED"
      /\ q.changes = <<>> /\ q.charges = <<>>
      BY NewBookingFields
<1>2. q = NewBooking(r, key, w, n)
      OBVIOUS
<1> HIDE DEF q
<1>3. w.from \in Nat /\ w.to \in Nat /\ w.from < w.to /\ config.fee \in Nat /\ config.deposit \in Nat
      BY WindowTypes, ConfigTypes
<1>4. (\A i : i \notin DOMAIN <<>>) /\ Len(<<>>) = 0
      OBVIOUS
<1>5. PendingChanges(q) = {} /\ Extensions(q) = {} /\ Owed(q) = {}
      BY <1>1, <1>4 DEF PendingChanges, Extensions, Owed
<1>6. ShapeOK(q)
      BY <1>1, <1>3, <1>4, <1>5 DEF ShapeOK
<1>7. PricesOK(q)
      BY <1>1, <1>4 DEF PricesOK
<1>8. Minutes(q) = 0
      BY <1>5, SumOfNone DEF Minutes
<1>9. ChargesOK(q)
  <2>1. Cardinality({}) = 0
        BY FS_EmptySet
  <2>2. q.to - q.from <= q.originalDuration + 0
        BY <1>1, <1>3
  <2> QED
      BY <1>1, <1>4, <1>5, <1>8, <2>1, <2>2 DEF ChargesOK
<1>10. OwedOK(q)
      BY <1>1, <1>3, <1>5 DEF OwedOK, Active
<1> QED
    BY <1>1, <1>2, <1>6, <1>7, <1>9, <1>10 DEF RowOK

-----------------------------------------------------------------------------
(* What a step does to one booking.                                         *)

Kinds == {"EDIT", "EXTEND"}

\* The change a resident asks for.
Requested(q, key, kind, w) ==
    [key |-> key, kind |-> kind, from |-> w.from, to |-> w.to,
     status |-> IF config.requiresApproval THEN "PENDING_APPROVAL" ELSE "APPROVED",
     minutes |-> IF kind = "EXTEND" THEN w.to - q.to ELSE 0,
     fee |-> IF kind = "EXTEND" THEN Quote(q, w.to) ELSE 0]

LEMMA RequestedFields ==
    ASSUME TypeOK, NEW q, RowOK(q), Active(q),
           NEW key \in Key, NEW kind \in Kinds, NEW w \in Window,
           IF kind = "EXTEND" THEN w.from = q.from /\ w.to > q.to ELSE w.to - w.from <= q.to - q.from
    PROVE  LET c == Requested(q, key, kind, w) IN
           /\ c \in ChangeType /\ c.status \in {"PENDING_APPROVAL", "APPROVED"} /\ Suits(q, c)
           /\ c.kind = kind /\ c.from = w.from /\ c.to = w.to
<1> DEFINE c == Requested(q, key, kind, w)
           s == IF config.requiresApproval THEN "PENDING_APPROVAL" ELSE "APPROVED"
           m == IF kind = "EXTEND" THEN w.to - q.to ELSE 0
           f == IF kind = "EXTEND" THEN Quote(q, w.to) ELSE 0
<1>1. q \in BookingType /\ q.originalDuration # 0
      BY DEF RowOK, ShapeOK, Active
<1>2. w.from \in Nat /\ w.to \in Nat /\ w.from < w.to /\ q.to \in Nat /\ q.fee \in Nat
      /\ q.originalDuration \in Nat \ {0}
      BY <1>1, WindowTypes, NumberTypes
<1>3. m \in Nat
      BY <1>2
<1>4. kind = "EXTEND" => f = ExtensionFee(q.fee, q.originalDuration, m)
      BY DEF Quote
<1>5. f \in Nat
  <2>1. CASE kind = "EXTEND"
    <3>1. ExtensionFee(q.fee, q.originalDuration, m) \in Nat
          BY <1>2, <1>3, FeeIsProportional
    <3> QED
        BY <1>4, <2>1, <3>1
  <2>2. CASE kind # "EXTEND"
        BY <2>2
  <2> QED
      BY <2>1, <2>2
<1>6. c = [key |-> key, kind |-> kind, from |-> w.from, to |-> w.to, status |-> s, minutes |-> m, fee |-> f]
      BY DEF Requested
<1>7. s \in ChangeStatus /\ s \in {"PENDING_APPROVAL", "APPROVED"}
      BY DEF ChangeStatus
<1>8. kind = "EXTEND" => m = w.to - q.to
      OBVIOUS
<1> HIDE DEF s, m, f
<1>9. /\ c \in ChangeType /\ c.status = s
      /\ c.kind = kind /\ c.from = w.from /\ c.to = w.to /\ c.minutes = m /\ c.fee = f
  <2> HIDE DEF c
  <2> QED
      BY <1>2, <1>3, <1>5, <1>6, <1>7 DEF ChangeType, Kinds
<1> HIDE DEF c
<1>10. Suits(q, c)
      BY <1>2, <1>4, <1>8, <1>9 DEF Suits
<1> QED
    BY <1>7, <1>9, <1>10 DEF c

\* Once read, booking q takes change c.
Takes(q, c) ==
    /\ Active(ExpireChanges(q)) /\ PendingChanges(ExpireChanges(q)) = {} /\ ExpireChanges(q).to > now
    /\ c \in ChangeType /\ c.status \in {"PENDING_APPROVAL", "APPROVED"} /\ Suits(ExpireChanges(q), c)

\* Once read, change i of booking q can still be decided.
Decidable(q, i) == Active(ExpireChanges(q)) /\ i \in PendingChanges(ExpireChanges(q))

\* ... and approved.
Approvable(q, i) ==
    LET e == ExpireChanges(q) IN
    /\ Decidable(q, i) /\ e.to > now
    /\ e.changes[i].kind = "EXTEND" => e.changes[i].from = e.from
    /\ e.changes[i].kind # "EXTEND" => e.changes[i].to - e.changes[i].from <= e.to - e.from

Approved(q, i) ==
    Approval(Decided(ExpireChanges(q), i, "APPROVED"), i, ExpireChanges(q).changes[i])

\* Everything that may happen to a booking.
RowUpdate(q, r) ==
    \/ r = q
    \/ r = ExpireChanges(q)
    \/ Active(q) /\ \E s \in {"CANCELLED", "REJECTED"} : r = Withdrawn(q, s)
    \/ Active(q) /\ r = Granted(q)
    \/ \E c \in ChangeType : Takes(q, c) /\ r = WithChange(ExpireChanges(q), c)
    \/ \E i \in Nat : Approvable(q, i) /\ r = Approved(q, i)
    \/ \E i \in Nat : Decidable(q, i) /\ r = Decided(ExpireChanges(q), i, "REJECTED")

\* ... or be a booking that was just made.
RowStep(q, r) ==
    \/ RowUpdate(q, r)
    \/ /\ q.status = "NONE"
       /\ \E a \in Resident, key \in Key \cup {NoKey}, w \in Window, n \in Attendees :
             r = NewBooking(a, key, w, n)

LEMMA RowStepKeeps ==
    ASSUME TypeOK, NEW q, NEW r, RowOK(q), RowStep(q, r)
    PROVE  RowOK(r)
<1>1. RowOK(ExpireChanges(q))
      BY ExpireKeeps
<1>2. ASSUME NEW a \in Resident, NEW key \in Key \cup {NoKey}, NEW w \in Window, NEW n \in Attendees,
             r = NewBooking(a, key, w, n)
      PROVE  RowOK(r)
      BY <1>2, NewBookingKeeps
<1>3. ASSUME Active(q), NEW s \in {"CANCELLED", "REJECTED"}, r = Withdrawn(q, s)
      PROVE  RowOK(r)
      BY <1>3, WithdrawnKeeps
<1>4. ASSUME Active(q), r = Granted(q)
      PROVE  RowOK(r)
      BY <1>4, GrantedKeeps
<1> DEFINE e == ExpireChanges(q)
<1>5. ASSUME NEW c \in ChangeType, Takes(q, c), r = WithChange(e, c)
      PROVE  RowOK(r)
  <2>1. /\ RowOK(e) /\ Active(e) /\ PendingChanges(e) = {}
        /\ c.status \in {"PENDING_APPROVAL", "APPROVED"} /\ Suits(e, c)
        BY <1>1, <1>5 DEF Takes
  <2> HIDE DEF e
  <2> QED
      BY <1>5, <2>1, AcceptedKeeps
<1>6. ASSUME NEW i \in Nat, Approvable(q, i), r = Approved(q, i)
      PROVE  RowOK(r)
  <2>1. /\ RowOK(e) /\ Active(e) /\ i \in PendingChanges(e)
        /\ e.changes[i].kind = "EXTEND" => e.changes[i].from = e.from
        /\ e.changes[i].kind # "EXTEND" => e.changes[i].to - e.changes[i].from <= e.to - e.from
        /\ r = Approval(Decided(e, i, "APPROVED"), i, e.changes[i])
        BY <1>1, <1>6 DEF Approvable, Decidable, Approved
  <2> HIDE DEF e
  <2> QED
      BY <2>1, ApprovedKeeps
<1>7. ASSUME NEW i \in Nat, Decidable(q, i), r = Decided(e, i, "REJECTED")
      PROVE  RowOK(r)
  <2>1. RowOK(e) /\ Active(e) /\ i \in PendingChanges(e)
        BY <1>1, <1>7 DEF Decidable
  <2> HIDE DEF e
  <2> QED
      BY <1>7, <2>1, RejectedKeeps
<1> QED
    BY <1>1, <1>2, <1>3, <1>4, <1>5, <1>6, <1>7 DEF RowStep, RowUpdate

AllRowsOK == \A b \in Booking : RowOK(booking[b])

\* Every booking is stored again, changed as one booking may be.
Moves ==
    /\ booking' = [o \in Booking |-> booking'[o]]
    /\ \A o \in Booking : RowStep(booking[o], booking'[o])

\* No booking is made.
Updates ==
    /\ booking' = [o \in Booking |-> booking'[o]]
    /\ \A o \in Booking : RowUpdate(booking[o], booking'[o])

\* The rest of the state keeps its types.
RestTyped ==
    /\ config' \in Config
    /\ block' \in [Block -> BlockType]
    /\ creationRetries' \in SUBSET RetryType
    /\ now' \in Nat

LEMMA ReadingFields ==
    ASSUME NEW b \in Booking, NEW q, StoreReading(b, q)
    PROVE  /\ booking' = [o \in Booking |-> booking'[o]] /\ booking'[b] = q
           /\ \A o \in Booking \ {b} :
                 booking'[o] = Refreshed(o) /\ RowUpdate(booking[o], booking'[o])
<1>1. \A o \in Booking : RowUpdate(booking[o], Refreshed(o))
      BY DEF RowUpdate, Refreshed
<1>2. booking' = [o \in Booking |-> IF o = b THEN q ELSE Refreshed(o)]
      BY DEF StoreReading
<1>3. booking'[b] = q /\ \A o \in Booking \ {b} : booking'[o] = Refreshed(o)
      BY <1>2
<1>4. booking' = [o \in Booking |-> booking'[o]]
      BY <1>2
<1> QED
    BY <1>1, <1>3, <1>4

LEMMA ReadingMoves ==
    ASSUME NEW b \in Booking, NEW q, StoreReading(b, q), RowUpdate(booking[b], q)
    PROVE  Updates /\ booking'[b] = q /\ \A o \in Booking \ {b} : booking'[o] = Refreshed(o)
BY ReadingFields DEF Updates

LEMMA StoreMoves ==
    ASSUME TypeOK, NEW b \in Booking, NEW q, Store(b, q), RowUpdate(booking[b], q)
    PROVE  Updates /\ booking'[b] = q /\ \A o \in Booking \ {b} : booking'[o] = booking[o]
<1>1. booking' = [booking EXCEPT ![b] = q] /\ booking = [o \in Booking |-> booking[o]]
      BY DEF Store, TypeOK
<1>2. booking'[b] = q /\ \A o \in Booking \ {b} : booking'[o] = booking[o]
      BY <1>1
<1>3. booking' = [o \in Booking |-> booking'[o]]
      BY <1>1
<1>4. \A o \in Booking : RowUpdate(booking[o], booking[o])
      BY DEF RowUpdate
<1> QED
    BY <1>2, <1>3, <1>4 DEF Updates

LEMMA RowUpdateSame == \A q : RowUpdate(q, q)
BY DEF RowUpdate

LEMMA SameMoves ==
    ASSUME TypeOK, UNCHANGED booking
    PROVE  Updates
<1>1. booking' = [o \in Booking |-> booking'[o]]
      BY DEF TypeOK
<1> QED
    BY <1>1, RowUpdateSame DEF Updates

LEMMA BookMoves ==
    ASSUME TypeOK, NEW b \in Booking, NEW r \in Resident, NEW key \in Key \cup {NoKey},
           NEW w \in Window, NEW n \in Attendees, NEW price, Book(b, r, key, w, n, price)
    PROVE  /\ Moves /\ booking'[b] = NewBooking(r, key, w, n)
           /\ \A o \in Booking \ {b} :
                 booking'[o] = Refreshed(o) /\ RowUpdate(booking[o], booking'[o])
           /\ RestTyped
<1>1. booking[b].status = "NONE" /\ StoreReading(b, NewBooking(r, key, w, n))
      BY DEF Book, NewBooking
<1>2. RowStep(booking[b], NewBooking(r, key, w, n))
      BY <1>1 DEF RowStep
<1>3. /\ Moves /\ booking'[b] = NewBooking(r, key, w, n)
      /\ \A o \in Booking \ {b} : booking'[o] = Refreshed(o) /\ RowUpdate(booking[o], booking'[o])
      BY <1>1, <1>2, ReadingFields DEF Moves, RowStep
<1>4. config' \in Config /\ block' \in [Block -> BlockType] /\ now' \in Nat
      BY DEF Book, TypeOK
<1>5. creationRetries' \in SUBSET RetryType
  <2>1. key # NoKey => [resident |-> r, key |-> key, id |-> b] \in RetryType
        BY DEF RetryType
  <2> QED
      BY <2>1 DEF Book, TypeOK
<1> QED
    BY <1>3, <1>4, <1>5 DEF RestTyped

LEMMA RequestMoves ==
    ASSUME TypeOK, AllRowsOK, NEW b \in Booking, NEW v, NEW key \in Key, NEW kind \in Kinds,
           NEW w \in Window, RequestChange(b, v, key, kind, w)
    PROVE  /\ Updates /\ RestTyped
           /\ \A o \in Booking \ {b} : booking'[o] = Refreshed(o)
           /\ RowOK(ExpireChanges(booking[b])) /\ ExpireChanges(booking[b]).version = v
           /\ \E c \in ChangeType :
                 /\ c = Requested(ExpireChanges(booking[b]), key, kind, w)
                 /\ Takes(booking[b], c) /\ booking'[b] = WithChange(ExpireChanges(booking[b]), c)
                 /\ c.kind = kind /\ c.from = w.from /\ c.to = w.to
<1> DEFINE e == ExpireChanges(booking[b])
           c == Requested(e, key, kind, w)
<1>1. RowOK(e)
      BY ExpireKeeps DEF AllRowsOK
<1>2. /\ Active(e) /\ PendingChanges(e) = {}
      /\ kind = "EXTEND" => e.to > now
      /\ kind # "EXTEND" => e.from > now + config.cutoff
      BY DEF RequestChange, Eligible
<1>3. IF kind = "EXTEND" THEN w.from = e.from /\ w.to > e.to ELSE w.to - w.from <= e.to - e.from
      BY DEF RequestChange, ValidChange
<1>4. e.version = v /\ StoreReading(b, WithChange(e, c))
      BY DEF RequestChange, CurrentVersion, Requested
<1>5. e = ExpireChanges(booking[b]) /\ c = Requested(e, key, kind, w)
      OBVIOUS
<1> HIDE DEF e, c
<1>6. /\ c \in ChangeType /\ c.status \in {"PENDING_APPROVAL", "APPROVED"} /\ Suits(e, c)
      /\ c.kind = kind /\ c.from = w.from /\ c.to = w.to
      BY <1>1, <1>2, <1>3, <1>5, RequestedFields
<1>7. e.to > now
  <2>1. e \in BookingType /\ e.from < e.to
        BY <1>1, <1>2 DEF RowOK, ShapeOK, Active
  <2> QED
      BY <1>2, <2>1, ConfigTypes, NumberTypes
<1>8. Takes(booking[b], c)
      BY <1>2, <1>5, <1>6, <1>7 DEF Takes
<1>9. RowUpdate(booking[b], WithChange(e, c))
      BY <1>5, <1>6, <1>8 DEF RowUpdate
<1>10. /\ Updates /\ booking'[b] = WithChange(e, c)
       /\ \A o \in Booking \ {b} : booking'[o] = Refreshed(o)
       BY <1>4, <1>9, ReadingMoves
<1>11. RestTyped
       BY DEF RequestChange, TypeOK, RestTyped
<1> QED
    BY <1>1, <1>4, <1>5, <1>6, <1>8, <1>10, <1>11

LEMMA ApproveChangeMoves ==
    ASSUME TypeOK, AllRowsOK, NEW b \in Booking, NEW i \in Nat, ApproveChange(b, i)
    PROVE  /\ Updates /\ RestTyped /\ Approvable(booking[b], i) /\ booking'[b] = Approved(booking[b], i)
           /\ \A o \in Booking \ {b} : booking'[o] = Refreshed(o)
<1> DEFINE e == ExpireChanges(booking[b])
           c == e.changes[i]
<1>1. RowOK(e)
      BY ExpireKeeps DEF AllRowsOK
<1>2. /\ Active(e) /\ i \in PendingChanges(e)
      /\ c.kind = "EXTEND" => e.to > now
      /\ c.kind # "EXTEND" => e.from > now + config.cutoff
      BY DEF ApproveChange
<1>3. /\ c.kind = "EXTEND" => c.from = e.from
      /\ c.kind # "EXTEND" => c.to - c.from <= e.to - e.from
      BY DEF ApproveChange, ValidChange, Span
<1>4. StoreReading(b, Approved(booking[b], i))
      BY DEF ApproveChange, Approved, Approval
<1>5. e = ExpireChanges(booking[b]) /\ c = e.changes[i]
      OBVIOUS
<1> HIDE DEF e, c
<1>6. e.to > now
  <2>1. e \in BookingType /\ e.from < e.to
        BY <1>1, <1>2 DEF RowOK, ShapeOK, Active
  <2> QED
      BY <1>2, <2>1, ConfigTypes, NumberTypes
<1>7. Approvable(booking[b], i)
      BY <1>2, <1>3, <1>5, <1>6 DEF Approvable, Decidable
<1>8. RowUpdate(booking[b], Approved(booking[b], i))
      BY <1>7 DEF RowUpdate
<1>9. RestTyped
      BY DEF ApproveChange, TypeOK, RestTyped
<1> QED
    BY <1>4, <1>7, <1>8, <1>9, ReadingMoves

LEMMA OtherMoves ==
    ASSUME TypeOK,
           \/ \E b \in Booking : Cancel(b) \/ Approve(b) \/ Reject(b)
           \/ \E b \in Booking : \E i \in 1..MaxChanges : RejectChange(b, i)
           \/ \E c \in Config : Update(c)
           \/ \E k \in Block : ReleaseBlock(k) \/ \E w \in BlockWindow : AddBlock(k, w)
           \/ \E read \in SUBSET Booking : Access(read)
           \/ Tick \/ UNCHANGED vars
    PROVE  Updates /\ RestTyped
<1>1. ASSUME NEW b \in Booking, Cancel(b)
      PROVE  Updates /\ RestTyped
  <2>1. Active(booking[b]) /\ Store(b, Withdrawn(booking[b], "CANCELLED"))
        BY <1>1 DEF Cancel
  <2>2. RowUpdate(booking[b], Withdrawn(booking[b], "CANCELLED"))
        BY <2>1 DEF RowUpdate
  <2> QED
      BY <1>1, <2>1, <2>2, StoreMoves DEF Cancel, RestTyped, TypeOK
<1>2. ASSUME NEW b \in Booking, Reject(b)
      PROVE  Updates /\ RestTyped
  <2>1. Active(booking[b]) /\ Store(b, Withdrawn(booking[b], "REJECTED"))
        BY <1>2 DEF Reject, Active
  <2>2. RowUpdate(booking[b], Withdrawn(booking[b], "REJECTED"))
        BY <2>1 DEF RowUpdate
  <2> QED
      BY <1>2, <2>1, <2>2, StoreMoves DEF Reject, RestTyped, TypeOK
<1>3. ASSUME NEW b \in Booking, Approve(b)
      PROVE  Updates /\ RestTyped
  <2>1. Active(booking[b]) /\ StoreReading(b, Granted(booking[b]))
        BY <1>3 DEF Approve, CanApprove, Active, Granted
  <2>2. RowUpdate(booking[b], Granted(booking[b]))
        BY <2>1 DEF RowUpdate
  <2> QED
      BY <1>3, <2>1, <2>2, ReadingMoves DEF Approve, RestTyped, TypeOK
<1>4. ASSUME NEW b \in Booking, NEW i \in 1..MaxChanges, RejectChange(b, i)
      PROVE  Updates /\ RestTyped
  <2>1. Decidable(booking[b], i) /\ Store(b, Decided(ExpireChanges(booking[b]), i, "REJECTED"))
        BY <1>4 DEF RejectChange, Decidable
  <2>2. i \in Nat
        BY AmenityAssumption
  <2>3. RowUpdate(booking[b], Decided(ExpireChanges(booking[b]), i, "REJECTED"))
        BY <2>1, <2>2 DEF RowUpdate
  <2> QED
      BY <1>4, <2>1, <2>3, StoreMoves DEF RejectChange, RestTyped, TypeOK
<1>5. ASSUME NEW c \in Config, Update(c)
      PROVE  Updates /\ RestTyped
      BY <1>5, SameMoves DEF Update, RestTyped, TypeOK
<1>6. ASSUME NEW k \in Block, ReleaseBlock(k)
      PROVE  Updates /\ RestTyped
  <2>1. block' \in [Block -> BlockType]
        BY <1>6 DEF ReleaseBlock, TypeOK, BlockType
  <2> QED
      BY <1>6, <2>1, SameMoves DEF ReleaseBlock, RestTyped, TypeOK
<1>7. ASSUME NEW k \in Block, NEW w \in BlockWindow, AddBlock(k, w)
      PROVE  Updates /\ RestTyped
  <2>1. block' \in [Block -> BlockType]
    <3>1. [status |-> "BLOCKED", from |-> w.from, to |-> w.to] \in BlockType
          BY WindowTypes DEF BlockType
    <3> QED
        BY <1>7, <3>1 DEF AddBlock, TypeOK
  <2>2. booking' = [o \in Booking |-> Refreshed(o)]
        BY <1>7 DEF AddBlock
  <2>3. \A o \in Booking : RowUpdate(booking[o], Refreshed(o))
        BY DEF RowUpdate, Refreshed
  <2>4. Updates
        BY <2>2, <2>3 DEF Updates
  <2> QED
      BY <1>7, <2>1, <2>4 DEF AddBlock, RestTyped, TypeOK
<1>8. ASSUME NEW read \in SUBSET Booking, Access(read)
      PROVE  Updates /\ RestTyped
  <2>1. booking' = [o \in Booking |-> IF o \in read THEN ExpireChanges(booking[o]) ELSE booking[o]]
        BY <1>8 DEF Access
  <2>2. \A o \in Booking : RowUpdate(booking[o], IF o \in read THEN ExpireChanges(booking[o]) ELSE booking[o])
        BY DEF RowUpdate
  <2>3. Updates
        BY <2>1, <2>2 DEF Updates
  <2> QED
      BY <1>8, <2>3 DEF Access, RestTyped, TypeOK
<1>9. CASE Tick
      BY <1>9, SameMoves DEF Tick, RestTyped, TypeOK
<1>10. CASE UNCHANGED vars
       BY <1>10, SameMoves DEF vars, RestTyped, TypeOK
<1> QED
    BY <1>1, <1>2, <1>3, <1>4, <1>5, <1>6, <1>7, <1>8, <1>9, <1>10

-----------------------------------------------------------------------------
(* What stays of a booking in a step.                                       *)

LEMMA TakenFields ==
    ASSUME NEW q, RowOK(q), NEW c \in ChangeType, c.status \in {"PENDING_APPROVAL", "APPROVED"}
    PROVE  LET r == WithChange(q, c)
               n == Len(q.changes) + 1 IN
           /\ r.status = q.status /\ SameTerms(q, r) /\ r.version = q.version + 1
           /\ DOMAIN r.changes = DOMAIN q.changes \cup {n} /\ n \notin DOMAIN q.changes
           /\ Len(r.changes) = n /\ r.changes[n] = c
           /\ \A j \in DOMAIN q.changes : r.changes[j] = q.changes[j]
           /\ c.status = "APPROVED" => r.from = c.from /\ r.to = c.to
           /\ c.status # "APPROVED" => SameWindow(q, r)
<1> DEFINE n == Len(q.changes) + 1
           p == Appended(q, c)
           u == Approval(p, n, c)
           r == WithChange(q, c)
<1>1. q \in BookingType
      BY DEF RowOK
<1>2. /\ p \in BookingType
      /\ p.status = q.status /\ SameTerms(q, p) /\ SameWindow(q, p) /\ SameMoney(q, p)
      /\ p.version = q.version + 1
      /\ n \in Nat /\ Len(p.changes) = n
      /\ DOMAIN p.changes = DOMAIN q.changes \cup {n} /\ n \notin DOMAIN q.changes
      /\ p.changes[n] = c
      /\ \A i \in DOMAIN q.changes : p.changes[i] = q.changes[i]
      BY <1>1, AppendedFields
<1>3. r = IF c.status = "APPROVED" THEN u ELSE p
  <2>1. r = IF c.status = "APPROVED" THEN Approval(p, Len(p.changes), c) ELSE p
        BY DEF WithChange, Appended, Approval
  <2> HIDE DEF p, n, r
  <2> QED
      BY <1>2, <2>1
<1> HIDE DEF p
<1>4. \A k \in DOMAIN p.charges : p.charges[k].change # n
  <2> HIDE DEF n
  <2> QED
      BY <1>2 DEF RowOK, ChargesOK, Extensions, SameMoney
<1> HIDE DEF n
<1>5. /\ u.status = p.status /\ SameTerms(p, u) /\ u.version = p.version /\ u.changes = p.changes
      /\ u.from = c.from /\ u.to = c.to
  <2>1. p \in BookingType /\ n \in Nat
        BY <1>2
  <2>2. /\ u \in BookingType
        /\ u.status = p.status /\ SameTerms(p, u) /\ u.version = p.version /\ u.changes = p.changes
        /\ u.from = c.from /\ u.to = c.to
        BY <1>4, <2>1, ApprovalFields
  <2> QED
      BY <2>2
<1> HIDE DEF u, r
<1>6. SameTerms(q, r) /\ r.status = q.status /\ r.version = q.version + 1 /\ r.changes = p.changes
      BY <1>2, <1>3, <1>5 DEF SameTerms
<1>7. /\ c.status = "APPROVED" => r.from = c.from /\ r.to = c.to
      /\ c.status # "APPROVED" => SameWindow(q, r)
      BY <1>2, <1>3, <1>5
<1> QED
    BY <1>2, <1>6, <1>7 DEF n, r

LEMMA ApprovedFields ==
    ASSUME NEW q, RowOK(q), NEW i \in PendingChanges(q)
    PROVE  LET r == Approval(Decided(q, i, "APPROVED"), i, q.changes[i]) IN
           /\ r.status = q.status /\ SameTerms(q, r) /\ r.version = q.version + 1
           /\ DOMAIN r.changes = DOMAIN q.changes
           /\ r.changes[i] = [q.changes[i] EXCEPT !.status = "APPROVED"]
           /\ \A j \in DOMAIN q.changes \ {i} : r.changes[j] = q.changes[j]
           /\ r.from = q.changes[i].from /\ r.to = q.changes[i].to
<1> DEFINE c == q.changes[i]
           p == Decided(q, i, "APPROVED")
           r == Approval(p, i, c)
<1>1. /\ q \in BookingType /\ i \in DOMAIN q.changes /\ "APPROVED" \in ChangeStatus
      /\ c \in ChangeType /\ i \in Nat
      BY PlaceTypes, PlacesFinite DEF RowOK, PendingChanges, ChangeStatus
<1>2. /\ p \in BookingType
      /\ p.status = q.status /\ SameTerms(q, p) /\ SameWindow(q, p) /\ SameMoney(q, p)
      /\ p.version = q.version + 1
      /\ DOMAIN p.changes = DOMAIN q.changes
      /\ p.changes[i] = [q.changes[i] EXCEPT !.status = "APPROVED"]
      /\ \A j \in DOMAIN q.changes \ {i} : p.changes[j] = q.changes[j]
      BY <1>1, DecidedFields
<1> HIDE DEF p, c
<1>3. \A k \in DOMAIN p.charges : p.charges[k].change # i
      BY <1>1, <1>2 DEF RowOK, ChargesOK, Extensions, SameMoney, PendingChanges
<1>4. /\ r.status = p.status /\ SameTerms(p, r) /\ r.version = p.version /\ r.changes = p.changes
      /\ r.from = c.from /\ r.to = c.to
      BY <1>1, <1>2, <1>3, ApprovalFields
<1> HIDE DEF r
<1>5. SameTerms(q, r) /\ r.status = q.status /\ r.version = q.version + 1
      BY <1>2, <1>4 DEF SameTerms
<1> QED
    BY <1>2, <1>4, <1>5 DEF r, p, c

\* A booking keeps its terms and its decided changes, moves only with a change that was
\* just approved, and has a new version when anything in it is different.
Keeps(q, r) ==
    /\ r.status # "NONE" /\ SameTerms(q, r)
    /\ DOMAIN q.changes \subseteq DOMAIN r.changes
    /\ \A i \in DOMAIN q.changes \ PendingChanges(q) : r.changes[i] = q.changes[i]
    /\ \/ SameWindow(q, r)
       \/ \E i \in DOMAIN r.changes :
             /\ i \in DOMAIN q.changes => i \in PendingChanges(q)
             /\ r.changes[i].status = "APPROVED"
             /\ r.changes[i].from = r.from /\ r.changes[i].to = r.to
    /\ r = q \/ q.version < r.version

LEMMA RejectedFields ==
    ASSUME NEW q \in BookingType, q.status # "NONE", NEW i \in PendingChanges(q)
    PROVE  LET r == Decided(q, i, "REJECTED") IN Keeps(q, r) /\ r.version = q.version + 1
<1> DEFINE r == Decided(q, i, "REJECTED")
<1>1. i \in DOMAIN q.changes /\ "REJECTED" \in ChangeStatus
      BY DEF PendingChanges, ChangeStatus
<1>2. /\ r \in BookingType
      /\ r.status = q.status /\ SameTerms(q, r) /\ SameWindow(q, r) /\ SameMoney(q, r)
      /\ r.version = q.version + 1
      /\ DOMAIN r.changes = DOMAIN q.changes /\ Len(r.changes) = Len(q.changes)
      /\ r.changes[i] = [q.changes[i] EXCEPT !.status = "REJECTED"]
      /\ \A j \in DOMAIN q.changes \ {i} : r.changes[j] = q.changes[j]
      BY <1>1, DecidedFields
<1> HIDE DEF r
<1>3. q.version < r.version
      BY <1>2, NumberTypes
<1>4. Keeps(q, r)
      BY <1>2, <1>3 DEF Keeps
<1> QED
    BY <1>2, <1>4 DEF r

LEMMA KeepsTwice ==
    ASSUME NEW q \in BookingType, NEW r, NEW e \in BookingType, q.status # "NONE",
           e.status = q.status /\ SameTerms(q, e) /\ SameWindow(q, e),
           DOMAIN e.changes = DOMAIN q.changes,
           \A i \in DOMAIN q.changes \ PendingChanges(q) : e.changes[i] = q.changes[i],
           PendingChanges(e) \subseteq PendingChanges(q),
           q.version <= e.version, r.version = e.version + 1, Keeps(e, r)
    PROVE  Keeps(q, r)
<1>1. q.version \in Nat /\ e.version \in Nat
      BY NumberTypes
<1>2. q.version < r.version
      BY <1>1
<1>3. r.status # "NONE" /\ SameTerms(q, r) /\ DOMAIN q.changes \subseteq DOMAIN r.changes
      BY DEF Keeps, SameTerms
<1>4. \A i \in DOMAIN q.changes \ PendingChanges(q) : r.changes[i] = q.changes[i]
      BY DEF Keeps
<1>5. SameWindow(e, r) => SameWindow(q, r)
      BY DEF SameWindow
<1> QED
    BY <1>2, <1>3, <1>4, <1>5 DEF Keeps

LEMMA ReadFields ==
    ASSUME NEW q \in BookingType
    PROVE  LET e == ExpireChanges(q) IN
           /\ e \in BookingType /\ e.status = q.status /\ SameTerms(q, e) /\ SameWindow(q, e)
           /\ DOMAIN e.changes = DOMAIN q.changes
           /\ \A i \in DOMAIN q.changes \ PendingChanges(q) : e.changes[i] = q.changes[i]
           /\ PendingChanges(e) = {i \in PendingChanges(q) : ~OverdueAt(q, i, config, now)}
           /\ \A i \in PendingChanges(e) : e.changes[i] = q.changes[i]
           /\ q.version <= e.version /\ (e = q \/ q.version < e.version)
<1> DEFINE e == ExpireChanges(q)
<1>1. /\ e \in BookingType
      /\ e.status = q.status /\ SameTerms(q, e) /\ SameWindow(q, e)
      /\ DOMAIN e.changes = DOMAIN q.changes
      /\ \A i \in DOMAIN q.changes :
            e.changes[i] = IF Overdue(q, i) THEN [q.changes[i] EXCEPT !.status = "EXPIRED"]
                           ELSE q.changes[i]
      /\ e = q \/ e.version = q.version + 1
      BY ExpireFields
<1> HIDE DEF e
<1>2. \A i : Overdue(q, i) <=> OverdueAt(q, i, config, now)
      BY DEF Overdue, OverdueAt
<1>3. q.version <= e.version /\ (e = q \/ q.version < e.version)
      BY <1>1, NumberTypes
<1>4. \A i \in DOMAIN q.changes : Overdue(q, i) => e.changes[i].status = "EXPIRED"
  <2>1. "EXPIRED" \in ChangeStatus
        BY DEF ChangeStatus
  <2>2. ASSUME NEW i \in DOMAIN q.changes, Overdue(q, i)
        PROVE  e.changes[i].status = "EXPIRED"
    <3>1. q.changes[i] \in ChangeType /\ e.changes[i] = [q.changes[i] EXCEPT !.status = "EXPIRED"]
          BY <1>1, <2>2, PlaceTypes
    <3> QED
        BY <2>1, <3>1, ChangeGets
  <2> QED
      BY <2>2
<1>5. PendingChanges(e) = {i \in PendingChanges(q) : ~OverdueAt(q, i, config, now)}
      BY <1>1, <1>2, <1>4 DEF PendingChanges
<1>6. \A i \in DOMAIN q.changes \ PendingChanges(q) : e.changes[i] = q.changes[i]
      BY <1>1 DEF Overdue
<1>7. \A i \in PendingChanges(e) : e.changes[i] = q.changes[i]
      BY <1>1, <1>2, <1>5 DEF PendingChanges
<1> QED
    BY <1>1, <1>3, <1>5, <1>6, <1>7 DEF e

\* A booking that was made.
LEMMA UpdateKeeps ==
    ASSUME NEW q, NEW r, RowOK(q), q.status # "NONE", RowUpdate(q, r)
    PROVE  Keeps(q, r)
<1> DEFINE e == ExpireChanges(q)
<1>1. q \in BookingType
      BY DEF RowOK
<1>2. /\ e \in BookingType /\ e.status = q.status /\ SameTerms(q, e) /\ SameWindow(q, e)
      /\ DOMAIN e.changes = DOMAIN q.changes
      /\ \A i \in DOMAIN q.changes \ PendingChanges(q) : e.changes[i] = q.changes[i]
      /\ PendingChanges(e) \subseteq PendingChanges(q)
      /\ q.version <= e.version /\ (e = q \/ q.version < e.version)
      BY <1>1, ReadFields
<1>3. RowOK(e)
      BY ExpireKeeps
<1>4. e = ExpireChanges(q)
      OBVIOUS
<1> HIDE DEF e
<1>5. ASSUME r = q
      PROVE  Keeps(q, r)
      BY <1>5 DEF Keeps, SameTerms, SameWindow
<1>6. ASSUME r = e
      PROVE  Keeps(q, r)
      BY <1>2, <1>6 DEF Keeps
<1>7. ASSUME NEW s \in {"CANCELLED", "REJECTED"}, r = Withdrawn(q, s)
      PROVE  Keeps(q, r)
  <2>1. /\ r.status = s /\ SameTerms(q, r) /\ SameWindow(q, r) /\ r.version = q.version + 1
        /\ DOMAIN r.changes = DOMAIN q.changes
        /\ \A i \in DOMAIN q.changes :
              r.changes[i] = IF i \in PendingChanges(q) THEN [q.changes[i] EXCEPT !.status = "REJECTED"]
                             ELSE q.changes[i]
        BY <1>1, <1>7, WithdrawnFields
  <2>2. q.version < r.version /\ r.status # "NONE"
        BY <1>1, <2>1, NumberTypes
  <2>3. \A i \in DOMAIN q.changes \ PendingChanges(q) : r.changes[i] = q.changes[i]
        BY <2>1
  <2> QED
      BY <2>1, <2>2, <2>3 DEF Keeps
<1>8. ASSUME r = Granted(q)
      PROVE  Keeps(q, r)
  <2>1. /\ r.status = "APPROVED" /\ r.version = q.version + 1
        /\ SameTerms(q, r) /\ SameWindow(q, r) /\ r.changes = q.changes
        BY <1>1, <1>8, GrantedFields
  <2> QED
      BY <1>1, <2>1, NumberTypes DEF Keeps
<1>9. ASSUME NEW c \in ChangeType, Takes(q, c), r = WithChange(e, c)
      PROVE  Keeps(q, r)
  <2> DEFINE n == Len(e.changes) + 1
  <2>1. c.status \in {"PENDING_APPROVAL", "APPROVED"}
        BY <1>9 DEF Takes
  <2>2. /\ r.status = e.status /\ SameTerms(e, r) /\ r.version = e.version + 1
        /\ DOMAIN r.changes = DOMAIN e.changes \cup {n} /\ n \notin DOMAIN e.changes
        /\ r.changes[n] = c
        /\ \A j \in DOMAIN e.changes : r.changes[j] = e.changes[j]
        /\ c.status = "APPROVED" => r.from = c.from /\ r.to = c.to
        /\ c.status # "APPROVED" => SameWindow(e, r)
        BY <1>3, <1>9, <2>1, TakenFields
  <2> HIDE DEF n
  <2>3. Keeps(e, r)
        BY <1>1, <1>2, <2>2, NumberTypes DEF Keeps
  <2> QED
      BY <1>1, <1>2, <2>2, <2>3, KeepsTwice
<1>10. ASSUME NEW i \in Nat, Approvable(q, i), r = Approved(q, i)
       PROVE  Keeps(q, r)
  <2>1. i \in PendingChanges(e) /\ r = Approval(Decided(e, i, "APPROVED"), i, e.changes[i])
        BY <1>4, <1>10 DEF Approvable, Decidable, Approved
  <2>2. /\ r.status = e.status /\ SameTerms(e, r) /\ r.version = e.version + 1
        /\ DOMAIN r.changes = DOMAIN e.changes
        /\ r.changes[i] = [e.changes[i] EXCEPT !.status = "APPROVED"]
        /\ \A j \in DOMAIN e.changes \ {i} : r.changes[j] = e.changes[j]
        /\ r.from = e.changes[i].from /\ r.to = e.changes[i].to
        BY <1>3, <2>1, ApprovedFields
  <2>3. /\ i \in DOMAIN e.changes
        /\ r.changes[i].status = "APPROVED"
        /\ r.changes[i].from = e.changes[i].from /\ r.changes[i].to = e.changes[i].to
    <3>1. i \in DOMAIN e.changes /\ e.changes[i] \in ChangeType /\ "APPROVED" \in ChangeStatus
          BY <1>2, <2>1, PlaceTypes DEF PendingChanges, ChangeStatus
    <3> QED
        BY <2>2, <3>1, ChangeGets
  <2>4. e.version < r.version /\ r.status # "NONE"
        BY <1>2, <2>2, NumberTypes
  <2>5. \A j \in DOMAIN e.changes \ PendingChanges(e) : r.changes[j] = e.changes[j]
        BY <2>1, <2>2
  <2>6. Keeps(e, r)
        BY <2>1, <2>2, <2>3, <2>4, <2>5 DEF Keeps
  <2> QED
      BY <1>1, <1>2, <2>2, <2>6, KeepsTwice
<1>11. ASSUME NEW i \in Nat, Decidable(q, i), r = Decided(e, i, "REJECTED")
       PROVE  Keeps(q, r)
  <2>1. i \in PendingChanges(e) /\ e.status # "NONE"
        BY <1>2, <1>4, <1>11 DEF Decidable
  <2>2. Keeps(e, r) /\ r.version = e.version + 1
        BY <1>2, <1>11, <2>1, RejectedFields
  <2> QED
      BY <1>1, <1>2, <2>2, KeepsTwice
<1> QED
    BY <1>4, <1>5, <1>6, <1>7, <1>8, <1>9, <1>10, <1>11 DEF RowUpdate

\* An update makes no booking, and a booking that was made is only updated.
LEMMA StepUpdates ==
    ASSUME NEW q, NEW r, RowOK(q)
    PROVE  /\ q.status = "NONE" /\ RowUpdate(q, r) => r = q
           /\ q.status # "NONE" /\ RowStep(q, r) => Keeps(q, r)
<1>1. ASSUME q.status = "NONE", RowUpdate(q, r)
      PROVE  r = q
  <2>1. q.changes = <<>>
        BY <1>1 DEF RowOK, ShapeOK, NoBooking
  <2>2. \A i : i \notin DOMAIN <<>>
        OBVIOUS
  <2>3. ExpireChanges(q) = q
        BY <2>1, <2>2 DEF ExpireChanges
  <2>4. ~Active(q)
        BY <1>1 DEF Active
  <2> QED
      BY <1>1, <2>3, <2>4 DEF RowUpdate, Takes, Approvable, Decidable
<1>2. ASSUME q.status # "NONE", RowStep(q, r)
      PROVE  Keeps(q, r)
      BY <1>2, UpdateKeeps DEF RowStep
<1> QED
    BY <1>1, <1>2

-----------------------------------------------------------------------------
(* Bookings in order.                                                       *)

LEMMA NextMoves ==
    ASSUME TypeOK, AllRowsOK, [Next]_vars
    PROVE  Moves /\ RestTyped
<1>1. ASSUME NEW b \in Booking, NEW r \in Resident, NEW key \in Key \cup {NoKey},
             NEW w \in Window, NEW n \in Attendees, Book(b, r, key, w, n, Price)
      PROVE  Moves /\ RestTyped
      BY <1>1, BookMoves
<1>2. ASSUME NEW b \in Booking, AnyChange(b, booking[b].version)
      PROVE  Moves /\ RestTyped
  <2>1. PICK key \in Key, kind \in Kinds, w \in Window :
            RequestChange(b, booking[b].version, key, kind, w)
        BY <1>2 DEF AnyChange, Kinds
  <2> QED
      BY <2>1, RequestMoves DEF Updates, Moves, RowStep
<1>3. ASSUME NEW b \in Booking, NEW i \in 1..MaxChanges, ApproveChange(b, i)
      PROVE  Moves /\ RestTyped
  <2>1. i \in Nat
        BY AmenityAssumption
  <2> QED
      BY <1>3, <2>1, ApproveChangeMoves DEF Updates, Moves, RowStep
<1> QED
    BY <1>1, <1>2, <1>3, OtherMoves DEF Next, Updates, Moves, RowStep

RowsInv == TypeOK /\ AllRowsOK

LEMMA BlankRow == RowOK(NoBooking)
<1>1. /\ NoBooking.status = "NONE" /\ NoBooking.changes = <<>> /\ NoBooking.charges = <<>>
      /\ NoBooking.from = 0 /\ NoBooking.to = 0 /\ NoBooking.originalDuration = 0
      /\ NoBooking.payment = "NOT_REQUIRED"
      BY DEF NoBooking
<1>2. (\A i : i \notin DOMAIN <<>>) /\ Len(<<>>) = 0 /\ Cardinality({}) = 0
      BY FS_EmptySet
<1> DEFINE q == NoBooking
<1> HIDE DEF q
<1>3. PendingChanges(q) = {} /\ Extensions(q) = {} /\ Owed(q) = {}
      BY <1>1, <1>2 DEF q, PendingChanges, Extensions, Owed
<1>4. Minutes(q) = 0
      BY <1>3, SumOfNone DEF Minutes
<1>5. ShapeOK(q) /\ PricesOK(q) /\ ChargesOK(q) /\ OwedOK(q)
      BY <1>1, <1>2, <1>3, <1>4 DEF q, ShapeOK, PricesOK, ChargesOK, OwedOK, Active
<1> QED
    BY <1>5, BlankType DEF q, RowOK

LEMMA RowsInit == Init => RowsInv
<1> SUFFICES ASSUME Init PROVE RowsInv
    OBVIOUS
<1>1. TypeOK
  <2>1. [status |-> "NONE", from |-> 0, to |-> 0] \in BlockType
        BY DEF BlockType
  <2> QED
      BY <2>1, BlankType DEF Init, TypeOK
<1>2. AllRowsOK
      BY BlankRow DEF Init, AllRowsOK
<1> QED
    BY <1>1, <1>2 DEF RowsInv

LEMMA RowsStep == RowsInv /\ [Next]_vars => RowsInv'
<1> SUFFICES ASSUME RowsInv, [Next]_vars PROVE RowsInv'
    OBVIOUS
<1>1. TypeOK /\ AllRowsOK
      BY DEF RowsInv
<1>2. Moves /\ RestTyped
      BY <1>1, NextMoves
<1>3. \A b \in Booking : RowOK(booking'[b])
      BY <1>1, <1>2, RowStepKeeps DEF AllRowsOK, Moves
<1>4. booking' \in [Booking -> BookingType]
      BY <1>2, <1>3 DEF Moves, RowOK
<1>5. TypeOK'
      BY <1>2, <1>4 DEF TypeOK, RestTyped
<1>6. AllRowsOK'
  <2>1. \A b \in Booking : RowOK(booking[b])'
        BY <1>3 DEF RowOK, ShapeOK, PricesOK, ChargesOK, OwedOK, Active, Owed, Extensions, PendingChanges,
                    Minutes, MinutesOf
  <2> QED
      BY <2>1 DEF AllRowsOK
<1> QED
    BY <1>5, <1>6 DEF RowsInv

\* The configuration, the bookings, the blocks and the answered keys are always of the
\* declared kinds.
THEOREM TypeCorrect == Spec => []TypeOK
<1>1. RowsInv => TypeOK
      BY DEF RowsInv
<1> QED
    BY <1>1, RowsInit, RowsStep, PTL DEF Spec

LEMMA RowsAlways == Spec => []RowsInv
BY RowsInit, RowsStep, PTL DEF Spec

LEMMA RowOwes ==
    ASSUME NEW q, RowOK(q), NEW c \in DOMAIN q.charges
    PROVE  LET exact == q.fee * q.changes[q.charges[c].change].minutes
               charged == q.charges[c].amount * q.originalDuration
           IN /\ 2 * (charged - exact) <= q.originalDuration
              /\ 2 * (exact - charged) < q.originalDuration
<1> DEFINE k == q.charges[c].change
           n == q.changes[k].minutes
           a == q.charges[c].amount
<1>1. q \in BookingType
      BY DEF RowOK
<1>2. q.status # "NONE"
  <2>1. q = NoBooking => q.charges = <<>>
        BY DEF NoBooking
  <2>2. \A i : i \notin DOMAIN <<>>
        OBVIOUS
  <2> QED
      BY <2>1, <2>2 DEF RowOK, ShapeOK
<1>3. k \in DOMAIN q.changes /\ q.changes[k].kind = "EXTEND" /\ a = q.changes[k].fee
      BY DEF RowOK, ChargesOK, Extensions
<1>4. a = ExtensionFee(q.fee, q.originalDuration, n)
      BY <1>3 DEF RowOK, PricesOK
<1>5. q.fee \in Nat /\ q.originalDuration \in Nat \ {0} /\ n \in Nat
  <2>1. q.changes[k] \in ChangeType
        BY <1>1, <1>3, PlaceTypes
  <2>2. n \in Nat
        BY <2>1 DEF ChangeType
  <2> QED
      BY <1>1, <1>2, <2>2, NumberTypes DEF RowOK, ShapeOK
<1> HIDE DEF n, a
<1>6. /\ 2 * (a * q.originalDuration - q.fee * n) <= q.originalDuration
      /\ 2 * (q.fee * n - a * q.originalDuration) < q.originalDuration
      BY <1>4, <1>5, FeeIsProportional
<1> QED
    BY <1>6 DEF n, a

\* Whatever is edited, extended, expired, cancelled or rejected, and in whatever order the
\* administrator decides: a booking is never longer than what is charged for it, each
\* approved extension has exactly one charge, at the original rate, an active booking is
\* unpaid exactly when something is owed and nothing is owed afterwards.
THEOREM OwedAsReserved == Spec => []OwedForTimeHeld
<1>1. RowsInv => OwedForTimeHeld
  <2> SUFFICES ASSUME AllRowsOK PROVE OwedForTimeHeld
      BY DEF RowsInv
  <2>1. TimeIsCharged
    <3>1. ASSUME NEW b \in Booking
          PROVE  LET q == booking[b] IN
                 /\ q.to - q.from <= q.originalDuration + Minutes(q)
                 /\ Extensions(q) = {q.charges[c].change : c \in DOMAIN q.charges}
                 /\ Cardinality(Extensions(q)) = Len(q.charges)
                 /\ \A c \in DOMAIN q.charges :
                       LET exact == q.fee * q.changes[q.charges[c].change].minutes
                           charged == q.charges[c].amount * q.originalDuration
                       IN /\ 2 * (charged - exact) <= q.originalDuration
                          /\ 2 * (exact - charged) < q.originalDuration
      <4>1. RowOK(booking[b])
            BY DEF AllRowsOK
      <4>2. ChargesOK(booking[b])
            BY <4>1 DEF RowOK
      <4> QED
          BY <4>1, <4>2, RowOwes DEF ChargesOK
    <3> QED
        BY <3>1, Zenon DEF TimeIsCharged, Minutes, MinutesOf, Extensions
  <2>2. NothingOwedAfterwards
        BY DEF AllRowsOK, RowOK, OwedOK, Owed, NothingOwedAfterwards
  <2> QED
      BY <2>1, <2>2 DEF OwedForTimeHeld
<1> QED
    BY <1>1, RowsAlways, PTL

\* A booking keeps its window until one of its changes is approved, then has the window of
\* that change, and a decided change is never decided again.
THEOREM OnlyApprovalMoves == Spec => OnlyApprovedChangesMove
<1> DEFINE Moved(q, r) ==
               LET approved == {i \in DOMAIN r.changes : r.changes[i].status = "APPROVED"}
                   before == {i \in DOMAIN q.changes : q.changes[i].status = "APPROVED"}
               IN q.status # "NONE" =>
                     /\ Span(r) # Span(q) => \E i \in approved \ before : Span(r.changes[i]) = Span(r)
                     /\ \A i \in DOMAIN q.changes \ PendingChanges(q) : r.changes[i] = q.changes[i]
<1>1. ASSUME NEW q, NEW r, RowOK(q), RowStep(q, r)
      PROVE  Moved(q, r)
  <2>1. CASE q.status = "NONE"
        BY <2>1
  <2>2. CASE q.status # "NONE"
    <3>1. Keeps(q, r)
          BY <1>1, <2>2, StepUpdates
    <3> QED
        BY <3>1 DEF Keeps, Span, SameWindow, PendingChanges
  <2> QED
      BY <2>1, <2>2
<1>2. RowsInv /\ [Next]_vars => [\A b \in Booking : Moved(booking[b], booking'[b])]_vars
  <2> SUFFICES ASSUME RowsInv, [Next]_vars, NEW b \in Booking
               PROVE  Moved(booking[b], booking'[b])
      OBVIOUS
  <2>1. Moves /\ RowOK(booking[b])
        BY NextMoves DEF RowsInv, AllRowsOK
  <2> HIDE DEF Moved
  <2> QED
      BY <1>1, <2>1 DEF Moves
<1>3. [][\A b \in Booking : Moved(booking[b], booking'[b])]_vars => OnlyApprovedChangesMove
      BY DEF OnlyApprovedChangesMove
<1> QED
    BY <1>2, <1>3, RowsAlways, PTL DEF Spec

-----------------------------------------------------------------------------
(* One booking for one key.                                                 *)

\* Only an answered creation request makes a booking.
LEMMA NextUpdates ==
    ASSUME TypeOK, AllRowsOK, [Next]_vars,
           ~\E b \in Booking, r \in Resident, key \in Key \cup {NoKey}, w \in Window, n \in Attendees :
               Book(b, r, key, w, n, Price)
    PROVE  Updates /\ UNCHANGED creationRetries
<1>1. ASSUME NEW b \in Booking, AnyChange(b, booking[b].version)
      PROVE  Updates /\ UNCHANGED creationRetries
  <2>1. PICK key \in Key, kind \in Kinds, w \in Window :
            RequestChange(b, booking[b].version, key, kind, w)
        BY <1>1 DEF AnyChange, Kinds
  <2>2. UNCHANGED creationRetries
        BY <2>1 DEF RequestChange
  <2> QED
      BY <2>1, <2>2, RequestMoves
<1>2. ASSUME NEW b \in Booking, NEW i \in 1..MaxChanges, ApproveChange(b, i)
      PROVE  Updates /\ UNCHANGED creationRetries
  <2>1. i \in Nat
        BY AmenityAssumption
  <2> QED
      BY <1>2, <2>1, ApproveChangeMoves DEF ApproveChange
<1>3. ASSUME \/ \E b \in Booking : Cancel(b) \/ Approve(b) \/ Reject(b)
             \/ \E b \in Booking : \E i \in 1..MaxChanges : RejectChange(b, i)
             \/ \E c \in Config : Update(c)
             \/ \E k \in Block : ReleaseBlock(k) \/ \E w \in BlockWindow : AddBlock(k, w)
             \/ \E read \in SUBSET Booking : Access(read)
             \/ Tick \/ UNCHANGED vars
      PROVE  Updates /\ UNCHANGED creationRetries
  <2>1. Updates
        BY <1>3, OtherMoves
  <2>2. UNCHANGED creationRetries
        BY <1>3 DEF Cancel, Approve, Reject, RejectChange, Update, ReleaseBlock, AddBlock, Access, Tick, vars
  <2> QED
      BY <2>1, <2>2
<1> QED
    BY <1>1, <1>2, <1>3 DEF Next

KeysInv == RowsInv /\ KeysAgree

LEMMA KeysInit == Init => KeysInv
<1>1. Init => KeysAgree
      BY DEF Init, KeysAgree, NoBooking
<1> QED
    BY <1>1, RowsInit DEF KeysInv

LEMMA KeysStep == KeysInv /\ [Next]_vars => KeysInv'
<1> SUFFICES ASSUME KeysInv, [Next]_vars PROVE KeysInv'
    OBVIOUS
<1>1. TypeOK /\ AllRowsOK /\ KeysAgree
      BY DEF KeysInv, RowsInv
<1>2. RowsInv'
      BY RowsStep DEF KeysInv
<1>3. creationRetries \subseteq RetryType
      BY <1>1 DEF TypeOK
<1>4. ASSUME NEW b \in Booking, NEW r \in Resident, NEW key \in Key \cup {NoKey},
             NEW w \in Window, NEW n \in Attendees, Book(b, r, key, w, n, Price)
      PROVE  KeysAgree'
  <2>1. /\ booking'[b] = NewBooking(r, key, w, n)
        /\ \A o \in Booking \ {b} : RowUpdate(booking[o], booking'[o])
        BY <1>1, <1>4, BookMoves
  <2>2. booking'[b].status # "NONE" /\ booking'[b].resident = r /\ booking'[b].key = key
        BY <1>1, <2>1, NewBookingFields
  <2>3. /\ booking[b].status = "NONE" /\ ~Answered(r, key)
        /\ creationRetries' = IF key = NoKey THEN creationRetries
                              ELSE creationRetries \cup {[resident |-> r, key |-> key, id |-> b]}
        BY <1>4 DEF Book
  <2>4. \A o \in Booking \ {b} :
            /\ booking[o].status # "NONE" => booking'[o].status # "NONE"
            /\ booking'[o].key = booking[o].key /\ booking'[o].resident = booking[o].resident
        BY <1>1, <2>1, StepUpdates DEF AllRowsOK, Keeps, SameTerms, RowStep
  <2> DEFINE new == [resident |-> r, key |-> key, id |-> b]
  <2>5. new.resident = r /\ new.key = key /\ new.id = b
        OBVIOUS
  <2>6. creationRetries' = IF key = NoKey THEN creationRetries ELSE creationRetries \cup {new}
        BY <2>3
  <2> HIDE DEF new
  <2>7. \A p \in creationRetries : p.id \in Booking /\ p.id # b
        BY <1>1, <1>3, <2>3 DEF KeysAgree, RetryType
  <2>8. \A p \in creationRetries' :
            booking'[p.id].status # "NONE" /\ booking'[p.id].key = p.key
                                           /\ booking'[p.id].resident = p.resident
        BY <1>1, <2>2, <2>4, <2>5, <2>6, <2>7 DEF KeysAgree
  <2>9. \A p, e \in creationRetries' : p.resident = e.resident /\ p.key = e.key => p = e
        BY <1>1, <2>3, <2>5, <2>6 DEF KeysAgree, Answered
  <2>10. \A o \in Booking : booking'[o].key # NoKey =>
             [resident |-> booking'[o].resident, key |-> booking'[o].key, id |-> o] \in creationRetries'
         BY <1>1, <2>2, <2>3, <2>4 DEF KeysAgree
  <2> QED
      BY <2>8, <2>9, <2>10 DEF KeysAgree
<1>5. ASSUME Updates, UNCHANGED creationRetries
      PROVE  KeysAgree'
  <2>1. \A o \in Booking :
            /\ booking[o].status # "NONE" => booking'[o].status # "NONE"
            /\ booking'[o].key = booking[o].key /\ booking'[o].resident = booking[o].resident
        BY <1>1, <1>5, StepUpdates DEF Updates, AllRowsOK, Keeps, SameTerms, RowStep
  <2>2. \A p \in creationRetries : p.id \in Booking
        BY <1>3 DEF RetryType
  <2> QED
      BY <1>1, <1>5, <2>1, <2>2 DEF KeysAgree
<1>6. KeysAgree'
      BY <1>1, <1>4, <1>5, NextUpdates
<1> QED
    BY <1>2, <1>6 DEF KeysInv

\* Each key a resident booked with stands for exactly one booking, for good: no repeated
\* or late creation request makes a second one.
THEOREM OneBookingPerKey == Spec => []CreatedOnce
<1>1. KeysInv => CreatedOnce
  <2> SUFFICES ASSUME KeysInv, NEW b \in Booking, booking[b].key # NoKey
               PROVE  {p.id : p \in {e \in creationRetries :
                          e.resident = booking[b].resident /\ e.key = booking[b].key}} = {b}
      BY DEF CreatedOnce
  <2> DEFINE own == [resident |-> booking[b].resident, key |-> booking[b].key, id |-> b]
  <2>1. own \in creationRetries /\ own.resident = booking[b].resident /\ own.key = booking[b].key
        /\ own.id = b
        BY DEF KeysInv, KeysAgree
  <2>2. \A p \in creationRetries : p.resident = own.resident /\ p.key = own.key => p = own
        BY <2>1 DEF KeysInv, KeysAgree
  <2> HIDE DEF own
  <2> QED
      BY <2>1, <2>2
<1> QED
    BY <1>1, KeysInit, KeysStep, PTL DEF Spec

-----------------------------------------------------------------------------
(* The rules, for bookings B under configuration c at time t.               *)

LEMMA HeldTypes ==
    ASSUME NEW q \in BookingType, NEW c, NEW t, NEW h \in HeldAt(q, c, t)
    PROVE  h.from \in Nat /\ h.to \in Nat /\ h = [from |-> h.from, to |-> h.to]
<1>1. CASE h = Span(q)
      BY <1>1, NumberTypes DEF Span
<1>2. ASSUME NEW i \in PendingChanges(q), h = Span(q.changes[i])
      PROVE  h.from \in Nat /\ h.to \in Nat /\ h = [from |-> h.from, to |-> h.to]
  <2>1. q.changes[i] \in ChangeType
        BY PlaceTypes DEF PendingChanges
  <2>2. q.changes[i].from \in Nat /\ q.changes[i].to \in Nat
        BY <2>1 DEF ChangeType
  <2> QED
      BY <1>2, <2>2 DEF Span
<1> QED
    BY <1>1, <1>2 DEF HeldAt

\* What is read of a booking is what it holds now.
LEMMA HeldIsRead ==
    ASSUME NEW q \in BookingType
    PROVE  HeldIntervals(ExpireChanges(q)) = HeldAt(q, config, now)
<1> DEFINE e == ExpireChanges(q)
<1>1. /\ SameWindow(q, e)
      /\ PendingChanges(e) = {i \in PendingChanges(q) : ~OverdueAt(q, i, config, now)}
      /\ \A i \in PendingChanges(e) : e.changes[i] = q.changes[i]
      BY ReadFields
<1>2. e = ExpireChanges(q)
      OBVIOUS
<1> HIDE DEF e
<1>3. Span(e) = Span(q)
      BY <1>1 DEF Span, SameWindow
<1>4. HeldIntervals(e) = {Span(q)} \cup {Span(q.changes[i]) : i \in PendingChanges(e)}
      BY <1>1, <1>3 DEF HeldIntervals
<1> QED
    BY <1>1, <1>2, <1>4 DEF HeldAt

LEMMA HeldIsRefreshed ==
    ASSUME TypeOK, NEW o \in Booking, Active(booking[o])
    PROVE  HeldIntervals(Refreshed(o)) = HeldAt(booking[o], config, now)
BY HeldIsRead DEF Refreshed, TypeOK

LEMMA FitsIsNoOverbooking ==
    ASSUME TypeOK, FitsAt(booking, config, now, block)
    PROVE  NoOverbooking
<1>1. HoldsApart
      BY HeldIsRefreshed DEF FitsAt, ApartAt, HoldsApart, Upcoming, Apart
<1>2. WithinCapacity
  <2> SUFFICES ASSUME NEW u \in Slot, now <= u
               PROVE  Occupied({o \in Booking :
                          /\ Active(booking[o])
                          /\ \E h \in HeldIntervals(Refreshed(o)) : h.from <= u /\ u < h.to}) <= config.capacity
      BY DEF WithinCapacity, Slot
  <2>1. \A o \in Booking :
            (Active(booking[o]) /\ \E h \in HeldIntervals(Refreshed(o)) : h.from <= u /\ u < h.to)
                <=> Covers(booking[o], config, now, u)
        BY HeldIsRefreshed DEF Covers
  <2>2. SumFunctionOnSet(Heads(booking), {o \in Booking : Covers(booking[o], config, now, u)})
            <= config.capacity
        BY DEF FitsAt, CapacityAt
  <2>3. {o \in Booking : /\ Active(booking[o])
                         /\ \E h \in HeldIntervals(Refreshed(o)) : h.from <= u /\ u < h.to}
            = {o \in Booking : Covers(booking[o], config, now, u)}
        BY <2>1
  <2> QED
      BY <2>2, <2>3 DEF Occupied, Heads
<1>3. LimitRespected
  <2>1. \A r \in Resident :
            {o \in Booking : booking[o].resident = r /\ Upcoming(booking[o])} = UpcomingOf(booking, r, now)
        BY DEF UpcomingOf, Upcoming
  <2> QED
      BY <2>1 DEF FitsAt, LimitAt, LimitRespected
<1>4. ClosedForMaintenance
      BY HeldIsRefreshed DEF FitsAt, ClosedAt, ClosedForMaintenance, Upcoming, Apart
<1> QED
    BY <1>1, <1>2, <1>3, <1>4 DEF NoOverbooking

LEMMA HeadsCount ==
    ASSUME NEW B \in [Booking -> BookingType], NEW S \in SUBSET MadeIn(B), IsFiniteSet(MadeIn(B))
    PROVE  IsFiniteSet(S) /\ Counts(Heads(B), S)
<1>1. \A o \in S : Heads(B)[o] \in Nat
      BY NumberTypes DEF Heads, MadeIn
<1> QED
    BY <1>1, FS_Subset DEF Counts

LEMMA ActiveIsMade ==
    ASSUME NEW B, NEW o \in Booking, Active(B[o])
    PROVE  o \in MadeIn(B)
BY DEF Active, MadeIn

\* Booking r, at time u, holds no more than booking q at time t.
Narrows(q, r, c, t, u) ==
    Active(r) =>
        /\ Active(q) /\ r.attendees = q.attendees /\ r.resident = q.resident
        /\ r.to > u => q.to > t
        /\ HeldAt(r, c, u) \subseteq HeldAt(q, c, t)

\* The rules stay kept while nobody takes more, as time passes and blocks are released.
LEMMA NarrowFits ==
    ASSUME NEW B \in [Booking -> BookingType], NEW D \in [Booking -> BookingType],
           NEW c, NEW t \in Nat, NEW u \in Nat, t <= u, NEW K, NEW L,
           c.capacity \in Nat, c.maxActive \in Nat,
           FitsAt(B, c, t, K),
           \A o \in Booking : Narrows(B[o], D[o], c, t, u),
           \A k \in Block : L[k].status = "BLOCKED" => L[k] = K[k],
           MadeIn(D) \subseteq MadeIn(B)
    PROVE  FitsAt(D, c, u, L)
<1>1. ApartAt(D, c, u)
      BY DEF FitsAt, ApartAt, Narrows
<1>2. CapacityAt(D, c, u)
  <2> SUFFICES ASSUME NEW s \in Slot, u <= s
               PROVE  SumFunctionOnSet(Heads(D), {o \in Booking : Covers(D[o], c, u, s)}) <= c.capacity
      BY DEF CapacityAt
  <2> DEFINE S == {o \in Booking : Covers(B[o], c, t, s)}
             T == {o \in Booking : Covers(D[o], c, u, s)}
  <2>1. t <= s /\ s \in Int
    <3>1. s \in Int
          BY AmenityAssumption DEF Slot
    <3> QED
        BY <3>1
  <2>2. SumFunctionOnSet(Heads(B), S) <= c.capacity
        BY <2>1 DEF FitsAt, CapacityAt
  <2>3. T \subseteq S /\ \A o \in T : Heads(D)[o] = Heads(B)[o]
        BY DEF Narrows, Covers, Heads
  <2>4. S \subseteq MadeIn(B)
        BY ActiveIsMade DEF Covers
  <2> HIDE DEF S, T
  <2>5. IsFiniteSet(S) /\ Counts(Heads(B), S) /\ IsFiniteSet(T) /\ Counts(Heads(B), T)
        BY <2>3, <2>4, HeadsCount DEF FitsAt
  <2>6. SumFunctionOnSet(Heads(D), T) = SumFunctionOnSet(Heads(B), T)
        BY <2>3, <2>5, SumOfSame
  <2>7. SumFunctionOnSet(Heads(B), T) <= SumFunctionOnSet(Heads(B), S)
        BY <2>3, <2>5, SumOfSubset
  <2>8. SumFunctionOnSet(Heads(B), T) \in Nat /\ SumFunctionOnSet(Heads(B), S) \in Nat
        BY <2>5, SumIsNat
  <2>9. SumFunctionOnSet(Heads(D), T) <= c.capacity
        BY <2>2, <2>6, <2>7, <2>8
  <2> QED
      BY <2>9 DEF T
<1>3. LimitAt(D, c, u)
  <2> SUFFICES ASSUME NEW r \in Resident
               PROVE  Cardinality(UpcomingOf(D, r, u)) <= c.maxActive
      BY DEF LimitAt
  <2>1. UpcomingOf(D, r, u) \subseteq UpcomingOf(B, r, t)
        BY DEF UpcomingOf, Narrows
  <2>2. IsFiniteSet(UpcomingOf(B, r, t))
    <3>1. UpcomingOf(B, r, t) \subseteq MadeIn(B)
          BY ActiveIsMade DEF UpcomingOf
    <3> QED
        BY <3>1, FS_Subset DEF FitsAt
  <2>3. /\ Cardinality(UpcomingOf(D, r, u)) <= Cardinality(UpcomingOf(B, r, t))
        /\ Cardinality(UpcomingOf(B, r, t)) \in Nat
        /\ Cardinality(UpcomingOf(D, r, u)) \in Nat
        BY <2>1, <2>2, FS_Subset, FS_CardinalityType
  <2>4. Cardinality(UpcomingOf(B, r, t)) <= c.maxActive
        BY DEF FitsAt, LimitAt
  <2> QED
      BY <2>3, <2>4
<1>4. ClosedAt(D, c, u, L)
      BY DEF FitsAt, ClosedAt, Narrows
<1>5. ConfiguredAt(D, c, u)
      BY DEF FitsAt, ConfiguredAt, Narrows
<1>6. IsFiniteSet(MadeIn(D))
      BY FS_Subset DEF FitsAt
<1> QED
    BY <1>1, <1>2, <1>3, <1>4, <1>5, <1>6 DEF FitsAt

LEMMA OverlapIsMutual ==
    \A a, b, x : BufferedOverlap(a, b, x) <=> BufferedOverlap(b, a, x)
BY DEF BufferedOverlap

\* The other bookings that are used, with the buffer, in interval s.
OthersIn(B, b, c, t, s) ==
    {o \in Booking \ {b} :
        /\ Active(B[o])
        /\ \E h \in HeldAt(B[o], c, t) : BufferedOverlap(h, [from |-> s, to |-> s + 1], c.turnaround)}

\* Window w is free for booking b of resident r with n attendees.
FreeAt(B, b, w, n, r, c, t, K) ==
    /\ c.open /\ n <= c.capacity /\ w \in c.hours
    /\ w.to - w.from \in c.minDuration .. c.maxDuration
    /\ \A k \in Block : K[k].status = "BLOCKED" => ~BufferedOverlap(K[k], w, c.turnaround)
    /\ c.exclusive =>
          \A o \in Booking \ {b} :
              Active(B[o]) => \A h \in HeldAt(B[o], c, t) : ~BufferedOverlap(h, w, c.turnaround)
    /\ \A s \in w.from .. w.to - 1 : n + SumFunctionOnSet(Heads(B), OthersIn(B, b, c, t, s)) <= c.capacity
    /\ Cardinality(UpcomingOf(B, r, t) \ {b}) < c.maxActive

\* After that booking b holds window w too, if it was upcoming, or holds only w.
Widens(q, r, w, c, t) ==
    /\ Active(q) => q.to > t /\ r.attendees = q.attendees /\ r.resident = q.resident
    /\ HeldAt(r, c, t) \subseteq {w} \cup (IF Active(q) THEN HeldAt(q, c, t) ELSE {})

\* The rules stay kept when a free window is taken.
LEMMA WidenFits ==
    ASSUME NEW B \in [Booking -> BookingType], NEW D \in [Booking -> BookingType],
           NEW c, NEW t \in Nat, NEW K, NEW b \in Booking, NEW w \in Window, NEW n \in Nat, NEW r,
           c.capacity \in Nat, c.maxActive \in Nat, c.turnaround \in Nat,
           FitsAt(B, c, t, K), FreeAt(B, b, w, n, r, c, t, K),
           \A o \in Booking \ {b} : Narrows(B[o], D[o], c, t, t),
           D[b].attendees = n, D[b].resident = r, Active(D[b]), Widens(B[b], D[b], w, c, t),
           MadeIn(D) \subseteq MadeIn(B) \cup {b}
    PROVE  FitsAt(D, c, t, K)
<1>1. IsFiniteSet(MadeIn(B)) /\ IsFiniteSet(MadeIn(D))
  <2>1. IsFiniteSet(MadeIn(B) \cup {b})
        BY FS_AddElement DEF FitsAt
  <2> QED
      BY <2>1, FS_Subset DEF FitsAt
<1>2. ApartAt(D, c, t)
  <2> SUFFICES ASSUME c.exclusive, NEW o \in Booking, NEW p \in Booking, o # p,
                      Active(D[o]), Active(D[p]), D[p].to > t,
                      NEW h \in HeldAt(D[o], c, t), NEW g \in HeldAt(D[p], c, t)
               PROVE  ~BufferedOverlap(h, g, c.turnaround)
      BY DEF ApartAt
  <2>1. CASE o # b /\ p # b
        BY <2>1 DEF FitsAt, ApartAt, Narrows
  <2>2. CASE o = b
    <3>1. Active(B[p]) /\ B[p].to > t /\ g \in HeldAt(B[p], c, t)
          BY <2>2 DEF Narrows
    <3>2. CASE h = w
          BY <2>2, <3>1, <3>2, OverlapIsMutual DEF FreeAt
    <3>3. CASE h # w
      <4>1. Active(B[b]) /\ h \in HeldAt(B[b], c, t)
            BY <2>2, <3>3 DEF Widens
      <4> QED
          BY <2>2, <3>1, <4>1 DEF FitsAt, ApartAt
    <3> QED
        BY <3>2, <3>3
  <2>3. CASE p = b
    <3>1. Active(B[o]) /\ h \in HeldAt(B[o], c, t)
          BY <2>3 DEF Narrows
    <3>2. CASE g = w
          BY <2>3, <3>1, <3>2 DEF FreeAt
    <3>3. CASE g # w
      <4>1. Active(B[b]) /\ g \in HeldAt(B[b], c, t) /\ B[b].to > t
            BY <2>3, <3>3 DEF Widens
      <4> QED
          BY <2>3, <3>1, <4>1 DEF FitsAt, ApartAt
    <3> QED
        BY <3>2, <3>3
  <2> QED
      BY <2>1, <2>2, <2>3
<1>3. CapacityAt(D, c, t)
  <2> SUFFICES ASSUME NEW s \in Slot, t <= s
               PROVE  SumFunctionOnSet(Heads(D), {o \in Booking : Covers(D[o], c, t, s)}) <= c.capacity
      BY DEF CapacityAt
  <2> DEFINE S == {o \in Booking : Covers(B[o], c, t, s)}
             T == {o \in Booking : Covers(D[o], c, t, s)}
             O == OthersIn(B, b, c, t, s)
  <2>1. s \in Int
        BY AmenityAssumption DEF Slot
  <2>2. SumFunctionOnSet(Heads(B), S) <= c.capacity
        BY DEF FitsAt, CapacityAt
  <2>3. /\ T \ {b} \subseteq S
        /\ \A o \in T \ {b} : Heads(D)[o] = Heads(B)[o]
        /\ Heads(D)[b] = n
        BY DEF Narrows, Covers, Heads
  <2>4. S \subseteq MadeIn(B) /\ T \subseteq MadeIn(D) /\ O \subseteq MadeIn(B)
        BY ActiveIsMade DEF Covers, OthersIn
  <2>5. /\ IsFiniteSet(S) /\ Counts(Heads(B), S)
        /\ IsFiniteSet(O) /\ Counts(Heads(B), O)
        /\ IsFiniteSet(T) /\ Counts(Heads(D), T)
    <3> HIDE DEF S, T, O
    <3> QED
        BY <1>1, <2>4, HeadsCount
  <2>6. CASE b \notin T \/ b \in S
    <3>1. T \subseteq S
          BY <2>3, <2>6
    <3>2. \A o \in T : Heads(D)[o] = Heads(B)[o]
      <4>1. b \in S => Heads(D)[b] = Heads(B)[b]
            BY DEF Widens, Covers, Heads
      <4> QED
          BY <2>3, <2>6, <4>1
    <3> HIDE DEF S, T
    <3>3. SumFunctionOnSet(Heads(D), T) = SumFunctionOnSet(Heads(B), T)
      <4>1. Counts(Heads(B), T)
            BY <2>5, <3>1 DEF Counts
      <4> QED
          BY <2>5, <3>2, <4>1, SumOfSame
    <3>4. SumFunctionOnSet(Heads(B), T) <= SumFunctionOnSet(Heads(B), S)
          BY <2>5, <3>1, SumOfSubset
    <3>5. SumFunctionOnSet(Heads(D), T) \in Nat /\ SumFunctionOnSet(Heads(B), S) \in Nat
          BY <2>5, SumIsNat
    <3>6. SumFunctionOnSet(Heads(D), T) <= c.capacity
          BY <2>2, <3>3, <3>4, <3>5
    <3> QED
        BY <3>6 DEF T
  <2>7. CASE b \in T /\ b \notin S
    <3>1. w.from <= s /\ s < w.to
      <4>1. PICK h \in HeldAt(D[b], c, t) : h.from <= s /\ s < h.to
            BY <2>7 DEF Covers
      <4>2. ~(Active(B[b]) /\ h \in HeldAt(B[b], c, t))
            BY <2>7, <4>1 DEF Covers
      <4> QED
          BY <4>1, <4>2 DEF Widens
    <3>2. s \in w.from .. w.to - 1
          BY <2>1, <3>1, WindowTypes
    <3>3. T \ {b} \subseteq O
      <4> SUFFICES ASSUME NEW o \in T \ {b} PROVE o \in O
          OBVIOUS
      <4>1. PICK h \in HeldAt(B[o], c, t) : h.from <= s /\ s < h.to
            BY <2>3 DEF Covers
      <4>2. h.from \in Nat /\ h.to \in Nat
            BY <4>1, HeldTypes
      <4>3. BufferedOverlap(h, [from |-> s, to |-> s + 1], c.turnaround)
            BY <2>1, <4>1, <4>2 DEF BufferedOverlap
      <4>4. Active(B[o])
            BY <2>3 DEF Covers
      <4> QED
          BY <4>1, <4>3, <4>4 DEF OthersIn
    <3>4. n + SumFunctionOnSet(Heads(B), O) <= c.capacity
          BY <3>2 DEF FreeAt
    <3> HIDE DEF S, T, O
    <3>5. /\ Heads(D)[b] = n
          /\ SumFunctionOnSet(Heads(D), T) = n + SumFunctionOnSet(Heads(D), T \ {b})
          /\ IsFiniteSet(T \ {b})
          BY <2>3, <2>5, <2>7, SumOfOneMore
    <3>6. SumFunctionOnSet(Heads(D), T \ {b}) = SumFunctionOnSet(Heads(B), T \ {b})
      <4>1. Counts(Heads(B), T \ {b})
            BY <2>5, <3>3 DEF Counts
      <4> QED
          BY <2>3, <3>5, <4>1, SumOfSame
    <3>7. SumFunctionOnSet(Heads(B), T \ {b}) <= SumFunctionOnSet(Heads(B), O)
          BY <2>5, <3>3, SumOfSubset
    <3>8. SumFunctionOnSet(Heads(B), T \ {b}) \in Nat /\ SumFunctionOnSet(Heads(B), O) \in Nat
      <4>1. Counts(Heads(B), T \ {b})
            BY <2>5, <3>3 DEF Counts
      <4> QED
          BY <2>5, <3>5, <4>1, SumIsNat
    <3>9. SumFunctionOnSet(Heads(D), T) <= c.capacity
          BY <3>4, <3>5, <3>6, <3>7, <3>8
    <3> QED
        BY <3>9 DEF T
  <2> QED
      BY <2>6, <2>7
<1>4. LimitAt(D, c, t)
  <2> SUFFICES ASSUME NEW a \in Resident
               PROVE  Cardinality(UpcomingOf(D, a, t)) <= c.maxActive
      BY DEF LimitAt
  <2>1. UpcomingOf(D, a, t) \ {b} \subseteq UpcomingOf(B, a, t)
        BY DEF UpcomingOf, Narrows
  <2>2. IsFiniteSet(UpcomingOf(B, a, t))
    <3>1. UpcomingOf(B, a, t) \subseteq MadeIn(B)
          BY ActiveIsMade DEF UpcomingOf
    <3> QED
        BY <1>1, <3>1, FS_Subset
  <2>3. CASE a # r
    <3>1. b \notin UpcomingOf(D, a, t)
          BY <2>3 DEF UpcomingOf
    <3>2. UpcomingOf(D, a, t) \subseteq UpcomingOf(B, a, t)
          BY <2>1, <3>1
    <3>3. /\ Cardinality(UpcomingOf(D, a, t)) <= Cardinality(UpcomingOf(B, a, t))
          /\ Cardinality(UpcomingOf(B, a, t)) \in Nat
          /\ Cardinality(UpcomingOf(D, a, t)) \in Nat
          BY <2>2, <3>2, FS_Subset, FS_CardinalityType
    <3>4. Cardinality(UpcomingOf(B, a, t)) <= c.maxActive
          BY DEF FitsAt, LimitAt
    <3> QED
        BY <3>3, <3>4
  <2>4. CASE a = r
    <3> DEFINE S == UpcomingOf(B, a, t) \ {b}
    <3>1. UpcomingOf(D, a, t) \subseteq S \cup {b} /\ IsFiniteSet(S) /\ b \notin S
          BY <2>1, <2>2, FS_Subset
    <3>2. Cardinality(S) < c.maxActive
          BY <2>4 DEF FreeAt
    <3> HIDE DEF S
    <3>3. IsFiniteSet(S \cup {b}) /\ Cardinality(S \cup {b}) = Cardinality(S) + 1 /\ Cardinality(S) \in Nat
          BY <3>1, FS_AddElement, FS_CardinalityType
    <3>4. Cardinality(UpcomingOf(D, a, t)) <= Cardinality(S \cup {b})
          /\ Cardinality(UpcomingOf(D, a, t)) \in Nat
          BY <3>1, <3>3, FS_Subset, FS_CardinalityType
    <3> QED
        BY <3>2, <3>3, <3>4
  <2> QED
      BY <2>3, <2>4
<1>5. ClosedAt(D, c, t, K)
  <2> SUFFICES ASSUME NEW k \in Block, NEW o \in Booking, K[k].status = "BLOCKED",
                      Active(D[o]), D[o].to > t, NEW h \in HeldAt(D[o], c, t)
               PROVE  ~BufferedOverlap(h, K[k], c.turnaround)
      BY DEF ClosedAt
  <2>1. CASE o # b
        BY <2>1 DEF FitsAt, ClosedAt, Narrows
  <2>2. CASE o = b /\ h = w
        BY <2>2, OverlapIsMutual DEF FreeAt
  <2>3. CASE o = b /\ h # w
    <3>1. Active(B[b]) /\ h \in HeldAt(B[b], c, t) /\ B[b].to > t
          BY <2>3 DEF Widens
    <3> QED
        BY <3>1 DEF FitsAt, ClosedAt
  <2> QED
      BY <2>1, <2>2, <2>3
<1>6. ConfiguredAt(D, c, t)
  <2> SUFFICES ASSUME NEW o \in Booking, Active(D[o]), D[o].to > t
               PROVE  /\ c.open /\ D[o].attendees <= c.capacity
                      /\ \A h \in HeldAt(D[o], c, t) :
                            h \in c.hours /\ h.to - h.from \in c.minDuration .. c.maxDuration
      BY DEF ConfiguredAt
  <2>1. CASE o # b
        BY <2>1 DEF FitsAt, ConfiguredAt, Narrows
  <2>2. CASE o = b
    <3>1. c.open /\ D[o].attendees <= c.capacity
          BY <2>2 DEF FreeAt
    <3>2. ASSUME NEW h \in HeldAt(D[b], c, t)
          PROVE  h \in c.hours /\ h.to - h.from \in c.minDuration .. c.maxDuration
      <4>1. CASE h = w
            BY <4>1 DEF FreeAt
      <4>2. CASE h # w
        <5>1. Active(B[b]) /\ h \in HeldAt(B[b], c, t) /\ B[b].to > t
              BY <4>2 DEF Widens
        <5> QED
            BY <5>1 DEF FitsAt, ConfiguredAt
      <4> QED
          BY <4>1, <4>2
    <3> QED
        BY <2>2, <3>1, <3>2
  <2> QED
      BY <2>1, <2>2
<1> QED
    BY <1>1, <1>2, <1>3, <1>4, <1>5, <1>6 DEF FitsAt

\* Bookings that are stored with fewer changes to decide hold no more than before.
LEMMA FewerNarrow ==
    ASSUME NEW q \in BookingType, NEW r, NEW c, c.cutoff \in Nat, NEW t \in Nat, NEW u \in Nat, t <= u,
           Active(r) => Active(q), SameTerms(q, r), SameWindow(q, r),
           PendingChanges(r) \subseteq PendingChanges(q),
           \A i \in PendingChanges(r) : r.changes[i] = q.changes[i]
    PROVE  Narrows(q, r, c, t, u)
<1>1. q.from \in Nat /\ q.to \in Nat
      BY NumberTypes
<1>2. Span(r) = Span(q)
      BY DEF Span, SameWindow
<1>3. \A i \in PendingChanges(r) : OverdueAt(q, i, c, t) => OverdueAt(r, i, c, u)
      BY <1>1 DEF OverdueAt, SameWindow
<1>4. HeldAt(r, c, u) \subseteq HeldAt(q, c, t)
      BY <1>2, <1>3 DEF HeldAt
<1>5. r.to > u => q.to > t
      BY <1>1 DEF SameWindow
<1> QED
    BY <1>4, <1>5 DEF Narrows, SameTerms

LEMMA ReadNarrows ==
    ASSUME TypeOK, NEW q \in BookingType
    PROVE  Narrows(q, ExpireChanges(q), config, now, now) /\ Narrows(q, q, config, now, now)
<1>1. config.cutoff \in Nat /\ now \in Nat /\ now <= now
      BY ConfigTypes
<1> DEFINE e == ExpireChanges(q)
<1>2. /\ e.status = q.status /\ SameTerms(q, e) /\ SameWindow(q, e)
      /\ PendingChanges(e) \subseteq PendingChanges(q)
      /\ \A i \in PendingChanges(e) : e.changes[i] = q.changes[i]
      BY ReadFields
<1> HIDE DEF e
<1>3. Narrows(q, e, config, now, now)
      BY <1>1, <1>2, FewerNarrow DEF Active
<1>4. Narrows(q, q, config, now, now)
      BY DEF Narrows
<1> QED
    BY <1>3, <1>4 DEF e

LEMMA RefreshedNarrows ==
    ASSUME TypeOK, NEW o \in Booking
    PROVE  Narrows(booking[o], Refreshed(o), config, now, now)
BY ReadNarrows DEF Refreshed, TypeOK

LEMMA WithdrawnNarrows ==
    ASSUME NEW q \in BookingType, NEW s \in {"CANCELLED", "REJECTED"}, NEW c, NEW t
    PROVE  Narrows(q, Withdrawn(q, s), c, t, t)
<1>1. Withdrawn(q, s).status = s
      BY WithdrawnFields
<1> QED
    BY <1>1 DEF Narrows, Active

LEMMA GrantedNarrows ==
    ASSUME TypeOK, NEW q \in BookingType, Active(q)
    PROVE  Narrows(q, Granted(q), config, now, now)
<1>1. config.cutoff \in Nat /\ now \in Nat /\ now <= now
      BY ConfigTypes
<1> DEFINE r == Granted(q)
<1>2. SameTerms(q, r) /\ SameWindow(q, r) /\ r.changes = q.changes
      BY GrantedFields
<1> HIDE DEF r
<1>3. PendingChanges(r) = PendingChanges(q)
      BY <1>2 DEF PendingChanges
<1>4. Narrows(q, r, config, now, now)
      BY <1>1, <1>2, <1>3, FewerNarrow
<1> QED
    BY <1>4 DEF r

LEMMA RejectedNarrows ==
    ASSUME TypeOK, NEW q \in BookingType, NEW i \in Nat, Decidable(q, i)
    PROVE  Narrows(q, Decided(ExpireChanges(q), i, "REJECTED"), config, now, now)
<1>1. config.cutoff \in Nat /\ now \in Nat /\ now <= now
      BY ConfigTypes
<1> DEFINE e == ExpireChanges(q)
           r == Decided(e, i, "REJECTED")
<1>2. /\ e \in BookingType /\ e.status = q.status /\ SameTerms(q, e) /\ SameWindow(q, e)
      /\ PendingChanges(e) \subseteq PendingChanges(q)
      /\ \A j \in PendingChanges(e) : e.changes[j] = q.changes[j]
      BY ReadFields
<1>3. Active(e) /\ i \in PendingChanges(e)
      BY DEF Decidable
<1> HIDE DEF e
<1>4. i \in DOMAIN e.changes /\ e.changes[i] \in ChangeType /\ "REJECTED" \in ChangeStatus
      BY <1>2, <1>3, PlaceTypes DEF PendingChanges, ChangeStatus
<1>5. /\ SameTerms(e, r) /\ SameWindow(e, r)
      /\ DOMAIN r.changes = DOMAIN e.changes
      /\ r.changes[i] = [e.changes[i] EXCEPT !.status = "REJECTED"]
      /\ \A j \in DOMAIN e.changes \ {i} : r.changes[j] = e.changes[j]
      BY <1>2, <1>4, DecidedFields
<1> HIDE DEF r
<1>6. r.changes[i].status = "REJECTED"
      BY <1>4, <1>5, ChangeGets
<1>7. PendingChanges(r) \subseteq PendingChanges(e)
      /\ \A j \in PendingChanges(r) : r.changes[j] = e.changes[j]
      BY <1>5, <1>6 DEF PendingChanges
<1>8. SameTerms(q, r) /\ SameWindow(q, r) /\ Active(q)
      BY <1>2, <1>3, <1>5 DEF SameTerms, SameWindow, Active
<1>9. \A j \in PendingChanges(r) : r.changes[j] = q.changes[j]
      BY <1>2, <1>7
<1>10. Narrows(q, r, config, now, now)
      BY <1>1, <1>2, <1>7, <1>8, <1>9, FewerNarrow
<1> QED
    BY <1>10 DEF r, e

LEMMA ApprovedNarrows ==
    ASSUME NEW q, RowOK(q), NEW i \in Nat, Approvable(q, i)
    PROVE  Narrows(q, Approved(q, i), config, now, now)
<1> DEFINE e == ExpireChanges(q)
           r == Approved(q, i)
<1>1. /\ e \in BookingType /\ e.status = q.status /\ SameTerms(q, e) /\ SameWindow(q, e)
      /\ DOMAIN e.changes = DOMAIN q.changes
      /\ PendingChanges(e) = {j \in PendingChanges(q) : ~OverdueAt(q, j, config, now)}
      /\ \A j \in PendingChanges(e) : e.changes[j] = q.changes[j]
      BY ReadFields DEF RowOK
<1>2. /\ RowOK(e) /\ Active(e) /\ i \in PendingChanges(e) /\ e.to > now
      /\ r = Approval(Decided(e, i, "APPROVED"), i, e.changes[i])
      BY ExpireKeeps DEF Approvable, Decidable, Approved
<1> HIDE DEF e, r
<1>3. /\ SameTerms(e, r)
      /\ DOMAIN r.changes = DOMAIN e.changes
      /\ r.changes[i] = [e.changes[i] EXCEPT !.status = "APPROVED"]
      /\ \A j \in DOMAIN e.changes \ {i} : r.changes[j] = e.changes[j]
      /\ r.from = e.changes[i].from /\ r.to = e.changes[i].to
      BY <1>2, ApprovedFields
<1>4. r.changes[i].status = "APPROVED"
  <2>1. e.changes[i] \in ChangeType /\ "APPROVED" \in ChangeStatus
        BY <1>1, <1>2, PlaceTypes DEF PendingChanges, ChangeStatus
  <2> QED
      BY <1>3, <2>1, ChangeGets
<1>5. PendingChanges(r) = {}
      BY <1>2, <1>3, <1>4 DEF PendingChanges, RowOK, ShapeOK
<1>6. Span(r) = Span(q.changes[i]) /\ i \in PendingChanges(q) /\ ~OverdueAt(q, i, config, now)
      BY <1>1, <1>2, <1>3 DEF Span
<1>7. HeldAt(r, config, now) \subseteq HeldAt(q, config, now)
      BY <1>5, <1>6 DEF HeldAt
<1>8. Active(q) /\ SameTerms(q, r) /\ q.to > now
      BY <1>1, <1>2, <1>3 DEF SameTerms, SameWindow, Active
<1>9. Narrows(q, r, config, now, now)
      BY <1>7, <1>8 DEF Narrows, SameTerms
<1> QED
    BY <1>9 DEF r

\* The rules are only changed when nothing is upcoming.
LEMMA NewRulesFit ==
    ASSUME NEW B \in [Booking -> BookingType], NEW c, NEW d, NEW t \in Nat, NEW K,
           d.capacity \in Nat, d.maxActive \in Nat, d.cutoff \in Nat,
           \A o \in Booking : RowOK(B[o]), FitsAt(B, c, t, K),
           \A o \in Booking : ~(Active(B[o]) /\ B[o].to > t)
    PROVE  FitsAt(B, d, t, K)
<1>1. ApartAt(B, d, t) /\ ClosedAt(B, d, t, K) /\ ConfiguredAt(B, d, t) /\ IsFiniteSet(MadeIn(B))
      BY DEF ApartAt, ClosedAt, ConfiguredAt, FitsAt
<1>2. CapacityAt(B, d, t)
  <2> SUFFICES ASSUME NEW s \in Slot, t <= s
               PROVE  SumFunctionOnSet(Heads(B), {o \in Booking : Covers(B[o], d, t, s)}) <= d.capacity
      BY DEF CapacityAt
  <2>1. s \in Int
        BY AmenityAssumption DEF Slot
  <2>2. ASSUME NEW o \in Booking, Covers(B[o], d, t, s)
        PROVE  FALSE
    <3>1. PICK h \in HeldAt(B[o], d, t) : h.from <= s /\ s < h.to
          BY <2>2 DEF Covers
    <3>2. /\ Active(B[o]) /\ B[o].to <= t /\ B[o].from < B[o].to
          /\ B[o].to \in Nat /\ B[o].from \in Nat
      <4>1. Active(B[o]) /\ RowOK(B[o]) /\ ~(B[o].to > t)
            BY <2>2 DEF Covers
      <4>2. B[o].to \in Nat /\ B[o].from \in Nat
            BY NumberTypes
      <4>3. B[o].from < B[o].to
            BY <4>1 DEF RowOK, ShapeOK, Active
      <4> QED
          BY <4>1, <4>2, <4>3
    <3>3. \A i \in PendingChanges(B[o]) : OverdueAt(B[o], i, d, t)
          BY <3>2 DEF OverdueAt
    <3>4. h = Span(B[o])
          BY <3>1, <3>3 DEF HeldAt
    <3>5. s < B[o].to
          BY <3>1, <3>4 DEF Span
    <3> QED
        BY <2>1, <3>2, <3>5
  <2>3. {o \in Booking : Covers(B[o], d, t, s)} = {}
        BY <2>2
  <2> QED
      BY <2>3, SumOfNone
<1>3. LimitAt(B, d, t)
  <2>1. \A r \in Resident : UpcomingOf(B, r, t) = {}
        BY DEF UpcomingOf
  <2> QED
      BY <2>1, FS_EmptySet DEF LimitAt
<1> QED
    BY <1>1, <1>2, <1>3 DEF FitsAt

LEMMA SameRulesFit ==
    ASSUME NEW B, NEW c \in ConfigType, NEW d \in ConfigType, NEW t, NEW K,
           Rules(c) = Rules(d), FitsAt(B, c, t, K)
    PROVE  FitsAt(B, d, t, K)
<1>1. \A e \in ConfigType :
          /\ Rules(e).open = e.open /\ Rules(e).hours = e.hours /\ Rules(e).exclusive = e.exclusive
          /\ Rules(e).capacity = e.capacity /\ Rules(e).turnaround = e.turnaround
          /\ Rules(e).cutoff = e.cutoff /\ Rules(e).maxActive = e.maxActive
          /\ Rules(e).minDuration = e.minDuration /\ Rules(e).maxDuration = e.maxDuration
      BY DEF Rules, ConfigType
<1>2. /\ c.open = d.open /\ c.hours = d.hours /\ c.exclusive = d.exclusive /\ c.capacity = d.capacity
      /\ c.turnaround = d.turnaround /\ c.cutoff = d.cutoff /\ c.maxActive = d.maxActive
      /\ c.minDuration = d.minDuration /\ c.maxDuration = d.maxDuration
      BY <1>1
<1>3. \A q : HeldAt(q, d, t) = HeldAt(q, c, t)
      BY <1>2 DEF HeldAt, OverdueAt
<1>4. \A q, s : Covers(q, d, t, s) <=> Covers(q, c, t, s)
      BY <1>3 DEF Covers
<1>5. CapacityAt(B, d, t)
  <2>1. \A s : {o \in Booking : Covers(B[o], d, t, s)} = {o \in Booking : Covers(B[o], c, t, s)}
        BY <1>4
  <2> QED
      BY <1>2, <2>1 DEF FitsAt, CapacityAt
<1>6. ApartAt(B, d, t)
      BY <1>2, <1>3 DEF FitsAt, ApartAt
<1>7. ClosedAt(B, d, t, K)
      BY <1>2, <1>3 DEF FitsAt, ClosedAt
<1>8. ConfiguredAt(B, d, t)
      BY <1>2, <1>3 DEF FitsAt, ConfiguredAt
<1>9. LimitAt(B, d, t)
      BY <1>2 DEF FitsAt, LimitAt
<1> QED
    BY <1>5, <1>6, <1>7, <1>8, <1>9 DEF FitsAt

-----------------------------------------------------------------------------
(* No overbooking.                                                          *)

\* What a request is checked against.
LEMMA AvailableIsFree ==
    ASSUME TypeOK, NEW b \in Booking, NEW w \in Window, NEW n, NEW r, NEW started, NEW noticed,
           Available(w, n, b, started, noticed), WithinLimit(r, b)
    PROVE  FreeAt(booking, b, w, n, r, config, now, block)
<1>1. \A o \in Others(b) : HeldIntervals(Refreshed(o)) = HeldAt(booking[o], config, now)
      BY HeldIsRefreshed DEF Others
<1>2. /\ config.open /\ n <= config.capacity /\ w \in config.hours
      /\ w.to - w.from \in config.minDuration .. config.maxDuration
      BY DEF Available
<1>3. \A k \in Block : block[k].status = "BLOCKED" => ~BufferedOverlap(block[k], w, config.turnaround)
      BY DEF Available, NotBlocked
<1>4. config.exclusive =>
          \A o \in Booking \ {b} :
              Active(booking[o]) => \A h \in HeldAt(booking[o], config, now) :
                                        ~BufferedOverlap(h, w, config.turnaround)
      BY <1>1 DEF Available, Holds, Others
<1>5. \A s \in w.from .. w.to - 1 :
          n + SumFunctionOnSet(Heads(booking), OthersIn(booking, b, config, now, s)) <= config.capacity
  <2>1. ASSUME NEW s
        PROVE  {o \in Others(b) : Holds(o, [from |-> s, to |-> s + 1])} = OthersIn(booking, b, config, now, s)
        BY <1>1 DEF Holds, Others, OthersIn
  <2>2. \A s \in w.from .. w.to - 1 :
            n + Occupied({o \in Others(b) : Holds(o, [from |-> s, to |-> s + 1])}) <= config.capacity
        BY DEF Available, EverybodyFits
  <2> QED
      BY <2>1, <2>2 DEF Occupied, Heads
<1>6. Cardinality(UpcomingOf(booking, r, now) \ {b}) < config.maxActive
  <2>1. {o \in Others(b) : booking[o].resident = r /\ booking[o].to > now} = UpcomingOf(booking, r, now) \ {b}
        BY DEF Others, UpcomingOf
  <2> QED
      BY <2>1 DEF WithinLimit
<1> QED
    BY <1>2, <1>3, <1>4, <1>5, <1>6 DEF FreeAt

FitsInv == RowsInv /\ FitsAt(booking, config, now, block)

LEMMA FitsTypes ==
    ASSUME RowsInv
    PROVE  /\ TypeOK /\ AllRowsOK /\ booking \in [Booking -> BookingType]
           /\ config \in ConfigType /\ config.capacity \in Nat /\ config.maxActive \in Nat
           /\ config.cutoff \in Nat /\ config.turnaround \in Nat /\ now \in Nat
BY ConfigTypes DEF RowsInv, TypeOK

LEMMA UpdatesMakeNone ==
    ASSUME RowsInv, NEW S \in SUBSET Booking,
           \A o \in Booking \ S : RowUpdate(booking[o], booking'[o])
    PROVE  MadeIn(booking') \subseteq MadeIn(booking) \cup S
BY StepUpdates DEF RowsInv, AllRowsOK, MadeIn

\* Every step in which no booking takes a further window.
LEMMA CalmFits ==
    ASSUME FitsInv, RowsInv', Updates, UNCHANGED <<config, now>>,
           \A o \in Booking : Narrows(booking[o], booking'[o], config, now, now),
           \A k \in Block : block'[k].status = "BLOCKED" => block'[k] = block[k]
    PROVE  FitsAt(booking, config, now, block)'
<1>1. /\ TypeOK /\ AllRowsOK /\ booking \in [Booking -> BookingType]
      /\ config.capacity \in Nat /\ config.maxActive \in Nat /\ now \in Nat /\ now <= now
      BY FitsTypes DEF FitsInv
<1>2. booking' \in [Booking -> BookingType]
      BY DEF RowsInv, TypeOK
<1>3. MadeIn(booking') \subseteq MadeIn(booking)
  <2>1. \A o \in Booking \ {} : RowUpdate(booking[o], booking'[o])
        BY DEF Updates
  <2>2. RowsInv
        BY DEF FitsInv
  <2>3. MadeIn(booking') \subseteq MadeIn(booking) \cup {}
        BY <2>1, <2>2, UpdatesMakeNone
  <2> QED
      BY <2>3
<1>4. FitsAt(booking', config, now, block')
      BY <1>1, <1>2, <1>3, NarrowFits DEF FitsInv
<1> QED
    BY <1>4

\* Every step that stores one booking anew and takes no further window.
LEMMA CalmStore ==
    ASSUME FitsInv, RowsInv', Updates, UNCHANGED <<config, block, now>>, NEW b \in Booking,
           \A o \in Booking \ {b} : booking'[o] \in {booking[o], Refreshed(o)},
           Narrows(booking[b], booking'[b], config, now, now)
    PROVE  FitsAt(booking, config, now, block)'
<1>1. TypeOK
      BY DEF FitsInv, RowsInv
<1>2. \A o \in Booking : Narrows(booking[o], Refreshed(o), config, now, now)
      BY <1>1, RefreshedNarrows
<1>3. \A o \in Booking : Narrows(booking[o], booking[o], config, now, now)
      BY <1>1, ReadNarrows DEF TypeOK
<1>4. \A o \in Booking : Narrows(booking[o], booking'[o], config, now, now)
      BY <1>2, <1>3
<1> QED
    BY <1>4, CalmFits

\* Every step in which one booking takes a window that is available.
LEMMA TakingFits ==
    ASSUME FitsInv, RowsInv', UNCHANGED <<config, block, now>>,
           NEW b \in Booking, NEW w \in Window, NEW n \in Nat, NEW r, NEW started, NEW noticed,
           Available(w, n, b, started, noticed), WithinLimit(r, b),
           \A o \in Booking \ {b} : booking'[o] = Refreshed(o) /\ RowUpdate(booking[o], booking'[o]),
           booking'[b].attendees = n, booking'[b].resident = r, Active(booking'[b]),
           Widens(booking[b], booking'[b], w, config, now)
    PROVE  FitsAt(booking, config, now, block)'
<1>1. /\ TypeOK /\ AllRowsOK /\ booking \in [Booking -> BookingType]
      /\ config.capacity \in Nat /\ config.maxActive \in Nat /\ config.turnaround \in Nat /\ now \in Nat
      BY FitsTypes DEF FitsInv
<1>2. booking' \in [Booking -> BookingType]
      BY DEF RowsInv, TypeOK
<1>3. MadeIn(booking') \subseteq MadeIn(booking) \cup {b}
      BY UpdatesMakeNone DEF FitsInv
<1>4. \A o \in Booking \ {b} : Narrows(booking[o], booking'[o], config, now, now)
      BY <1>1, RefreshedNarrows
<1>5. FreeAt(booking, b, w, n, r, config, now, block)
      BY <1>1, AvailableIsFree
<1>6. FitsAt(booking', config, now, block)
      BY <1>1, <1>2, <1>3, <1>4, <1>5, WidenFits DEF FitsInv
<1> QED
    BY <1>6

LEMMA BookFits ==
    ASSUME FitsInv, RowsInv', NEW b \in Booking, NEW r \in Resident, NEW key \in Key \cup {NoKey},
           NEW w \in Window, NEW n \in Attendees, Book(b, r, key, w, n, Price)
    PROVE  FitsAt(booking, config, now, block)'
<1>1. TypeOK /\ AllRowsOK
      BY DEF FitsInv, RowsInv
<1>2. /\ booking[b].status = "NONE" /\ Available(w, n, b, FALSE, FALSE) /\ WithinLimit(r, b)
      /\ UNCHANGED <<config, block, now>>
      BY DEF Book
<1>3. /\ booking'[b] = NewBooking(r, key, w, n)
      /\ \A o \in Booking \ {b} : booking'[o] = Refreshed(o) /\ RowUpdate(booking[o], booking'[o])
      BY <1>1, BookMoves
<1> DEFINE q == NewBooking(r, key, w, n)
<1>4. /\ q.status \in {"PENDING_APPROVAL", "APPROVED"} /\ q.resident = r
      /\ q.from = w.from /\ q.to = w.to /\ q.attendees = n /\ q.changes = <<>>
  <2>1. TypeOK
        BY <1>1
  <2> HIDE DEF FitsInv
  <2> QED
      BY <2>1, NewBookingFields
<1> HIDE DEF q
<1>5. Span(q) = w
      BY <1>4, WindowTypes DEF Span
<1>6. PendingChanges(q) = {}
  <2>1. \A i : i \notin DOMAIN <<>>
        OBVIOUS
  <2> QED
      BY <1>4, <2>1 DEF PendingChanges
<1>7. HeldAt(q, config, now) = {w} /\ Active(q)
      BY <1>4, <1>5, <1>6 DEF HeldAt, Active
<1>8. ~Active(booking[b])
      BY <1>2 DEF Active
<1>9. Widens(booking[b], q, w, config, now)
      BY <1>7, <1>8 DEF Widens
<1>10. n \in Nat /\ booking'[b] = q
       BY <1>3, AmenityAssumption DEF q
<1> QED
    BY <1>2, <1>3, <1>4, <1>7, <1>9, <1>10, TakingFits

LEMMA RequestFits ==
    ASSUME FitsInv, RowsInv', NEW b \in Booking, NEW v, NEW key \in Key, NEW kind \in Kinds,
           NEW w \in Window, RequestChange(b, v, key, kind, w)
    PROVE  FitsAt(booking, config, now, block)'
<1> DEFINE e == ExpireChanges(booking[b])
<1>1. TypeOK /\ AllRowsOK /\ booking[b] \in BookingType
      BY DEF FitsInv, RowsInv, TypeOK
<1>2. /\ Available(w, e.attendees, b, kind = "EXTEND", FALSE) /\ WithinLimit(e.resident, b)
      /\ UNCHANGED <<config, block, now>>
      BY DEF RequestChange, ValidChange
<1>3. /\ Updates /\ RestTyped /\ RowOK(e)
      /\ \A o \in Booking \ {b} : booking'[o] = Refreshed(o)
      /\ \E c \in ChangeType :
            /\ c = Requested(e, key, kind, w)
            /\ Takes(booking[b], c) /\ booking'[b] = WithChange(e, c)
            /\ c.kind = kind /\ c.from = w.from /\ c.to = w.to
      BY <1>1, RequestMoves
<1>4. PICK c \in ChangeType :
          /\ Takes(booking[b], c) /\ booking'[b] = WithChange(e, c)
          /\ c.from = w.from /\ c.to = w.to
      BY <1>3
<1> DEFINE r == WithChange(e, c)
           n == Len(e.changes) + 1
<1>5. /\ Updates /\ booking'[b] = r
      /\ \A o \in Booking \ {b} : booking'[o] = Refreshed(o)
      /\ RowOK(e) /\ Takes(booking[b], c)
      /\ c.from = w.from /\ c.to = w.to
      BY <1>3, <1>4
<1>6. /\ e.status = booking[b].status /\ SameTerms(booking[b], e) /\ SameWindow(booking[b], e)
      BY <1>1, ReadFields
<1>7. /\ Active(e) /\ PendingChanges(e) = {} /\ e.to > now
      /\ c \in ChangeType /\ c.status \in {"PENDING_APPROVAL", "APPROVED"}
      BY <1>5 DEF Takes
<1> HIDE DEF e
<1>8. /\ r.status = e.status /\ SameTerms(e, r)
      /\ DOMAIN r.changes = DOMAIN e.changes \cup {n} /\ n \notin DOMAIN e.changes
      /\ r.changes[n] = c
      /\ \A j \in DOMAIN e.changes : r.changes[j] = e.changes[j]
      /\ c.status = "APPROVED" => r.from = c.from /\ r.to = c.to
      /\ c.status # "APPROVED" => SameWindow(e, r)
      BY <1>5, <1>7, TakenFields
<1> HIDE DEF r, n
<1>9. Span(c) = w
      BY <1>5, WindowTypes DEF Span
<1>10. HeldAt(r, config, now) \subseteq {w} \cup {Span(booking[b])}
  <2>1. CASE c.status = "APPROVED"
    <3>1. Span(r) = w
          BY <1>8, <1>9, <2>1 DEF Span
    <3>2. PendingChanges(r) = {}
          BY <1>7, <1>8, <2>1 DEF PendingChanges
    <3> QED
        BY <3>1, <3>2 DEF HeldAt
  <2>2. CASE c.status = "PENDING_APPROVAL"
    <3>1. Span(r) = Span(booking[b])
          BY <1>6, <1>8, <2>2 DEF Span, SameWindow
    <3>2. \A i \in PendingChanges(r) : r.changes[i] = c
          BY <1>7, <1>8 DEF PendingChanges
    <3> QED
        BY <1>9, <3>1, <3>2 DEF HeldAt
  <2> QED
      BY <1>7, <2>1, <2>2
<1>11. /\ Active(booking[b]) /\ booking[b].to > now
      /\ r.attendees = booking[b].attendees /\ r.resident = booking[b].resident
      /\ r.attendees = e.attendees /\ r.resident = e.resident /\ Active(r)
      BY <1>6, <1>7, <1>8 DEF Active, SameTerms, SameWindow
<1>12. Widens(booking[b], r, w, config, now)
       BY <1>10, <1>11 DEF Widens, HeldAt
<1>13. e.attendees \in Nat
       BY <1>5, NumberTypes DEF RowOK
<1>14. \A o \in Booking \ {b} : RowUpdate(booking[o], booking'[o])
       BY <1>5 DEF Updates
<1> QED
    BY <1>2, <1>5, <1>11, <1>12, <1>13, <1>14, TakingFits

LEMMA FitsInit == Init => FitsInv
<1> SUFFICES ASSUME Init PROVE FitsInv
    OBVIOUS
<1>1. RowsInv
      BY RowsInit
<1>2. \A o \in Booking : booking[o] = NoBooking /\ ~Active(booking[o])
      BY DEF Init, NoBooking, Active
<1>3. MadeIn(booking) = {}
      BY <1>2 DEF MadeIn, NoBooking
<1>4. ApartAt(booking, config, now) /\ ClosedAt(booking, config, now, block)
      /\ ConfiguredAt(booking, config, now)
      BY <1>2 DEF ApartAt, ClosedAt, ConfiguredAt
<1>5. config.capacity \in Nat /\ config.maxActive \in Nat
      BY <1>1, FitsTypes
<1>6. CapacityAt(booking, config, now)
  <2>1. \A u : {o \in Booking : Covers(booking[o], config, now, u)} = {}
        BY <1>2 DEF Covers
  <2> QED
      BY <1>5, <2>1, SumOfNone DEF CapacityAt
<1>7. LimitAt(booking, config, now)
  <2>1. \A r : UpcomingOf(booking, r, now) = {}
        BY <1>2 DEF UpcomingOf
  <2> QED
      BY <1>5, <2>1, FS_EmptySet DEF LimitAt
<1> QED
    BY <1>1, <1>3, <1>4, <1>6, <1>7, FS_EmptySet DEF FitsInv, FitsAt

LEMMA AdminFits ==
    ASSUME FitsInv, RowsInv', NEW b \in Booking,
           \/ Cancel(b) \/ Reject(b) \/ Approve(b)
           \/ \E i \in 1..MaxChanges : ApproveChange(b, i) \/ RejectChange(b, i)
    PROVE  FitsAt(booking, config, now, block)'
<1>1. TypeOK /\ AllRowsOK /\ booking[b] \in BookingType
      BY DEF FitsInv, RowsInv, TypeOK
<1>2. 1..MaxChanges \subseteq Nat
      BY AmenityAssumption
<1>3. ASSUME NEW s \in {"CANCELLED", "REJECTED"}, Active(booking[b]), Store(b, Withdrawn(booking[b], s)),
             UNCHANGED <<config, block, now>>
      PROVE  FitsAt(booking, config, now, block)'
  <2>1. RowUpdate(booking[b], Withdrawn(booking[b], s))
        BY <1>3 DEF RowUpdate
  <2>2. Updates /\ booking'[b] = Withdrawn(booking[b], s) /\ \A o \in Booking \ {b} : booking'[o] = booking[o]
        BY <1>1, <1>3, <2>1, StoreMoves
  <2>3. Narrows(booking[b], booking'[b], config, now, now)
        BY <1>1, <2>2, WithdrawnNarrows
  <2> QED
      BY <1>3, <2>2, <2>3, CalmStore
<1>4. CASE Cancel(b)
      BY <1>3, <1>4 DEF Cancel
<1>5. CASE Reject(b)
      BY <1>3, <1>5 DEF Reject, Active
<1>6. CASE Approve(b)
  <2>1. Active(booking[b]) /\ StoreReading(b, Granted(booking[b])) /\ UNCHANGED <<config, block, now>>
        BY <1>6 DEF Approve, CanApprove, Active, Granted
  <2>2. RowUpdate(booking[b], Granted(booking[b]))
        BY <2>1 DEF RowUpdate
  <2>3. Updates /\ booking'[b] = Granted(booking[b]) /\ \A o \in Booking \ {b} : booking'[o] = Refreshed(o)
        BY <2>1, <2>2, ReadingMoves
  <2>4. Narrows(booking[b], booking'[b], config, now, now)
        BY <1>1, <2>1, <2>3, GrantedNarrows
  <2> QED
      BY <2>1, <2>3, <2>4, CalmStore
<1>7. ASSUME NEW i \in Nat, ApproveChange(b, i)
      PROVE  FitsAt(booking, config, now, block)'
  <2>1. /\ Updates /\ Approvable(booking[b], i) /\ booking'[b] = Approved(booking[b], i)
        /\ \A o \in Booking \ {b} : booking'[o] = Refreshed(o)
        BY <1>1, <1>7, ApproveChangeMoves
  <2>2. Narrows(booking[b], booking'[b], config, now, now)
        BY <1>1, <2>1, ApprovedNarrows DEF AllRowsOK
  <2>3. UNCHANGED <<config, block, now>>
        BY <1>7 DEF ApproveChange
  <2> QED
      BY <2>1, <2>2, <2>3, CalmStore
<1>8. ASSUME NEW i \in Nat, RejectChange(b, i)
      PROVE  FitsAt(booking, config, now, block)'
  <2>1. /\ Decidable(booking[b], i) /\ Store(b, Decided(ExpireChanges(booking[b]), i, "REJECTED"))
        /\ UNCHANGED <<config, block, now>>
        BY <1>8 DEF RejectChange, Decidable
  <2>2. RowUpdate(booking[b], Decided(ExpireChanges(booking[b]), i, "REJECTED"))
        BY <2>1 DEF RowUpdate
  <2>3. /\ Updates /\ booking'[b] = Decided(ExpireChanges(booking[b]), i, "REJECTED")
        /\ \A o \in Booking \ {b} : booking'[o] = booking[o]
        BY <1>1, <2>1, <2>2, StoreMoves
  <2>4. Narrows(booking[b], booking'[b], config, now, now)
        BY <1>1, <2>1, <2>3, RejectedNarrows
  <2> QED
      BY <2>1, <2>3, <2>4, CalmStore
<1> QED
    BY <1>2, <1>4, <1>5, <1>6, <1>7, <1>8

LEMMA UpdateFits ==
    ASSUME FitsInv, NEW c \in Config, Update(c)
    PROVE  FitsAt(booking, config, now, block)'
<1>1. /\ config' = c /\ UNCHANGED <<booking, block, now>>
      /\ Rules(c) # Rules(config) => ~\E b \in Booking : Upcoming(booking[b])
      BY DEF Update, MayConfigure
<1>2. /\ AllRowsOK /\ booking \in [Booking -> BookingType] /\ config \in ConfigType /\ now \in Nat
      /\ FitsAt(booking, config, now, block)
      BY FitsTypes DEF FitsInv
<1>3. c \in ConfigType /\ c.capacity \in Nat /\ c.maxActive \in Nat /\ c.cutoff \in Nat
  <2>1. c \in ConfigType
        BY AmenityAssumption
  <2> QED
      BY <2>1 DEF ConfigType
<1>4. FitsAt(booking, c, now, block)
  <2>1. CASE Rules(c) = Rules(config)
        BY <1>2, <1>3, <2>1, SameRulesFit
  <2>2. CASE Rules(c) # Rules(config)
    <3>1. \A o \in Booking : ~(Active(booking[o]) /\ booking[o].to > now)
          BY <1>1, <2>2 DEF Upcoming
    <3>2. \A o \in Booking : RowOK(booking[o])
          BY <1>2 DEF AllRowsOK
    <3> QED
        BY <1>2, <1>3, <3>1, <3>2, NewRulesFit
  <2> QED
      BY <2>1, <2>2
<1> QED
    BY <1>1, <1>4

LEMMA BlockFits ==
    ASSUME FitsInv, RowsInv', NEW k \in Block,
           ReleaseBlock(k) \/ \E w \in BlockWindow : AddBlock(k, w)
    PROVE  FitsAt(booking, config, now, block)'
<1>1. TypeOK /\ booking \in [Booking -> BookingType] /\ block \in [Block -> BlockType]
      BY DEF FitsInv, RowsInv, TypeOK
<1>2. CASE ReleaseBlock(k)
  <2>1. UNCHANGED <<config, now, booking>> /\ block' = [block EXCEPT ![k].status = "RELEASED"]
        BY <1>2 DEF ReleaseBlock
  <2>2. Updates
        BY <1>1, <2>1, SameMoves
  <2>3. \A o \in Booking : Narrows(booking[o], booking'[o], config, now, now)
        BY <1>1, <2>1, ReadNarrows
  <2>4. \A j \in Block : block'[j].status = "BLOCKED" => block'[j] = block[j]
        BY <1>1, <2>1 DEF BlockType
  <2> QED
      BY <2>1, <2>2, <2>3, <2>4, CalmFits
<1>3. ASSUME NEW w \in BlockWindow, AddBlock(k, w)
      PROVE  FitsAt(booking, config, now, block)'
  <2> DEFINE new == [status |-> "BLOCKED", from |-> w.from, to |-> w.to]
  <2>1. /\ ~\E o \in Booking : Active(booking[o]) /\ Holds(o, w)
        /\ block' = [block EXCEPT ![k] = new]
        /\ booking' = [o \in Booking |-> Refreshed(o)]
        /\ UNCHANGED <<config, now>>
        BY <1>3 DEF AddBlock
  <2>2. block'[k] = new /\ (\A j \in Block \ {k} : block'[j] = block[j])
        /\ new.from = w.from /\ new.to = w.to
        BY <1>1, <2>1
  <2> HIDE DEF new
  <2>3. \A o \in Booking : Narrows(booking[o], booking'[o], config, now, now)
        BY <1>1, <2>1, RefreshedNarrows
  <2>4. /\ config.capacity \in Nat /\ config.maxActive \in Nat /\ now \in Nat /\ now <= now
        /\ FitsAt(booking, config, now, block) /\ booking' \in [Booking -> BookingType]
        BY FitsTypes DEF FitsInv, RowsInv, TypeOK
  <2>5. MadeIn(booking') \subseteq MadeIn(booking)
    <3>1. \A o \in Booking \ {} : RowUpdate(booking[o], booking'[o])
          BY <2>1 DEF RowUpdate, Refreshed
    <3>2. RowsInv
          BY DEF FitsInv
    <3>3. MadeIn(booking') \subseteq MadeIn(booking) \cup {}
          BY <3>1, <3>2, UpdatesMakeNone
    <3> QED
        BY <3>3
  <2>6. FitsAt(booking', config, now, block)
        BY <1>1, <2>3, <2>4, <2>5, NarrowFits
  <2>7. ClosedAt(booking', config, now, block')
    <3> SUFFICES ASSUME NEW j \in Block, NEW o \in Booking, block'[j].status = "BLOCKED",
                        Active(booking'[o]), booking'[o].to > now, NEW h \in HeldAt(booking'[o], config, now)
                 PROVE  ~BufferedOverlap(h, block'[j], config.turnaround)
        BY DEF ClosedAt
    <3>1. CASE j # k
          BY <2>2, <2>6, <3>1 DEF FitsAt, ClosedAt
    <3>2. CASE j = k
      <4>1. Active(booking[o]) /\ h \in HeldAt(booking[o], config, now)
            BY <2>3 DEF Narrows
      <4>2. ~BufferedOverlap(h, w, config.turnaround)
            BY <1>1, <2>1, <4>1, HeldIsRefreshed DEF Holds
      <4> QED
          BY <2>2, <3>2, <4>2 DEF BufferedOverlap
    <3> QED
        BY <3>1, <3>2
  <2>8. FitsAt(booking', config, now, block')
        BY <2>6, <2>7 DEF FitsAt
  <2> QED
      BY <2>1, <2>8
<1> QED
    BY <1>2, <1>3

LEMMA QuietFits ==
    ASSUME FitsInv, RowsInv', Tick \/ UNCHANGED vars \/ \E read \in SUBSET Booking : Access(read)
    PROVE  FitsAt(booking, config, now, block)'
<1>1. /\ TypeOK /\ booking \in [Booking -> BookingType] /\ FitsAt(booking, config, now, block)
      /\ config.capacity \in Nat /\ config.maxActive \in Nat /\ config.cutoff \in Nat /\ now \in Nat
      BY FitsTypes DEF FitsInv
<1>2. CASE Tick
  <2>1. now' = now + 1 /\ UNCHANGED <<config, booking, block>>
        BY <1>2 DEF Tick
  <2>2. now + 1 \in Nat /\ now <= now + 1
        BY <1>1
  <2>3. \A o \in Booking : Narrows(booking[o], booking[o], config, now, now + 1)
        BY <1>1, <2>2, FewerNarrow DEF SameTerms, SameWindow
  <2>4. FitsAt(booking, config, now + 1, block)
        BY <1>1, <2>2, <2>3, NarrowFits
  <2> QED
      BY <2>1, <2>4
<1>3. CASE UNCHANGED vars
      BY <1>1, <1>3 DEF vars
<1>4. ASSUME NEW read \in SUBSET Booking, Access(read)
      PROVE  FitsAt(booking, config, now, block)'
  <2>1. /\ booking' = [o \in Booking |-> IF o \in read THEN ExpireChanges(booking[o]) ELSE booking[o]]
        /\ UNCHANGED <<config, block, now>>
        BY <1>4 DEF Access
  <2>2. Updates
        BY <1>1, <1>4, OtherMoves
  <2>3. \A o \in Booking : Narrows(booking[o], booking'[o], config, now, now)
        BY <1>1, <2>1, ReadNarrows
  <2> QED
      BY <2>1, <2>2, <2>3, CalmFits
<1> QED
    BY <1>2, <1>3, <1>4

LEMMA FitsStep == FitsInv /\ [Next]_vars => FitsInv'
<1> SUFFICES ASSUME FitsInv, [Next]_vars PROVE FitsInv'
    OBVIOUS
<1>1. RowsInv'
      BY RowsStep DEF FitsInv
<1>2. ASSUME NEW b \in Booking, NEW r \in Resident, NEW key \in Key \cup {NoKey},
             NEW w \in Window, NEW n \in Attendees, Book(b, r, key, w, n, Price)
      PROVE  FitsAt(booking, config, now, block)'
      BY <1>1, <1>2, BookFits
<1>3. ASSUME NEW b \in Booking, AnyChange(b, booking[b].version)
      PROVE  FitsAt(booking, config, now, block)'
  <2>1. PICK key \in Key, kind \in Kinds, w \in Window :
            RequestChange(b, booking[b].version, key, kind, w)
        BY <1>3 DEF AnyChange, Kinds
  <2> QED
      BY <1>1, <2>1, RequestFits
<1>4. ASSUME NEW b \in Booking,
             \/ Cancel(b) \/ Approve(b) \/ Reject(b)
             \/ \E i \in 1..MaxChanges : ApproveChange(b, i) \/ RejectChange(b, i)
      PROVE  FitsAt(booking, config, now, block)'
      BY <1>1, <1>4, AdminFits
<1>5. ASSUME NEW c \in Config, Update(c)
      PROVE  FitsAt(booking, config, now, block)'
      BY <1>5, UpdateFits
<1>6. ASSUME NEW k \in Block, ReleaseBlock(k) \/ \E w \in BlockWindow : AddBlock(k, w)
      PROVE  FitsAt(booking, config, now, block)'
      BY <1>1, <1>6, BlockFits
<1>7. ASSUME Tick \/ UNCHANGED vars \/ \E read \in SUBSET Booking : Access(read)
      PROVE  FitsAt(booking, config, now, block)'
      BY <1>1, <1>7, QuietFits
<1>8. FitsAt(booking, config, now, block)'
      BY <1>2, <1>3, <1>4, <1>5, <1>6, <1>7 DEF Next
<1> QED
    BY <1>1, <1>8 DEF FitsInv

LEMMA FitsAlways == Spec => []FitsInv
BY FitsInit, FitsStep, PTL DEF Spec

\* For any number of residents, bookings and blocks, any configurations and any windows:
\* reservations and the windows that wait for approval keep the turnaround in exclusive
\* amenities, never exceed the capacity, nor a resident's limit, and stay clear of
\* maintenance, whatever is edited, extended, approved, expired or reconfigured in between.
THEOREM NeverOverbooked == Spec => []NoOverbooking
<1>1. FitsInv => NoOverbooking
      BY FitsIsNoOverbooking DEF FitsInv, RowsInv
<1> QED
    BY <1>1, FitsAlways, PTL

-----------------------------------------------------------------------------
(* What waits for approval can be approved.                                 *)

LEMMA WaitingFits ==
    ASSUME FitsInv, config.exclusive \/ config.turnaround = 0, NEW b \in Booking,
           booking[b].status = "PENDING_APPROVAL", booking[b].from > now
    PROVE  CanApprove(b)
<1> DEFINE q == booking[b]
           w == Span(q)
<1>1. /\ TypeOK /\ booking \in [Booking -> BookingType] /\ FitsAt(booking, config, now, block)
      /\ config.turnaround \in Nat /\ config.capacity \in Nat /\ now \in Nat
      /\ RowOK(q) /\ q \in BookingType
      BY FitsTypes DEF FitsInv, AllRowsOK
<1>2. /\ Active(q) /\ q.from \in Nat /\ q.to \in Nat /\ q.attendees \in Nat
      /\ q.from < q.to /\ q.to > now /\ w.from = q.from /\ w.to = q.to
  <2>1. Active(q) /\ q.from < q.to
        BY <1>1 DEF RowOK, ShapeOK, Active
  <2>2. q.from \in Nat /\ q.to \in Nat /\ q.attendees \in Nat
        BY <1>1, NumberTypes
  <2> QED
      BY <1>1, <2>1, <2>2 DEF Span
<1>3. w \in HeldAt(q, config, now)
      BY DEF HeldAt
<1>4. /\ config.open /\ q.attendees <= config.capacity /\ w \in config.hours
      /\ w.to - w.from \in config.minDuration .. config.maxDuration
      BY <1>1, <1>2, <1>3 DEF FitsAt, ConfiguredAt
<1>5. NotBlocked(w)
      BY <1>1, <1>2, <1>3, OverlapIsMutual DEF FitsAt, ClosedAt, NotBlocked
<1>6. ASSUME config.exclusive
      PROVE  \A o \in Others(b) : \A h \in HeldAt(booking[o], config, now) :
                 ~BufferedOverlap(h, w, config.turnaround)
      BY <1>1, <1>2, <1>3, <1>6 DEF FitsAt, ApartAt, Others
<1>7. config.exclusive => ~\E o \in Others(b) : Holds(o, w)
      BY <1>1, <1>6, HeldIsRefreshed DEF Holds, Others
<1>8. EverybodyFits(w, q.attendees, b)
  <2> SUFFICES ASSUME NEW s \in w.from .. w.to - 1
               PROVE  q.attendees
                          + Occupied({o \in Others(b) : Holds(o, [from |-> s, to |-> s + 1])}) <= config.capacity
      BY DEF EverybodyFits
  <2> DEFINE S == {o \in Others(b) : Holds(o, [from |-> s, to |-> s + 1])}
             P == {o \in Booking : Covers(booking[o], config, now, s)}
  <2>1. s \in Int /\ q.from <= s /\ s < q.to /\ now <= s
        BY <1>1, <1>2
  <2>2. \A o \in Others(b) : /\ booking[o] \in BookingType /\ Active(booking[o])
                             /\ HeldIntervals(Refreshed(o)) = HeldAt(booking[o], config, now)
        BY <1>1, HeldIsRefreshed DEF Others
  <2>3. ASSUME NEW o \in S
        PROVE  /\ o \in Others(b)
               /\ \E h \in HeldAt(booking[o], config, now) :
                     /\ h.from \in Nat /\ h.to \in Nat
                     /\ h.from < s + 1 + config.turnaround /\ s < h.to + config.turnaround
    <3>1. o \in Others(b) /\ Holds(o, [from |-> s, to |-> s + 1])
          OBVIOUS
    <3>2. PICK h \in HeldAt(booking[o], config, now) :
              BufferedOverlap(h, [from |-> s, to |-> s + 1], config.turnaround)
          BY <2>2, <3>1 DEF Holds
    <3>3. h.from \in Nat /\ h.to \in Nat
          BY <2>2, <3>1, <3>2, HeldTypes
    <3> QED
        BY <3>1, <3>2, <3>3 DEF BufferedOverlap
  <2>4. CASE config.exclusive
    <3>1. S = {}
      <4> SUFFICES ASSUME NEW o \in S PROVE FALSE
          OBVIOUS
      <4>1. PICK h \in HeldAt(booking[o], config, now) :
                /\ h.from \in Nat /\ h.to \in Nat
                /\ h.from < s + 1 + config.turnaround /\ s < h.to + config.turnaround
            BY <2>3
      <4>2. BufferedOverlap(h, w, config.turnaround)
            BY <1>1, <1>2, <2>1, <4>1 DEF BufferedOverlap
      <4> QED
          BY <1>6, <2>3, <2>4, <4>1, <4>2
    <3>2. Occupied(S) = 0
          BY <3>1, SumOfNone DEF Occupied
    <3> HIDE DEF S
    <3>3. q.attendees + Occupied(S) <= config.capacity
          BY <1>1, <1>2, <1>4, <3>2
    <3> QED
        BY <3>3 DEF S
  <2>5. CASE config.turnaround = 0
    <3>1. s \in Slot
      <4>1. w \in Window
            BY <1>1, <1>4, ConfigTypes
      <4> QED
          BY <4>1 DEF Slot
    <3>2. SumFunctionOnSet(Heads(booking), P) <= config.capacity
          BY <1>1, <2>1, <3>1 DEF FitsAt, CapacityAt
    <3>3. S \cup {b} \subseteq P /\ b \notin S
      <4>1. ASSUME NEW o \in S
            PROVE  o \in P
        <5>1. PICK h \in HeldAt(booking[o], config, now) :
                  /\ h.from \in Nat /\ h.to \in Nat
                  /\ h.from < s + 1 + config.turnaround /\ s < h.to + config.turnaround
              BY <2>3
        <5>2. h.from <= s /\ s < h.to
              BY <2>1, <2>5, <5>1
        <5> QED
            BY <2>2, <2>3, <5>1, <5>2 DEF Covers, Others
      <4>2. b \in P
            BY <1>2, <1>3, <2>1 DEF Covers
      <4>3. b \notin S
            BY DEF Others
      <4> QED
          BY <4>1, <4>2, <4>3
    <3>4. P \subseteq MadeIn(booking)
          BY ActiveIsMade DEF Covers
    <3>5. Occupied(S) = SumFunctionOnSet(Heads(booking), S) /\ Heads(booking)[b] = q.attendees
          BY DEF Occupied, Heads
    <3> HIDE DEF S, P, q
    <3>6. IsFiniteSet(P) /\ Counts(Heads(booking), P)
          BY <1>1, <3>4, HeadsCount DEF FitsAt
    <3>7. IsFiniteSet(S) /\ IsFiniteSet(S \cup {b}) /\ Counts(Heads(booking), S \cup {b})
          /\ Counts(Heads(booking), S)
          BY <3>3, <3>6, FS_Subset DEF Counts
    <3>8. SumFunctionOnSet(Heads(booking), S \cup {b}) = SumFunctionOnSet(Heads(booking), S) + q.attendees
      <4>1. b \notin S
            BY <3>3
      <4>2. SumFunctionOnSet(Heads(booking), S \cup {b})
                = SumFunctionOnSet(Heads(booking), S) + Heads(booking)[b]
            BY <3>7, <4>1, SumWithNew, Zenon
      <4> QED
          BY <3>5, <4>2
    <3>9. SumFunctionOnSet(Heads(booking), S \cup {b}) <= SumFunctionOnSet(Heads(booking), P)
          BY <3>3, <3>6, SumOfSubset
    <3>10. /\ SumFunctionOnSet(Heads(booking), S) \in Nat /\ SumFunctionOnSet(Heads(booking), P) \in Nat
           /\ SumFunctionOnSet(Heads(booking), S \cup {b}) \in Nat
           BY <3>6, <3>7, SumIsNat
    <3>11. q.attendees + Occupied(S) <= config.capacity
           BY <1>1, <1>2, <3>2, <3>5, <3>8, <3>9, <3>10
    <3> QED
        BY <3>11 DEF S, q
  <2> QED
      BY <2>4, <2>5
<1>9. Available(w, q.attendees, b, FALSE, TRUE)
      BY <1>2, <1>4, <1>5, <1>7, <1>8 DEF Available
<1> QED
    BY <1>9 DEF CanApprove

\* "Pending approval holds capacity", in exclusive amenities and in those without a
\* turnaround: what was reserved meanwhile never keeps a waiting booking from being approved.
THEOREM WaitingCanBeApproved == Spec => []PlainHoldCanBeApproved
<1>1. FitsInv => PlainHoldCanBeApproved
      BY WaitingFits DEF PlainHoldCanBeApproved, HoldCanBeApproved
<1> QED
    BY <1>1, FitsAlways, PTL

-----------------------------------------------------------------------------
(* The slow resident: a form changes only what it shows.                    *)

\* The open form shows a blank booking, or one as it is stored, or one that has a
\* newer version since.
FormOK ==
    form # NoForm =>
        LET q == form.shown IN
        /\ form.id \in Booking
        /\ q.status = "NONE" => q = NoBooking
        /\ q.status # "NONE" => RowOK(q) /\ (booking[form.id] = q \/ q.version < booking[form.id].version)

FormInv == RowsInv /\ FormOK

\* A new booking is made as if it had been asked for now.
LEMMA SubmitsBooking ==
    ASSUME FormInv, SubmitBooking
    PROVE  \E r \in Resident, key \in Key \cup {NoKey}, w \in Window, n \in Attendees :
               form.id \in Booking /\ form.price = Price /\ Book(form.id, r, key, w, n, Price)
<1>1. form.id \in Booking
      BY DEF FormInv, FormOK, SubmitBooking
<1>2. PICK r \in Resident, key \in Key, w \in Window, n \in Attendees :
          Book(form.id, r, key, w, n, form.price)
      BY DEF SubmitBooking
<1>3. form.price = Price
      BY <1>2 DEF Book, CurrentPrice
<1> QED
    BY <1>1, <1>2, <1>3

\* A change finds the booking the form shows.
LEMMA SubmitsChange ==
    ASSUME FormInv, SubmitChange
    PROVE  LET b == form.id
               q == form.shown IN
           /\ b \in Booking /\ booking[b] = q /\ ExpireChanges(q) = q /\ q.status # "NONE"
           /\ \E key \in Key, kind \in Kinds, w \in Window : RequestChange(b, q.version, key, kind, w)
<1> DEFINE b == form.id
           q == form.shown
           e == ExpireChanges(booking[b])
<1>1. /\ b \in Booking /\ RowOK(booking[b])
      /\ q.status = "NONE" => q = NoBooking
      /\ q.status # "NONE" => RowOK(q) /\ (booking[b] = q \/ q.version < booking[b].version)
      BY DEF FormInv, FormOK, RowsInv, AllRowsOK, SubmitChange
<1>2. PICK key \in Key, kind \in Kinds, w \in Window : RequestChange(b, q.version, key, kind, w)
      BY DEF SubmitChange, AnyChange, Kinds
<1>3. RowOK(e) /\ e.version = q.version /\ e.status # "NONE"
  <2>1. RowOK(e) /\ e.version = q.version
    <3>1. TypeOK /\ AllRowsOK
          BY DEF FormInv, RowsInv
    <3> DEFINE v == q.version
    <3>2. b \in Booking /\ RequestChange(b, v, key, kind, w)
          BY <1>1, <1>2
    <3> HIDE DEF v
    <3>3. RowOK(ExpireChanges(booking[b])) /\ ExpireChanges(booking[b]).version = v
          BY <3>1, <3>2, RequestMoves
    <3> QED
        BY <3>3 DEF v
  <2>2. e.status # "NONE"
        BY <1>2 DEF RequestChange
  <2> QED
      BY <2>1, <2>2
<1>4. booking[b] \in BookingType
      BY <1>1 DEF RowOK
<1>5. booking[b].version <= e.version /\ (e = booking[b] \/ booking[b].version < e.version)
      BY <1>4, ReadFields
<1>6. q.status # "NONE"
  <2>1. e.version # 0
        BY <1>3 DEF RowOK, ShapeOK
  <2>2. q.status = "NONE" => q.version = 0
        BY <1>1 DEF NoBooking
  <2> QED
      BY <1>3, <2>1, <2>2
<1>7. q.version \in Nat /\ booking[b].version \in Nat
      BY <1>1, <1>4, <1>6, NumberTypes DEF RowOK
<1>8. booking[b] = q /\ e = q
      BY <1>1, <1>3, <1>5, <1>6, <1>7
<1> QED
    BY <1>1, <1>2, <1>6, <1>8

\* The change that was added last costs what its minutes cost.
LEMMA RequestQuotes ==
    ASSUME TypeOK, AllRowsOK, NEW b \in Booking, NEW v, NEW key \in Key, NEW kind \in Kinds,
           NEW w \in Window, RequestChange(b, v, key, kind, w)
    PROVE  LET r == booking'[b]
               c == r.changes[Len(r.changes)]
           IN c.kind = "EXTEND" => c.fee = Quote(ExpireChanges(booking[b]), c.to)
<1> DEFINE e == ExpireChanges(booking[b])
           c == Requested(e, key, kind, w)
<1>1. RowOK(e)
      BY ExpireKeeps DEF AllRowsOK
<1>2. /\ Active(e)
      /\ IF kind = "EXTEND" THEN w.from = e.from /\ w.to > e.to ELSE w.to - w.from <= e.to - e.from
      BY DEF RequestChange, Eligible, ValidChange
<1>3. StoreReading(b, WithChange(e, c))
      BY DEF RequestChange, Requested
<1>4. c.fee = IF kind = "EXTEND" THEN Quote(e, w.to) ELSE 0
      BY DEF Requested
<1>5. c = Requested(e, key, kind, w) /\ e = ExpireChanges(booking[b])
      OBVIOUS
<1> HIDE DEF e, c
<1>6. /\ c \in ChangeType /\ c.status \in {"PENDING_APPROVAL", "APPROVED"}
      /\ c.kind = kind /\ c.to = w.to
      BY <1>1, <1>2, <1>5, RequestedFields
<1>7. booking'[b] = WithChange(e, c)
      BY <1>3 DEF StoreReading
<1>8. LET r == WithChange(e, c) IN r.changes[Len(r.changes)] = c
      BY <1>1, <1>6, TakenFields
<1> QED
    BY <1>4, <1>5, <1>6, <1>7, <1>8

\* Behind the form there is a resident like any other.
LEMMA ClientMoves == FormInv /\ [ClientsNext]_formVars => [Next]_vars
<1> SUFFICES ASSUME FormInv, [ClientsNext]_formVars
             PROVE  [Next]_vars
    OBVIOUS
<1>1. ASSUME NEW b \in Booking, OpenForm(b)
      PROVE  Next
  <2>1. Access({b} \cup Others(b)) /\ {b} \cup Others(b) \in SUBSET Booking
        BY <1>1 DEF OpenForm, Others
  <2> QED
      BY <2>1 DEF Next
<1>2. ASSUME SubmitBooking
      PROVE  Next
      BY <1>2, SubmitsBooking DEF Next
<1>3. ASSUME SubmitChange
      PROVE  Next
  <2>1. PICK key \in Key, kind \in Kinds, w \in Window :
            RequestChange(form.id, booking[form.id].version, key, kind, w)
        BY <1>3, SubmitsChange
  <2>2. form.id \in Booking /\ AnyChange(form.id, booking[form.id].version)
        BY <1>3, <2>1, SubmitsChange DEF AnyChange, Kinds
  <2> QED
      BY <2>2 DEF Next
<1>4. ASSUME CloseForm \/ UNCHANGED formVars
      PROVE  UNCHANGED vars
      BY <1>4 DEF CloseForm, formVars
<1> QED
    BY <1>1, <1>2, <1>3, <1>4 DEF ClientsNext

LEMMA FormInit == ClientsInit => FormInv
BY RowsInit DEF ClientsInit, FormInv, FormOK

LEMMA FormStep == FormInv /\ [ClientsNext]_formVars => FormInv'
<1> SUFFICES ASSUME FormInv, [ClientsNext]_formVars
             PROVE  FormInv'
    OBVIOUS
<1>1. [Next]_vars /\ RowsInv'
      BY ClientMoves, RowsStep DEF FormInv
<1>2. ASSUME NEW b \in Booking, OpenForm(b)
      PROVE  FormOK'
  <2> DEFINE e == ExpireChanges(booking[b])
  <2>1. booking' = [o \in Booking |-> IF o \in {b} \cup Others(b) THEN ExpireChanges(booking[o])
                                      ELSE booking[o]]
        BY <1>2 DEF OpenForm, Access
  <2>2. form'.id = b /\ form'.shown = e
        BY <1>2 DEF OpenForm
  <2>3. booking'[b] = e
        BY <2>1
  <2>4. RowOK(e)
        BY ExpireKeeps DEF FormInv, RowsInv, AllRowsOK
  <2>5. e.status = "NONE" => e = NoBooking
        BY <2>4 DEF RowOK, ShapeOK
  <2> HIDE DEF e
  <2> QED
      BY <2>2, <2>3, <2>4, <2>5 DEF FormOK
<1>3. ASSUME form' = NoForm
      PROVE  FormOK'
      BY <1>3 DEF FormOK
<1>4. ASSUME UNCHANGED form
      PROVE  FormOK'
  <2> DEFINE b == form.id
             q == form.shown
  <2> SUFFICES ASSUME form # NoForm
               PROVE  /\ b \in Booking
                      /\ q.status = "NONE" => q = NoBooking
                      /\ q.status # "NONE" => /\ RowOK(q)
                                              /\ booking'[b] = q \/ q.version < booking'[b].version
      BY <1>4 DEF FormOK
  <2>1. /\ b \in Booking
        /\ q.status = "NONE" => q = NoBooking
        /\ q.status # "NONE" => RowOK(q) /\ (booking[b] = q \/ q.version < booking[b].version)
        BY DEF FormInv, FormOK
  <2>2. RowOK(booking[b]) /\ RowStep(booking[b], booking'[b]) /\ RowOK(booking'[b])
    <3>1. Moves
          BY <1>1, NextMoves DEF FormInv, RowsInv
    <3> QED
        BY <1>1, <2>1, <3>1 DEF FormInv, RowsInv, AllRowsOK, Moves
  <2> HIDE DEF b, q
  <2>3. ASSUME q.status # "NONE"
        PROVE  booking'[b] = q \/ q.version < booking'[b].version
    <3>1. /\ q.version \in Nat /\ booking[b].version \in Nat /\ booking'[b].version \in Nat
          /\ RowOK(q) /\ (booking[b] = q \/ q.version < booking[b].version)
          BY <2>1, <2>2, <2>3, NumberTypes DEF RowOK
    <3>2. booking[b].status # "NONE"
      <4>1. booking[b].status = "NONE" => booking[b].version = 0
            BY <2>2 DEF RowOK, ShapeOK, NoBooking
      <4> QED
          BY <2>3, <3>1, <4>1
    <3>3. booking'[b] = booking[b] \/ booking[b].version < booking'[b].version
          BY <2>2, <3>2, StepUpdates DEF Keeps
    <3> QED
        BY <3>1, <3>3
  <2> QED
      BY <2>1, <2>3
<1>5. FormOK'
      BY <1>2, <1>3, <1>4
      DEF ClientsNext, SubmitBooking, SubmitChange, CloseForm, formVars
<1> QED
    BY <1>1, <1>5 DEF FormInv

LEMMA FormsAlways == ClientsSpec => []FormInv
BY FormInit, FormStep, PTL DEF ClientsSpec

\* The model with the slow resident is a case of the model without: whatever holds of
\* every resident holds of one whose form is out of date.
THEOREM SlowResidentIsAResident == ClientsSpec => Spec
<1>1. ClientsInit => Init
      BY DEF ClientsInit
<1>2. FormInv /\ [ClientsNext]_formVars => [Next]_vars
      BY ClientMoves
<1> QED
    BY <1>1, <1>2, FormsAlways, PTL DEF ClientsSpec, Spec

\* For any number of residents and bookings, however long the form stays open: what it
\* creates costs what it showed, and a change applies to the booking it showed, at the
\* fee it showed, although prices, bookings and the clock move meanwhile.
THEOREM FormsAcceptAsQuoted == ClientsSpec => AcceptedAsQuoted
<1> DEFINE Quoted ==
               LET q == form.shown
                   r == booking'[form.id]
                   c == r.changes[Len(r.changes)]
               IN IF q.status = "NONE"
                  THEN [fee |-> r.fee, deposit |-> r.deposit] = form.price
                  ELSE /\ q = ExpireChanges(booking[form.id])
                       /\ c.kind = "EXTEND" => c.fee = Quote(q, c.to)
           Accepted == form # NoForm /\ form' = NoForm /\ booking' # booking => Quoted
<1>1. ASSUME FormInv, SubmitBooking
      PROVE  Quoted
  <2>1. PICK r \in Resident, key \in Key \cup {NoKey}, w \in Window, n \in Attendees :
            form.id \in Booking /\ form.price = Price /\ Book(form.id, r, key, w, n, Price)
        BY <1>1, SubmitsBooking
  <2>2. booking'[form.id] = NewBooking(r, key, w, n)
        BY <1>1, <2>1, BookMoves DEF FormInv, RowsInv
  <2>3. NewBooking(r, key, w, n).fee = config.fee /\ NewBooking(r, key, w, n).deposit = config.deposit
        BY DEF NewBooking, NoBooking
  <2>4. form.shown.status = "NONE"
        BY <1>1 DEF SubmitBooking
  <2> QED
      BY <2>1, <2>2, <2>3, <2>4 DEF Price
<1>2. ASSUME FormInv, SubmitChange
      PROVE  Quoted
  <2> DEFINE b == form.id
             q == form.shown
  <2>1. b \in Booking /\ booking[b] = q /\ ExpireChanges(q) = q /\ q.status # "NONE"
        BY <1>2, SubmitsChange
  <2>2. PICK key \in Key, kind \in Kinds, w \in Window : RequestChange(b, q.version, key, kind, w)
        BY <1>2, SubmitsChange
  <2>3. TypeOK /\ AllRowsOK
        BY <1>2 DEF FormInv, RowsInv
  <2> DEFINE v == q.version
             r == booking'[b]
             c == r.changes[Len(r.changes)]
  <2>4. RequestChange(b, v, key, kind, w)
        BY <2>2
  <2> HIDE DEF v
  <2>5. c.kind = "EXTEND" => c.fee = Quote(ExpireChanges(booking[b]), c.to)
        BY <2>1, <2>3, <2>4, RequestQuotes
  <2> QED
      BY <2>1, <2>5
<1>3. FormInv /\ [ClientsNext]_formVars => [Accepted]_formVars
  <2> SUFFICES ASSUME FormInv, ClientsNext, form # NoForm, form' = NoForm, booking' # booking
               PROVE  Quoted
      OBVIOUS
  <2>1. SubmitBooking \/ SubmitChange
        BY DEF ClientsNext, OpenForm, CloseForm, vars
  <2> HIDE DEF Quoted
  <2> QED
      BY <1>1, <1>2, <2>1
<1>4. [][Accepted]_formVars => AcceptedAsQuoted
      BY DEF AcceptedAsQuoted
<1> QED
    BY <1>3, <1>4, FormsAlways, PTL DEF ClientsSpec

-----------------------------------------------------------------------------
(* What the booking page shows.                                             *)

FeesOf(q) == [c \in DOMAIN q.charges |-> q.charges[c].amount]

Standing(q) == {c \in DOMAIN q.charges : q.charges[c].payment # "VOIDED"}

\* Approving a change charges what the form showed for it.
LEMMA ChargedAsShown ==
    ASSUME NEW q, RowOK(q), NEW i \in PendingChanges(q)
    PROVE  LET c == q.changes[i]
               r == Charge(q, i, c)
           IN  r.fee + r.deposit + ApprovedExtensionFee(r) = TotalShown(q, c.kind, Span(c))
<1> DEFINE c == q.changes[i]
           r == Charge(q, i, c)
<1>1. /\ q \in BookingType /\ c \in ChangeType /\ i \in DOMAIN q.changes
      /\ c.kind \in {"EDIT", "EXTEND"} /\ c.fee \in Nat /\ c.status = "PENDING_APPROVAL"
      /\ q.fee \in Nat /\ q.deposit \in Nat
    <2>1. q \in BookingType /\ i \in DOMAIN q.changes /\ c.status = "PENDING_APPROVAL"
          BY DEF RowOK, PendingChanges
    <2>2. c \in ChangeType
          BY <2>1, PlaceTypes
    <2> QED
        BY <2>1, <2>2, NumberTypes DEF ChangeType
<1>2. ASSUME NEW s
      PROVE  ApprovedExtensionFee(s) = SumFunctionOnSet(FeesOf(s), Standing(s))
      BY DEF ApprovedExtensionFee, FeesOf, Standing
<1>3. TotalShown(q, c.kind, Span(c))
          = q.fee + q.deposit + ApprovedExtensionFee(q) + (IF c.kind = "EXTEND" THEN Quote(q, c.to) ELSE 0)
      BY <1>1 DEF TotalShown, AdditionalFee, Span
<1>4. IsFiniteSet(Standing(q)) /\ Counts(FeesOf(q), Standing(q)) /\ ApprovedExtensionFee(q) \in Nat
    <2>1. Len(q.charges) \in Nat /\ DOMAIN q.charges = 1..Len(q.charges)
          BY <1>1, PlaceTypes
    <2>2. IsFiniteSet(DOMAIN q.charges)
          BY <2>1, FS_Interval
    <2>3. \A k \in DOMAIN q.charges : q.charges[k].amount \in Nat
          BY <1>1, PlaceTypes DEF ChargeType
    <2>4. IsFiniteSet(Standing(q)) /\ Counts(FeesOf(q), Standing(q))
          BY <2>2, <2>3, FS_Subset DEF Standing, FeesOf, Counts
    <2> QED
        BY <2>4, <1>2, SumIsNat
<1>5. CASE c.kind # "EXTEND"
    <2>1. r = q
          BY <1>5 DEF Charge
    <2> HIDE DEF r
    <2> QED
        BY <1>1, <1>3, <1>4, <1>5, <2>1 DEF r
<1>6. CASE c.kind = "EXTEND"
    <2> DEFINE due == IF c.fee > 0 THEN "PENDING" ELSE "NOT_REQUIRED"
               pay == IF c.fee > 0 THEN "PENDING" ELSE q.payment
               d == [change |-> i, amount |-> c.fee, payment |-> due]
               ds == Append(q.charges, d)
               n == Len(q.charges) + 1
    <2>1. \A k \in DOMAIN q.charges : q.charges[k].change # i
        <3>1. i \notin Extensions(q)
              BY <1>1 DEF Extensions
        <3> QED
            BY <3>1 DEF RowOK, ChargesOK
    <2>2. r = [q EXCEPT !.charges = ds, !.payment = pay]
          BY <1>6, <2>1 DEF Charge
    <2>3. r.fee = q.fee /\ r.deposit = q.deposit /\ r.charges = ds
        <3> HIDE DEF ds, pay, r
        <3> QED
            BY <1>1, <2>2 DEF BookingType
    <2>4. d \in ChargeType /\ d.amount = c.fee /\ d.payment # "VOIDED"
        <3>1. i \in Nat
              BY <1>1, PlacesFinite
        <3> HIDE DEF c
        <3> QED
            BY <1>1, <3>1 DEF ChargeType, PaymentStatus
    <2>5. /\ n \in Nat /\ DOMAIN ds = DOMAIN q.charges \cup {n} /\ n \notin DOMAIN q.charges
          /\ ds[n] = d /\ \A k \in DOMAIN q.charges : ds[k] = q.charges[k]
        <3> HIDE DEF d
        <3> QED
            BY <1>1, <2>4, PlaceTypes
    <2> HIDE DEF ds, d, r, n
    <2>6. /\ Standing(r) = Standing(q) \cup {n} /\ n \notin Standing(q)
          /\ FeesOf(r)[n] = c.fee
          /\ \A k \in Standing(q) : FeesOf(r)[k] = FeesOf(q)[k]
          BY <2>3, <2>4, <2>5 DEF Standing, FeesOf
    <2>7. Counts(FeesOf(r), Standing(q) \cup {n})
          BY <1>1, <1>4, <2>6 DEF Counts
    <2>8. SumFunctionOnSet(FeesOf(r), Standing(q) \cup {n})
             = SumFunctionOnSet(FeesOf(r), Standing(q)) + FeesOf(r)[n]
          BY <1>4, <2>6, <2>7, SumWithNew
    <2>9. SumFunctionOnSet(FeesOf(r), Standing(q)) = SumFunctionOnSet(FeesOf(q), Standing(q))
          BY <1>4, <2>6, SumOfSame
    <2>10. ApprovedExtensionFee(r) = ApprovedExtensionFee(q) + c.fee
           BY <1>2, <2>6, <2>8, <2>9
    <2>11. c.fee = Quote(q, c.to)
        <3>1. /\ c.fee = ExtensionFee(q.fee, q.originalDuration, c.minutes)
              /\ c.minutes = c.to - q.to
              BY <1>1, <1>6 DEF RowOK, PricesOK
        <3> QED
            BY <3>1 DEF Quote
    <2> QED
        BY <1>1, <1>3, <1>4, <1>6, <2>3, <2>10, <2>11 DEF r
<1> QED
    BY <1>1, <1>5, <1>6

\* Whatever configurations, bookings and changes came before: what waits finds its room,
\* and a change, when it is approved, leaves its booking charged with the total that the
\* form showed for it (dayOptions, approvedExtensionCharge).
THEOREM WaitingAlwaysHonoured == Spec => []WaitingIsHonoured
<1>1. RowsInv => TotalsHold
    <2> SUFFICES ASSUME AllRowsOK, NEW b \in Booking, NEW i \in PendingChanges(booking[b])
                 PROVE  LET q == booking[b]
                            c == q.changes[i]
                            approved == Charge(q, i, c)
                        IN  approved.fee + approved.deposit + ApprovedExtensionFee(approved)
                                = TotalShown(q, c.kind, Span(c))
        BY DEF RowsInv, TotalsHold
    <2>1. RowOK(booking[b])
          BY DEF AllRowsOK
    <2> QED
        BY <2>1, ChargedAsShown
<1>2. PlainHoldCanBeApproved /\ TotalsHold => WaitingIsHonoured
      BY DEF WaitingIsHonoured
<1> QED
    BY <1>1, <1>2, RowsAlways, WaitingCanBeApproved, PTL

\* A booking is for somebody.
Attended == \A b \in Booking : booking[b].status # "NONE" => booking[b].attendees # 0

LEMMA NextAttended ==
    ASSUME RowsInv, Attended, [Next]_vars
    PROVE  Attended'
<1> SUFFICES ASSUME NEW b \in Booking, booking'[b].status # "NONE"
             PROVE  booking'[b].attendees # 0
    BY DEF Attended
<1>1. RowOK(booking[b]) /\ RowStep(booking[b], booking'[b])
      BY NextMoves DEF RowsInv, AllRowsOK, Moves
<1>2. CASE booking[b].status # "NONE"
    <2>1. Keeps(booking[b], booking'[b])
          BY <1>1, <1>2, StepUpdates
    <2> QED
        BY <1>2, <2>1 DEF Keeps, SameTerms, Attended
<1>3. CASE booking[b].status = "NONE"
    <2>1. PICK r \in Resident, key \in Key \cup {NoKey}, w \in Window, n \in Attendees :
              booking'[b] = NewBooking(r, key, w, n)
        <3>1. ~RowUpdate(booking[b], booking'[b])
              BY <1>1, <1>3, StepUpdates
        <3> QED
            BY <1>1, <3>1 DEF RowStep
    <2>2. TypeOK /\ n \in Nat /\ n # 0
          BY AmenityAssumption DEF RowsInv
    <2>3. NewBooking(r, key, w, n).attendees = n
          BY <2>2, NewBookingFields
    <2> QED
        BY <2>1, <2>2, <2>3
<1> QED
    BY <1>2, <1>3

\* The form asks for resident r and n attendees.
Asks(b, r, n, kind) ==
    /\ kind \in {"BOOK", "EDIT", "EXTEND"}
    /\ n \in Nat \ {0}
    /\ kind # "BOOK" => r = booking[b].resident /\ n = booking[b].attendees

LEMMA ValidFits ==
    ASSUME TypeOK, NEW b \in Booking, NEW r, NEW n, NEW kind, Asks(b, r, n, kind),
           NEW w, Valid(b, r, n, kind, w)
    PROVE  /\ Available(w, n, b, kind = "EXTEND", FALSE) /\ Bookable(b, r)
           /\ w \in config.hours /\ w \in Window
           /\ w.from \in Nat /\ w.to \in Nat /\ w.from < w.to /\ w = [from |-> w.from, to |-> w.to]
           /\ w.to - w.from >= config.minDuration /\ w.to - w.from <= config.maxDuration
           /\ n \in 1..config.capacity
           /\ kind = "EXTEND" => w.from = booking[b].from
<1>1. /\ Available(w, n, b, kind = "EXTEND", FALSE) /\ WithinLimit(r, b)
      /\ kind = "EXTEND" => w.from = booking[b].from
    <2>1. CASE kind = "BOOK"
          BY <2>1 DEF Valid
    <2>2. CASE kind # "BOOK"
          BY <2>2 DEF Valid, ValidChange, Asks
    <2> QED
        BY <2>1, <2>2
<1>2. /\ config.open /\ w \in config.hours /\ n <= config.capacity
      /\ w.to - w.from \in config.minDuration .. config.maxDuration
      BY <1>1 DEF Available
<1>3. /\ config.hours \subseteq Window /\ config.minDuration \in Nat /\ config.maxDuration \in Nat
      /\ config.capacity \in Nat
      BY ConfigTypes
<1>4. w.from \in Nat /\ w.to \in Nat /\ w.from < w.to /\ w = [from |-> w.from, to |-> w.to]
      BY <1>2, <1>3, WindowTypes
<1>5. n \in Nat \ {0}
      BY DEF Asks
<1>6. /\ w \in Window /\ n \in 1..config.capacity
      /\ w.to - w.from >= config.minDuration /\ w.to - w.from <= config.maxDuration
      BY <1>2, <1>3, <1>5
<1>7. Bookable(b, r)
      BY <1>1, <1>2 DEF Bookable
<1> QED
    BY <1>1, <1>2, <1>4, <1>6, <1>7, Zenon

\* Who can have a window can have the shorter stay from the same start, if the hours
\* include it.
LEMMA ShorterStay ==
    ASSUME TypeOK, NEW b \in Booking, NEW r, NEW n, NEW kind, Asks(b, r, n, kind), kind # "EXTEND",
           NEW w, Valid(b, r, n, kind, w), NEW v \in config.hours, v.from = w.from, v.to <= w.to,
           v.to - v.from >= config.minDuration
    PROVE  Valid(b, r, n, kind, v)
<1>1. /\ Available(w, n, b, FALSE, FALSE) /\ Bookable(b, r)
      /\ w.from \in Nat /\ w.to \in Nat /\ w.from < w.to
      /\ w.to - w.from <= config.maxDuration
      BY ValidFits
<1>2. /\ v.from \in Nat /\ v.to \in Nat /\ v.from < v.to /\ now \in Nat
      /\ config.turnaround \in Nat /\ config.minDuration \in Nat /\ config.maxDuration \in Nat
    <2>1. v \in Window
          BY ConfigTypes
    <2> QED
        BY <2>1, ConfigTypes, WindowTypes
<1>3. ASSUME NEW h, h.from \in Nat, h.to \in Nat, BufferedOverlap(h, v, config.turnaround)
      PROVE  BufferedOverlap(h, w, config.turnaround)
      BY <1>1, <1>2, <1>3 DEF BufferedOverlap
<1>4. NotBlocked(v)
    <2>1. \A k \in Block : block[k].from \in Nat /\ block[k].to \in Nat
          BY DEF TypeOK, BlockType
    <2>2. NotBlocked(w)
          BY <1>1 DEF Available
    <2> QED
        BY <1>3, <2>1, <2>2 DEF NotBlocked
<1>5. \A o \in Others(b) : Holds(o, v) => Holds(o, w)
    <2> SUFFICES ASSUME NEW o \in Others(b), NEW h \in HeldIntervals(Refreshed(o)),
                        BufferedOverlap(h, v, config.turnaround)
                 PROVE  BufferedOverlap(h, w, config.turnaround)
        BY DEF Holds
    <2>1. o \in Booking /\ Active(booking[o]) /\ booking[o] \in BookingType
          BY DEF Others, TypeOK
    <2>2. h.from \in Nat /\ h.to \in Nat
          BY <2>1, HeldIsRefreshed, HeldTypes
    <2> QED
        BY <1>3, <2>2
<1>6. EverybodyFits(v, n, b)
    <2>1. v.from .. v.to - 1 \subseteq w.from .. w.to - 1
          BY <1>1, <1>2
    <2>2. EverybodyFits(w, n, b)
          BY <1>1 DEF Available
    <2> QED
        BY <2>1, <2>2 DEF EverybodyFits
<1>7. Available(v, n, b, FALSE, FALSE)
    <2>1. /\ w.from > now /\ config.open /\ w.from >= now + config.notice /\ n <= config.capacity
          /\ config.exclusive => ~\E o \in Others(b) : Holds(o, w)
          BY <1>1 DEF Available
    <2>2. v.to > now /\ v.to - v.from \in config.minDuration .. config.maxDuration
          BY <1>1, <1>2, <2>1
    <2> QED
        BY <1>4, <1>5, <1>6, <2>1, <2>2 DEF Available
<1>8. CASE kind = "BOOK"
      BY <1>1, <1>7, <1>8 DEF Valid, Bookable
<1>9. CASE kind = "EDIT"
    <2>1. /\ w.to - w.from <= booking[b].to - booking[b].from
          /\ r = booking[b].resident /\ n = booking[b].attendees
          BY <1>9 DEF Valid, ValidChange, Asks
    <2>2. booking[b].to - booking[b].from \in Int
          BY NumberTypes DEF TypeOK
    <2>3. v.to - v.from <= booking[b].to - booking[b].from
          BY <1>1, <1>2, <2>1, <2>2
    <2> QED
        BY <1>1, <1>7, <1>9, <2>1, <2>3 DEF Valid, ValidChange, Bookable
<1> QED
    BY <1>8, <1>9 DEF Asks

\* A start and an end are offered for every window that is valid, and for no other.
LEMMA OfferedIsValid ==
    ASSUME TypeOK, NEW b \in Booking, NEW r, NEW n, NEW kind, Asks(b, r, n, kind)
    PROVE  Offered(b, r, n, kind) = {w \in Window : Valid(b, r, n, kind, w)}
<1>1. ASSUME NEW w \in Offered(b, r, n, kind)
      PROVE  w \in Window /\ Valid(b, r, n, kind, w)
    <2>1. PICK s \in Starts(b, r, n, kind) : \E e \in Ends(b, r, n, kind, s) : w = [from |-> s, to |-> e]
          BY DEF Offered
    <2>2. PICK e \in Ends(b, r, n, kind, s) : w = [from |-> s, to |-> e]
          BY <2>1
    <2>3. e \in EndsAfter(s) /\ Valid(b, r, n, kind, w)
          BY <2>2 DEF Ends
    <2> QED
        BY <2>3, ValidFits
<1>2. ASSUME NEW w \in Window, Valid(b, r, n, kind, w)
      PROVE  w \in Offered(b, r, n, kind)
    <2>1. /\ Bookable(b, r) /\ w \in config.hours
          /\ w.from \in Nat /\ w.to \in Nat /\ w.from < w.to
          /\ w.to - w.from >= config.minDuration /\ w.to - w.from <= config.maxDuration
          BY <1>2, ValidFits
    <2>2. w = [from |-> w.from, to |-> w.to]
          BY WindowTypes
    <2>3. kind = "EXTEND" => w.from = booking[b].from
          BY <1>2 DEF Valid, ValidChange
    <2> DEFINE s == w.from
               e == w.to
    <2>4. /\ Bookable(b, r) /\ w \in config.hours
          /\ s \in Nat /\ e \in Nat /\ s < e /\ w = [from |-> s, to |-> e]
          /\ e - s >= config.minDuration /\ e - s <= config.maxDuration
          /\ kind = "EXTEND" => s = booking[b].from
          BY <2>1, <2>2, <2>3
    <2>5. e \in EndsAfter(s)
          BY <2>4 DEF EndsAfter
    <2>6. e \in Ends(b, r, n, kind, s)
        <3> HIDE DEF s, e
        <3> QED
            BY <1>2, <2>4, <2>5 DEF Ends
    <2>7. s \in Starts(b, r, n, kind)
        <3>1. CASE kind = "EXTEND"
              BY <2>4, <3>1 DEF Starts
        <3>2. CASE kind # "EXTEND"
            <4> DEFINE long == {u \in EndsAfter(s) : u >= s + config.minDuration}
                       m == Min(long)
            <4>1. config.minDuration \in Nat /\ config.hours \subseteq Window
                  BY ConfigTypes
            <4>2. long \subseteq Nat /\ e \in long
                <5>1. \A u \in EndsAfter(s) : u \in Nat
                      BY <4>1, WindowTypes DEF EndsAfter
                <5> QED
                    BY <2>4, <2>5, <4>1, <5>1
            <4>3. m \in long /\ m <= e
                <5>1. \E x \in long : \A y \in long : x <= y
                    <6> HIDE DEF long
                    <6> QED
                        BY <4>2, LeastNumber
                <5>2. m \in long /\ \A y \in long : m <= y
                    <6> HIDE DEF long
                    <6> QED
                        BY <5>1 DEF Min
                <5> QED
                    BY <4>2, <5>2
            <4>4. m \in Nat /\ m >= s + config.minDuration /\ m \in EndsAfter(s)
                  BY <4>2, <4>3
            <4>5. PICK v \in config.hours : v.from = s /\ v.to = m
                <5> HIDE DEF m
                <5> QED
                    BY <4>4 DEF EndsAfter
            <4>6. v = [from |-> s, to |-> m] /\ v.to - v.from >= config.minDuration
                <5>1. v = [from |-> v.from, to |-> v.to]
                      BY <4>1, <4>5, WindowTypes
                <5> HIDE DEF m, s
                <5> QED
                    BY <2>4, <4>1, <4>4, <4>5, <5>1
            <4>7. v.from = w.from /\ v.to <= w.to
                  BY <4>3, <4>5
            <4>8. Valid(b, r, n, kind, v)
                  BY <1>2, <3>2, <4>5, <4>6, <4>7, ShorterStay
            <4>9. Valid(b, r, n, kind, [from |-> s, to |-> m])
                  BY <4>6, <4>8
            <4>10. s \in {u.from : u \in config.hours} /\ long # {}
                   BY <2>4, <4>2
            <4> HIDE DEF s
            <4> QED
                BY <2>4, <3>2, <4>9, <4>10 DEF Starts
        <3> QED
            BY <3>1, <3>2
    <2> HIDE DEF s, e
    <2> QED
        BY <2>4, <2>6, <2>7 DEF Offered
<1> QED
    BY <1>1, <1>2

LEMMA OffersFollow ==
    ASSUME TypeOK, NEW b \in Booking, NEW r, NEW n, NEW kind, Asks(b, r, n, kind)
    PROVE  OffersAreExact(b, r, n, kind)
<1> DEFINE valid == {w \in Window : Valid(b, r, n, kind, w)}
           offered == TimesShown(b, r, n, kind)
<1>1. Offered(b, r, n, kind) = valid
      BY OfferedIsValid
<1>2. offered = valid
    <2>1. CASE FieldTakes(n)
          BY <1>1, <2>1 DEF TimesShown
    <2>2. CASE ~FieldTakes(n)
        <3>1. \A w : ~Valid(b, r, n, kind, w)
              BY <2>2, ValidFits DEF FieldTakes
        <3> QED
            BY <2>2, <3>1 DEF TimesShown
    <2> QED
        BY <2>1, <2>2
<1>3. NoBookableTime(b, r, n, kind) <=> valid = {}
    <2>1. ASSUME NEW s \in Starts(b, r, n, kind), NEW e \in Ends(b, r, n, kind, s)
          PROVE  [from |-> s, to |-> e] \in Offered(b, r, n, kind)
          BY DEF Offered
    <2>2. ASSUME NEW w \in Offered(b, r, n, kind)
          PROVE  \E s \in Starts(b, r, n, kind) : Ends(b, r, n, kind, s) # {}
          BY DEF Offered
    <2>3. NoBookableTime(b, r, n, kind) <=> Offered(b, r, n, kind) = {}
        <3>1. ASSUME NoBookableTime(b, r, n, kind) PROVE Offered(b, r, n, kind) = {}
              BY <2>2, <3>1 DEF NoBookableTime
        <3>2. ASSUME Offered(b, r, n, kind) = {} PROVE NoBookableTime(b, r, n, kind)
              BY <2>1, <3>2 DEF NoBookableTime
        <3> QED
            BY <3>1, <3>2
    <2> QED
        BY <1>1, <2>3
<1>4. ASSUME NEW w \in valid
      PROVE  /\ Available(w, n, b, kind = "EXTEND", FALSE)
             /\ w.from \in Nat /\ w.to \in Nat /\ config.turnaround \in Nat
      BY ValidFits, ConfigTypes
<1>5. ASSUME NEW w \in valid, NEW h, h.from \in Nat, h.to \in Nat,
             ~BufferedOverlap(h, w, config.turnaround)
      PROVE  ~BufferedOverlap(w, Widened(h), 0)
    <2>1. Widened(h).from = h.from - config.turnaround /\ Widened(h).to = h.to + config.turnaround
          BY DEF Widened
    <2>2. w.from \in Nat /\ w.to \in Nat /\ config.turnaround \in Nat
          BY <1>4
    <2>3. ~(h.from < w.to + config.turnaround /\ w.from < h.to + config.turnaround)
          BY <1>5 DEF BufferedOverlap
    <2>4. ~(w.from < h.to + config.turnaround + 0 /\ h.from - config.turnaround < w.to + 0)
        <3> HIDE DEF valid
        <3> QED
            BY <1>5, <2>2, <2>3
    <2> QED
        BY <2>1, <2>4 DEF BufferedOverlap
<1>6. ASSUME NEW w \in valid, NEW c \in Closed PROVE ~BufferedOverlap(w, c, 0)
    <2>1. PICK k \in Block : block[k].status = "BLOCKED" /\ c = Widened(block[k])
          BY DEF Closed
    <2>2. block[k].from \in Nat /\ block[k].to \in Nat
          BY DEF TypeOK, BlockType
    <2>3. ~BufferedOverlap(block[k], w, config.turnaround)
          BY <1>4, <2>1 DEF Available, NotBlocked
    <2> HIDE DEF valid
    <2> QED
        BY <1>5, <2>1, <2>2, <2>3
<1>7. ASSUME config.exclusive, NEW w \in valid, NEW c \in Reserved(b)
      PROVE  ~BufferedOverlap(w, c, 0)
    <2>1. PICK o \in Others(b) : \E h \in HeldIntervals(Refreshed(o)) : c = Widened(h)
          BY DEF Reserved
    <2>2. PICK h \in HeldIntervals(Refreshed(o)) : c = Widened(h)
          BY <2>1
    <2>3. o \in Booking /\ Active(booking[o]) /\ booking[o] \in BookingType
          BY DEF Others, TypeOK
    <2>4. h.from \in Nat /\ h.to \in Nat
          BY <2>3, HeldIsRefreshed, HeldTypes
    <2>5. ~BufferedOverlap(h, w, config.turnaround)
          BY <1>4, <1>7 DEF Available, Holds
    <2> HIDE DEF valid
    <2> QED
        BY <1>5, <2>2, <2>4, <2>5
<1> HIDE DEF offered, valid
<1>8. /\ config.exclusive => \A w \in offered, taken \in TakenTimes(b) : ~BufferedOverlap(w, taken, 0)
      /\ \A w \in offered, c \in Closed : ~BufferedOverlap(w, c, 0)
      BY <1>2, <1>6, <1>7 DEF TakenTimes
<1> QED
    BY <1>2, <1>3, <1>8 DEF OffersAreExact, offered, valid

\* In every state, for every configuration, whoever books, moves or extends: the form
\* offers exactly the windows that the service would accept, says that no time can be
\* booked exactly when there is none, and offers nothing that it lists as taken
\* (dayOptions of amenities.service.ts, which searches by starts and shortest stays).
THEOREM FormsOfferWhatFits == Spec => []FormIsExact
<1>1. Init => Attended
      BY DEF Init, Attended, NoBooking
<1>2. RowsInv /\ Attended /\ [Next]_vars => Attended'
      BY NextAttended
<1>3. RowsInv /\ Attended => FormIsExact
    <2> SUFFICES ASSUME RowsInv, Attended, NEW b \in Booking
                 PROVE  IF booking[b].status = "NONE"
                        THEN \A r \in Resident, n \in Attendees : OffersAreExact(b, r, n, "BOOK")
                        ELSE \A kind \in {"EDIT", "EXTEND"} :
                                OffersAreExact(b, booking[b].resident, booking[b].attendees, kind)
        BY DEF FormIsExact
    <2>1. TypeOK
          BY DEF RowsInv
    <2>2. ASSUME NEW r \in Resident, NEW n \in Attendees PROVE OffersAreExact(b, r, n, "BOOK")
        <3>1. Asks(b, r, n, "BOOK")
              BY AmenityAssumption DEF Asks
        <3> QED
            BY <2>1, <3>1, OffersFollow
    <2>3. ASSUME booking[b].status # "NONE", NEW kind \in {"EDIT", "EXTEND"}
          PROVE  OffersAreExact(b, booking[b].resident, booking[b].attendees, kind)
        <3>1. booking[b].attendees \in Nat
              BY <2>1, NumberTypes DEF TypeOK
        <3>2. Asks(b, booking[b].resident, booking[b].attendees, kind)
              BY <2>3, <3>1 DEF Asks, Attended
        <3> QED
            BY <2>1, <3>2, OffersFollow
    <2> QED
        BY <2>2, <2>3
<1> QED
    BY <1>1, <1>2, <1>3, RowsAlways, PTL DEF Spec

===============================================================================
