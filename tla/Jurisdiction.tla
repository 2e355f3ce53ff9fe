------------------------------ MODULE Jurisdiction ------------------------------
(****************************************************************************)
(* Who may see and decide what a resident filed, while the hierarchy of     *)
(* Communities moves underneath: the location and authority checks of       *)
(* complaints.service.ts and paid-services.service.ts, the role guard in    *)
(* front of them, and the dashboard and reports that count over both.       *)
(*                                                                          *)
(* A ticket is a complaint or a paid-service request. It keeps the place of *)
(* its resident as it was filed. What happens to it afterwards is in        *)
(* Complaints and PaidServices; workers, who see what is assigned to them,  *)
(* are there too, so an account associated with a community is here its     *)
(* Community Admin. Super Admins see everything that can be read. A         *)
(* resident's home is the associated apartment; leases are in Leases.       *)
(****************************************************************************)
EXTENDS Communities

CONSTANTS
    Ticket,
    NoTicket

VARIABLE ticket

jurisdictionVars == <<vars, ticket>>

\* An APARTMENT complaint is routed and read like a TOWER complaint.
ComplaintType == {"TOWER", "COMMUNITY"}

\* The stores hold rows of their types.
TicketTypeOK ==
    \A k \in Ticket :
        \/ ticket[k] = NoTicket
        \/ /\ ticket[k].kind \in {"COMPLAINT", "SERVICE"}
           /\ ticket[k].type \in ComplaintType
           /\ ticket[k].resident \in User
           /\ ticket[k].responsible \in User \cup {NoUser}

JurisdictionInit == Init /\ ticket = [k \in Ticket |-> NoTicket]

-----------------------------------------------------------------------------
(* Roles, and the location a ticket keeps. *)

RoleOf(u) ==
    CASE place[u] \in Community -> "COMMUNITY_ADMIN"
      [] place[u] \in Tower     -> "TOWER_REPRESENTATIVE"
      [] place[u] \in Apartment -> "RESIDENT"
      [] OTHER                  -> "NONE"

\* RolesGuard.canActivate for a handler with required roles
CanActivate(roles, u) == RoleOf(u) \in roles

\* residentLocation: apartment, floor, tower and community of a resident
Location(a) ==
    [apartment |-> a, floor |-> apartment[a], tower |-> floor[apartment[a]],
     community |-> CommunityOfApartment(a)]

\* assertComplaintCommunity: the apartment exists and is where it was. It throws otherwise.
LocationMatches(t) ==
    LET a == t.at.apartment IN IsApartment(a) /\ t.at = Location(a)

\* resolveAuthority: the first account found, in an order the model leaves open
Authorities(type, at) ==
    {u \in User : place[u] = IF type = "COMMUNITY" THEN at.community ELSE at.tower}

\* Mutant: the representative the complaint was routed to keeps it.
RoutedAuthority(t) == IF t.type = "TOWER" THEN {t.responsible} ELSE {}

\* currentTowerAuthority, as a set of at most one account
CurrentTowerAuthority(t) ==
    IF t.type # "TOWER" THEN {}
    ELSE IF place[t.responsible] = t.at.tower THEN {t.responsible}
    ELSE {u \in User : place[u] = t.at.tower}

CanViewComplaint(u, t) ==
    /\ LocationMatches(t)
    /\ CASE RoleOf(u) = "COMMUNITY_ADMIN"      -> place[u] = t.at.community
         [] RoleOf(u) = "RESIDENT"             -> t.resident = u
         [] RoleOf(u) = "TOWER_REPRESENTATIVE" -> t.type = "TOWER" /\ place[u] = t.at.tower
         [] OTHER                              -> FALSE

CanActAsAuthority(u, t) ==
    /\ LocationMatches(t)
    /\ CASE RoleOf(u) = "COMMUNITY_ADMIN" ->
              t.type = "COMMUNITY" /\ t.responsible = u /\ place[u] = t.at.community
         [] RoleOf(u) = "TOWER_REPRESENTATIVE" -> u \in CurrentTowerAuthority(t)
         [] OTHER -> FALSE

\* toViewModel: who the complaint shows as responsible
ShownAuthority(t) ==
    IF CurrentTowerAuthority(t) # {} THEN CurrentTowerAuthority(t) ELSE {t.responsible}

\* actorCommunity of paid-services.service.ts, which throws for a tower that is gone
ActorIn(u, c) ==
    /\ RoleOf(u) # "NONE"
    /\ Resolves(place[u])
    /\ CommunityOf(place[u]) = c

CanViewRequest(u, t) ==
    /\ ActorIn(u, t.at.community)
    /\ CASE RoleOf(u) = "COMMUNITY_ADMIN"      -> TRUE
         [] RoleOf(u) = "TOWER_REPRESENTATIVE" -> place[u] = t.at.tower
         [] RoleOf(u) = "RESIDENT"             -> t.resident = u

\* authority of paid-services.service.ts
CanAuthorizeRequest(u, t) == RoleOf(u) # "RESIDENT" /\ CanViewRequest(u, t)

Complaints == {k \in Ticket : ticket[k] # NoTicket /\ ticket[k].kind = "COMPLAINT"}
Requests == {k \in Ticket : ticket[k] # NoTicket /\ ticket[k].kind = "SERVICE"}

-----------------------------------------------------------------------------
(* Handlers. *)

FileComplaint(k, u, type) ==
    /\ ticket[k] = NoTicket
    /\ CanActivate({"RESIDENT"}, u)
    /\ \E v \in Authorities(type, Location(place[u])) :
          ticket' = [ticket EXCEPT ![k] =
                        [kind |-> "COMPLAINT", type |-> type, resident |-> u,
                         responsible |-> v, at |-> Location(place[u])]]
    /\ UNCHANGED vars

\* createRequest; which services are offered is in PaidServices.
CreateRequest(k, u) ==
    /\ ticket[k] = NoTicket
    /\ CanActivate({"RESIDENT"}, u)
    /\ Active(CommunityOf(place[u]))
    /\ ticket' = [ticket EXCEPT ![k] =
                     [kind |-> "SERVICE", type |-> "TOWER", resident |-> u,
                      responsible |-> NoUser, at |-> Location(place[u])]]
    /\ UNCHANGED vars

DeleteComplaint(k, u) ==
    /\ k \in Complaints
    /\ CanActivate({"COMMUNITY_ADMIN"}, u)
    /\ CanViewComplaint(u, ticket[k])
    /\ ticket' = [ticket EXCEPT ![k] = NoTicket]
    /\ UNCHANGED vars

\* Ids are UUIDs: one that a ticket names is not given to a new row.
IdsAreNew ==
    \A k \in Complaints \cup Requests :
        LET t == ticket[k] IN
        /\ ~IsApartment(t.at.apartment) => apartment'[t.at.apartment] = NoParent
        /\ ~IsFloor(t.at.floor) => floor'[t.at.floor] = NoParent
        /\ \A u \in {t.resident, t.responsible} \ {NoUser} :
              place[u] = NoParent => place'[u] = NoParent

HierarchyStep == Next /\ IdsAreNew /\ UNCHANGED ticket

JurisdictionNext ==
    \/ HierarchyStep
    \/ \E k \in Ticket, u \in User :
          \/ \E type \in ComplaintType : FileComplaint(k, u, type)
          \/ CreateRequest(k, u)
          \/ DeleteComplaint(k, u)

JurisdictionSpec == JurisdictionInit /\ [][JurisdictionNext]_jurisdictionVars
-----------------------------------------------------------------------------
(* What the dashboard and the reports count. *)

FloorsOf(c) == {f \in Floor : IsFloor(f) /\ floor[f] \in TowersOf(c)}

\* getSummary of a Community Admin; getOverview counts the same complaints again.
Summary(c) ==
    [towers |-> TowersOf(c),
     floors |-> FloorsOf(c),
     apartments |-> {a \in Apartment : apartment[a] \in FloorsOf(c)},
     complaints |-> {k \in Complaints : LocationMatches(ticket[k]) /\ ticket[k].at.community = c},
     users |-> {u \in User : ActorIn(u, c)}]

\* Whoever decides about a complaint is, at that time, the representative of the
\* tower or an admin of the community its apartment lies in, can read it and is the
\* account it shows; while the tower has a representative, one of the two can be
\* found. Towers, floors, apartments and people may all have moved since it was filed.
DecidedWhereItIs ==
    \A k \in Complaints :
        LET t == ticket[k]
            Deciding == {u \in User : CanActAsAuthority(u, t)} IN
        /\ \A u \in Deciding :
              /\ IsApartment(t.at.apartment)
              /\ place[u] \in {floor[apartment[t.at.apartment]],
                               CommunityOfApartment(t.at.apartment)}
              /\ CanViewComplaint(u, t)
              /\ u \in ShownAuthority(t)
        /\ LocationMatches(t) /\ t.type = "TOWER" /\ Authorities("TOWER", t.at) # {} =>
              Cardinality(Deciding) = 1

\* Every complaint a dashboard counts lies in an apartment, on a floor and in a
\* tower that it counts too.
CountedWhereItIs ==
    \A c \in Community : \A k \in Summary(c).complaints :
        /\ ticket[k].at.apartment \in Summary(c).apartments
        /\ ticket[k].at.floor \in Summary(c).floors
        /\ ticket[k].at.tower \in Summary(c).towers

\* Decisions and counts follow the hierarchy as it is, not as it was at filing.
FollowsHierarchy == DecidedWhereItIs /\ CountedWhereItIs

\* The complaints can be listed. It does not hold: findAllForActor
\* (complaints.service.ts:29) asserts the location of every complaint before it
\* filters, so that one complaint whose apartment, floor or tower was moved, or whose
\* apartment was deleted, makes the list, the dashboard and the reports of everybody
\* fail, in the other communities too.
BoardReadable == \A k \in Complaints : LocationMatches(ticket[k])

\* A community complaint can be decided while its community has an admin, as
\* docs/ACTOR_PERMISSIONS.md:19 routes it to "the Community Admin of the complaint
\* community". It does not hold: the admin it was routed to is the only one who may act
\* (complaints.service.ts:234), also after leaving the community.
CommunityComplaintDecidable ==
    \A k \in Complaints :
        LET t == ticket[k] IN
        LocationMatches(t) /\ t.type = "COMMUNITY" /\ Authorities("COMMUNITY", t.at) # {} =>
            \E u \in User : CanActAsAuthority(u, t)

\* Residents can read their requests. It does not hold: a request stays with the
\* community it was filed in, its resident moves with the tower.
RequesterReads ==
    \A k \in Requests :
        IsResident(ticket[k].resident) => CanViewRequest(ticket[k].resident, ticket[k])
=============================================================================
