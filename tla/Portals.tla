------------------------------- MODULE Portals -------------------------------
(***************************************************************************)
(* Which customer a request works for: common/tenant.middleware.ts,        *)
(* common/auth.guard.ts, tenantDb of packages/db, and the administrator's  *)
(* actions on portals and their domains.                                   *)
(*                                                                         *)
(* A request reads the portal, then the user's row, and then runs its      *)
(* handler; portals and domains change in between.  Of a tenant there is   *)
(* one user, who is named as the tenant, and the platform's administrator  *)
(* is the user of the main site.  What else a user's row says when the     *)
(* guard reads it is left open: SignIn and the staff change it at any      *)
(* time.  Rows stand for those of all models that carry a tenantId.        *)
(***************************************************************************)
EXTENDS Integers, FiniteSets

CONSTANTS
  Portal,         \* the tenants
  Main,           \* the main site, which is no tenant's
  Domain,         \* names that may become custom domains
  UnknownIsMain,  \* unknownHostIsMainSite
  Datum,          \* rows of the tenants' models
  Visit,          \* customers' requests in progress
  Errand          \* the administrator's requests in progress

ASSUME PortalsAssumption ==
  IsFiniteSet(Portal) /\ Main \notin Portal /\ Portal \cap Domain = {} /\ UnknownIsMain \in BOOLEAN

VARIABLES
  portal,  \* the Tenant rows
  owner,   \* whose each row is; Main where there is none
  visit,   \* what a request has read
  errand,  \* what a request of the administrator has read
  served   \* whose rows the last query has read or written, and for whom

portalsVars == <<portal, owner, visit, errand, served>>

NoDomain == "none"
Away == [at |-> "away"]
NoneServed == [to |-> Main, whose |-> {}]

PortalsInit ==
  /\ portal = [t \in Portal |-> [domain |-> NoDomain, verified |-> FALSE, status |-> "ACTIVE"]]
  /\ owner = [d \in Datum |-> Main]
  /\ visit = [v \in Visit |-> Away]
  /\ errand = [e \in Errand |-> Away]
  /\ served = NoneServed

-----------------------------------------------------------------------------
(* A request *)

\* Those that answer at a host: a subdomain is named as its tenant.
AnswersAt(host) ==
  {t \in Portal : t = host \/ (portal[t].domain = host /\ portal[t].verified)}

ComesTo(v, t, suspended, user) ==
  visit' = [visit EXCEPT ![v] = [at |-> "guard", tenant |-> t, suspended |-> suspended, user |-> user]]

\* The middleware; the request carries a token of some user.
Arrive(v, host, user) ==
  /\ visit[v] = Away
  /\ \/ AnswersAt(host) = {} /\ (host = Main \/ UnknownIsMain) /\ ComesTo(v, Main, FALSE, user)
     \/ \E t \in AnswersAt(host) :
          /\ portal[t].status # "CLOSED"
          /\ ComesTo(v, t, portal[t].status = "SUSPENDED", user)
  /\ served' = NoneServed
  /\ UNCHANGED <<portal, owner, errand>>

\* Routes: whether they change something, concern the bill, and for which roles they are.
Route == [changes : BOOLEAN, billing : BOOLEAN,
          roles : {{}, {"TENANT_ADMIN"}, {"AGENT"}, {"TENANT_ADMIN", "AGENT"}, {"SUPER_ADMIN"}}]
RolesOf(user) == IF user = Main THEN {"SUPER_ADMIN"} ELSE {"TENANT_ADMIN", "AGENT"}

\* (mutant) a good token opens any portal
AllowedAnywhere(q, role, route) ==
  /\ q.suspended => ~route.changes \/ route.billing
  /\ route.roles # {} => role \in route.roles
  /\ role = "AGENT" => "AGENT" \in route.roles

\* The guard's checks, of a token that is still good.
Allowed(q, role, route) ==
  /\ q.user = q.tenant
  /\ q.suspended => ~route.changes \/ route.billing
  /\ route.roles # {} => role \in route.roles
  /\ role = "AGENT" => "AGENT" \in route.roles

Enter(v) ==
  /\ visit[v].at = "guard"
  /\ \E role \in RolesOf(visit[v].user), route \in Route :
       /\ Allowed(visit[v], role, route)
       /\ visit' = [visit EXCEPT ![v] =
            [at |-> "handler", tenant |-> @.tenant, user |-> @.user, changes |-> route.changes]]
  /\ served' = NoneServed
  /\ UNCHANGED <<portal, owner, errand>>

\* A request is refused, or answered.
Leave(v) ==
  /\ visit[v] # Away
  /\ visit' = [visit EXCEPT ![v] = Away]
  /\ served' = NoneServed
  /\ UNCHANGED <<portal, owner, errand>>

-----------------------------------------------------------------------------
(* tenantDb: what a handler's query reaches, whatever rows it asks for *)

Scoped(t, wanted) == {d \in wanted : owner[d] = t}

\* WHERE_OPS and UNIQUE_WHERE_OPS that read or update; delete and deleteMany.
Find(t, wanted, whose) == owner' = owner /\ whose = {owner[d] : d \in Scoped(t, wanted)}
Delete(t, wanted, whose) ==
  /\ owner' = [d \in Datum |-> IF d \in Scoped(t, wanted) THEN Main ELSE owner[d]]
  /\ whose = {owner[d] : d \in Scoped(t, wanted)}

\* create, createMany: stamped with the tenant.
Create(t, new, whose) ==
  /\ \A d \in new : owner[d] = Main
  /\ owner' = [d \in Datum |-> IF d \in new THEN t ELSE owner[d]]
  /\ whose = {owner'[d] : d \in new}

\* upsert: a row that is another tenant's is not found, and its name is taken.
Upsert(t, d, whose) ==
  /\ owner[d] \in {t, Main}
  /\ owner' = [owner EXCEPT ![d] = t]
  /\ whose = {owner'[d]}

\* A query of a portal's handler.
Query(v) ==
  /\ visit[v].at = "handler" /\ visit[v].tenant # Main
  /\ \E whose \in SUBSET Portal :
       /\ LET t == visit[v].tenant
          IN  \/ \E wanted \in SUBSET Datum :
                   \/ Find(t, wanted, whose)
                   \/ visit[v].changes /\ (Delete(t, wanted, whose) \/ Create(t, wanted, whose))
              \/ visit[v].changes /\ \E d \in Datum : Upsert(t, d, whose)
       /\ served' = [to |-> visit[v].user, whose |-> whose]
  /\ UNCHANGED <<portal, visit, errand>>

-----------------------------------------------------------------------------
(* The administrator *)

Administers(e, at, next) ==
  /\ errand[e].at = at
  /\ errand' = [errand EXCEPT ![e] = next]
  /\ served' = NoneServed
  /\ UNCHANGED <<owner, visit>>

Changed(t, row) == portal' = [portal EXCEPT ![t] = row]

\* setDomain looks for another account with the domain ...
AskDomain(e, t, d) ==
  /\ \A u \in Portal \ {t} : portal[u].domain # d
  /\ Administers(e, "away", [at |-> "set", tenant |-> t, domain |-> d])
  /\ UNCHANGED portal

\* ... and sets it, which the database refuses when another account has got it meanwhile.
SetDomain(e) ==
  /\ Administers(e, "set", Away)
  /\ LET t == errand[e].tenant
         d == errand[e].domain
     IN  IF \E u \in Portal \ {t} : portal[u].domain = d THEN UNCHANGED portal
         ELSE Changed(t, [portal[t] EXCEPT !.domain = d, !.verified = FALSE])

\* verifyDomain reads the domain, asks for its records, ...
AskRecords(e, t) ==
  /\ portal[t].domain # NoDomain
  /\ Administers(e, "away", [at |-> "verify", tenant |-> t])
  /\ UNCHANGED portal

\* ... and marks the account's domain, by now perhaps another one or none.
VerifyDomain(e) ==
  /\ Administers(e, "verify", Away)
  /\ UNCHANGED portal \/ Changed(errand[e].tenant, [portal[errand[e].tenant] EXCEPT !.verified = TRUE])

RemoveDomain(e, t) ==
  /\ Administers(e, "away", Away)
  /\ Changed(t, [portal[t] EXCEPT !.domain = NoDomain, !.verified = FALSE])

SetStatus(e, t, status) ==
  /\ Administers(e, "away", Away)
  /\ Changed(t, [portal[t] EXCEPT !.status = status])

PortalsNext ==
  \/ \E v \in Visit :
       \/ \E host \in Portal \cup Domain \cup {Main}, user \in Portal \cup {Main} : Arrive(v, host, user)
       \/ Enter(v) \/ Query(v) \/ Leave(v)
  \/ \E e \in Errand :
       \/ SetDomain(e) \/ VerifyDomain(e)
       \/ \E t \in Portal :
            \/ AskRecords(e, t) \/ RemoveDomain(e, t)
            \/ \E d \in Domain : AskDomain(e, t, d)
            \/ \E status \in {"ACTIVE", "SUSPENDED", "CLOSED"} : SetStatus(e, t, status)

PortalsSpec == PortalsInit /\ [][PortalsNext]_portalsVars

-----------------------------------------------------------------------------
(* A customer's user reads and writes that customer's rows and no others,   *)
(* whichever host the request came to and whatever becomes of hosts and     *)
(* accounts between its steps ("an Acme token can never be used on another  *)
(* customer's portal", auth.guard.ts:11, and tenantDb's "can only see and   *)
(* write one tenant's rows", packages/db/src/index.ts:49).                  *)
TenantsApart == served.whose \subseteq {served.to}
=============================================================================
