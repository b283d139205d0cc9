--------------------------- MODULE Authentication ---------------------------
(***************************************************************************)
(* Authentication of C01 over the local identity authority: principals     *)
(* from verified tokens, memberships and service identities resolved from  *)
(* them and validated again at every use.  The authority revokes,          *)
(* reactivates and renumbers between any two calls; a lookup is one port   *)
(* call, after which a call reads nothing more, so each call is one step.  *)
(* Issued objects are compared by identity in the code; here a principal   *)
(* stands for every object made from its token.                            *)
(***************************************************************************)
EXTENDS Integers, FiniteSets

CONSTANTS Token,      \* projections: [credential, subject, form, authenticated, issued, expires]
          Credential, \* the authority's credentials: [credential, subject]
          Grant,      \* its memberships: [subject, tenant, expires]
          Service,    \* its services: [subject, issued, expires]
          Presented,  \* service projections callers present: the same fields
          ServerTime, \* the server times callers pass
          Skew,       \* clockSkewSeconds
          MaxVouched, \* bound: memberships resolved
          MaxEpoch,   \* bound: epochs a membership is given
          MaxRevision \* bound: how often the authority changes

ServiceProjection(s) ==
    /\ DOMAIN s = {"subject", "issued", "expires"}
    /\ s.issued \in Nat /\ s.expires \in Nat

\* Times are seconds.
AuthAssumption ==
    /\ IsFiniteSet(Grant)
    /\ ServerTime \subseteq Nat /\ MaxEpoch \in Nat
    /\ \A t \in Token : t.issued \in Nat /\ t.expires \in Nat
    /\ \A g \in Grant : g.expires \in Nat
    /\ \A s \in Service \union Presented : ServiceProjection(s)

VARIABLES authority,  \* the authority's records and its revision
          principals, \* issuedPrincipals, each by its token
          vouched,    \* issuedMemberships
          attested,   \* issuedServices
          verdict,    \* the answer of the last call, if not a denial
          refused     \* what was denied for a reason that lies with the authority

authVars == <<authority, principals, vouched, attested, verdict, refused>>

NoVerdict == [of |-> {}, now |-> 0, until |-> 1]

AuthInit ==
    /\ authority = [revision |-> 1,
                    credential |-> [c \in Credential |-> [revoked |-> FALSE, validAfter |-> 0]],
                    grant |-> [g \in Grant |-> [revoked |-> FALSE, epoch |-> 1]],
                    retired |-> {}]
    /\ principals = {} /\ vouched = {} /\ attested = {}
    /\ verdict = NoVerdict
    /\ refused = {}

---------------------------------------------------------------------------
\* createLocalIdentityAuthorityFixture.
Advance(to) ==
    /\ authority.revision < MaxRevision
    /\ authority' = [to EXCEPT !.revision = @ + 1]

\* Mutant: the revision stays.
ReactivateCredentialQuietly(c, seconds) ==
    /\ authority.revision < MaxRevision
    /\ authority' = [authority EXCEPT !.credential[c] = [revoked |-> FALSE, validAfter |-> seconds]]

ReactivateCredential(c, seconds) ==
    Advance([authority EXCEPT !.credential[c] = [revoked |-> FALSE, validAfter |-> seconds]])

RevokeCredential(c) == Advance([authority EXCEPT !.credential[c].revoked = TRUE])

RevokeGrant(g) == Advance([authority EXCEPT !.grant[g].revoked = TRUE])

SetMembershipEpoch(g, epoch) == Advance([authority EXCEPT !.grant[g].epoch = epoch])

\* The revision of the principals' authority does not move.
RevokeService(s) == authority' = [authority EXCEPT !.retired = @ \union {s}]

Administer ==
    /\ \/ \E c \in Credential : RevokeCredential(c)
       \/ \E c \in Credential, seconds \in ServerTime : ReactivateCredential(c, seconds)
       \/ \E g \in Grant : RevokeGrant(g)
       \/ \E g \in Grant, epoch \in 1..MaxEpoch : SetMembershipEpoch(g, epoch)
       \/ \E s \in Service \ authority.retired : RevokeService(s)
    /\ verdict' = NoVerdict
    /\ UNCHANGED <<principals, vouched, attested, refused>>

---------------------------------------------------------------------------
\* A canonical projection of this issuer and client for an access token, times in order.
WellFormedToken(t) ==
    t.form = "access" /\ t.authenticated <= t.issued /\ t.issued < t.expires

InWindow(t, now) ==
    /\ t.issued <= now + Skew
    /\ t.authenticated <= now + Skew
    /\ t.expires > now - Skew

Authenticate(t, now) ==
    /\ WellFormedToken(t)
    /\ InWindow(t, now)
    /\ principals' = principals \union {t}
    /\ verdict' = NoVerdict
    /\ UNCHANGED <<authority, vouched, attested, refused>>

\* What lookupIdentityAuthority answers for the key of a principal: its credential, if any.
CredentialOf(t) == {c \in Credential : c.credential = t.credential /\ c.subject = t.subject}

IdentityMatches(t) == {g \in Grant : g.subject = t.subject}

Matching(t, hint) == {g \in IdentityMatches(t) : hint \in {"none", g.tenant}}

Lesser(a, b) == IF a < b THEN a ELSE b

Membership(t, g) ==
    [principal |-> t, revision |-> authority.revision, grant |-> g, tenant |-> g.tenant,
     epoch |-> authority.grant[g].epoch, until |-> Lesser(t.expires, g.expires)]

PrincipalLive(t, now) == t.expires > now

CredentialHolds(t) ==
    \E c \in CredentialOf(t) : /\ ~authority.credential[c].revoked
                               /\ t.issued >= authority.credential[c].validAfter

\* The memberships resolved: one, or none if a check after the lookup fails.
ResolvedMemberships(t, hint, epoch, now) ==
    IF CredentialHolds(t) /\ Cardinality(Matching(t, hint)) = 1
      THEN {Membership(t, g) : g \in {g \in Matching(t, hint) :
               /\ ~authority.grant[g].revoked
               /\ g.expires > now
               /\ epoch \in {0, authority.grant[g].epoch}}}
      ELSE {}

\* resolveMembership, answered; an epoch of 0 stands for none expected.
Resolve(t, hint, epoch, now) ==
    /\ Cardinality(vouched) < MaxVouched
    /\ t \in principals
    /\ PrincipalLive(t, now)
    /\ \E m \in ResolvedMemberships(t, hint, epoch, now) :
          /\ vouched' = vouched \union {m}
          /\ verdict' = [of |-> {m}, now |-> now, until |-> t.expires]
    /\ UNCHANGED <<authority, principals, attested, refused>>

SameMembership(m, n) == m = n

\* validateMembership, whose candidate stays with it.  A lookup that throws, or whose answer does not parse, denies without
\* saying anything of the membership; so does a time past an end.
Validate(m, now) ==
    /\ m \in vouched
    /\ PrincipalLive(m.principal, now)
    /\ LET found == ResolvedMemberships(m.principal, m.tenant, m.epoch, now)
           same == {n \in found : SameMembership(m, n)}
       IN  \/ /\ same # {}
              /\ verdict' = [of |-> {m}, now |-> now, until |-> m.principal.expires]
              /\ UNCHANGED refused
           \/ /\ same = {}
              /\ refused' = IF m.grant.expires > now THEN refused \union {m} ELSE refused
              /\ verdict' = NoVerdict
    /\ UNCHANGED <<authority, principals, vouched, attested>>

---------------------------------------------------------------------------
\* currentService: the authority knows the service with these times, and did not revoke it.
CurrentService(s, now) == s \in Service /\ s \notin authority.retired /\ s.expires > now

AuthenticateService(s, now) ==
    /\ s.issued < s.expires /\ s.issued <= now /\ s.expires > now
    /\ CurrentService(s, now)
    /\ attested' = attested \union {s}
    /\ verdict' = [of |-> {s}, now |-> now, until |-> s.expires]
    /\ UNCHANGED <<authority, principals, vouched, refused>>

ValidateService(s, now) ==
    /\ s \in attested
    /\ IF CurrentService(s, now)
         THEN verdict' = [of |-> {s}, now |-> now, until |-> s.expires] /\ UNCHANGED refused
         ELSE /\ refused' = IF s \in authority.retired THEN refused \union {s} ELSE refused
              /\ verdict' = NoVerdict
    /\ UNCHANGED <<authority, principals, vouched, attested>>

Hints == {"none"} \union {g.tenant : g \in Grant}

AuthNext ==
    \/ Administer
    \/ \E now \in ServerTime :
          \/ \E t \in Token : Authenticate(t, now)
          \/ \E t \in principals, hint \in Hints, epoch \in 0..MaxEpoch : Resolve(t, hint, epoch, now)
          \/ \E m \in vouched : Validate(m, now)
          \/ \E s \in Presented : AuthenticateService(s, now)
          \/ \E s \in attested : ValidateService(s, now)

AuthSpec == AuthInit /\ [][AuthNext]_authVars

---------------------------------------------------------------------------
\* What the authority once refused, a membership or a service, is never good again, whatever is
\* reactivated or renumbered later and although its principal may resolve a new membership; and
\* the skew that lets a late token authenticate never stretches what is resolved from it.
RefusedForGood ==
    /\ verdict.of \intersect refused = {}
    /\ verdict.now < verdict.until
=============================================================================
