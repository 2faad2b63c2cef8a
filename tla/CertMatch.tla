------------------------------ MODULE CertMatch ------------------------------
(***************************************************************************)
(* Which certificate covers a route host: canCertDomainsSuiteForHost and   *)
(* the certifications.find in renderCertificationStatus                    *)
(* (src/frontend/src/forms/Route/index.tsx).                               *)
(*                                                                         *)
(* A domain or host string is kept as the sequence of its labels, i.e. as  *)
(* what split(".") returns; a label is a member of the constant Labels and *)
(* toLowerCase acts on it through the constant function Lower.  One        *)
(* evaluation is a single step from an arbitrary input to its result, so   *)
(* every bounded input is checked against the reference in §4.1 of the     *)
(* specification.                                                          *)
(***************************************************************************)
EXTENDS Naturals, Sequences, SequencesExt

CONSTANTS
    Labels,       \* labels a host or a domain is made of, "*" among them
    Lower,        \* toLowerCase on a label
    MaxLabels,    \* bound on the labels of a host
    MaxDomains,   \* bound on the domains of one certificate
    MaxCerts      \* bound on the certificates in the store

ASSUME "*" \in Labels /\ Lower \in [Labels -> Labels] /\ Lower["*"] = "*"

VARIABLES
    certifications,  \* the domain lists of the certificates, in store order
    host,            \* one host of values.hosts
    cert             \* index of the certificate find returns, 0 for undefined, -1 before

vars == <<certifications, host, cert>>

Names(n) == UNION {[1..k -> Labels] : k \in 1..n}
Domains == Names(2)
DomainLists == UNION {[1..k -> Domains] : k \in 1..MaxDomains}
CertLists == UNION {[1..k -> DomainLists] : k \in 0..MaxCerts}

TypeOK ==
    /\ certifications \in CertLists
    /\ host \in Names(MaxLabels)
    /\ cert \in -1..Len(certifications)

-----------------------------------------------------------------------------
(* The code.                                                               *)

ToLowerCase(s) == [i \in DOMAIN s |-> Lower[s[i]]]

\* arraysMatch from utils: same length, same elements in order.
ArraysMatch(a, b) == a = b

\* Mutation: the wildcard test without domainParts[0] !== "*".
WildcardSuitsAnyFirst(domain, h) ==
    LET domainParts == ToLowerCase(domain)
        hostParts == ToLowerCase(h)
    IN  Len(hostParts) > 0 /\ Len(domainParts) > 0
        /\ ArraysMatch(Tail(hostParts), Tail(domainParts))

\* The part of the loop body after the exact comparison.
WildcardSuits(domain, h) ==
    LET domainParts == ToLowerCase(domain)
        hostParts == ToLowerCase(h)
    IN  /\ Len(hostParts) > 0 /\ Len(domainParts) > 0 /\ domainParts[1] = "*"
        /\ ArraysMatch(Tail(hostParts), Tail(domainParts))

\* The for loop over domains, with its three early returns.
RECURSIVE CanCertDomainsSuiteForHost(_, _)
CanCertDomainsSuiteForHost(domains, h) ==
    IF domains = <<>> THEN FALSE
    ELSE LET domain == Head(domains)
         IN  IF domain = <<"*">> THEN FALSE
             ELSE IF ToLowerCase(domain) = ToLowerCase(h) THEN TRUE
             ELSE IF WildcardSuits(domain, h) THEN TRUE
             ELSE CanCertDomainsSuiteForHost(Tail(domains), h)

\* certifications.find(c => canCertDomainsSuiteForHost(c.domains, host)).
FindCert(certs, h) ==
    LET hits == {i \in DOMAIN certs : CanCertDomainsSuiteForHost(certs[i], h)}
    IN  IF hits = {} THEN 0 ELSE CHOOSE i \in hits : \A j \in hits : i <= j

Init ==
    /\ certifications \in CertLists
    /\ host \in Names(MaxLabels)
    /\ cert = -1

\* One host's entry of hostCertResults in renderCertificationStatus.
RenderCertificationStatus ==
    /\ cert = -1
    /\ cert' = FindCert(certifications, host)
    /\ UNCHANGED <<certifications, host>>

Next == RenderCertificationStatus

Spec == Init /\ [][Next]_vars

-----------------------------------------------------------------------------
(* The reference: §4.1 of the specification, one domain entry at a time.   *)

\* Exact case-insensitive match, or "*" followed by exactly the host's
\* labels after its first; the bare "*" never matches.
Covers(domain, h) ==
    /\ domain # <<"*">>
    /\ \/ ToLowerCase(domain) = ToLowerCase(h)
       \/ /\ Len(domain) > 0 /\ Len(h) > 0 /\ domain[1] = "*"
          /\ ToLowerCase(Tail(domain)) = ToLowerCase(Tail(h))

CertCovers(domains, h) == \E i \in DOMAIN domains : Covers(domains[i], h)

SpecCert(certs, h) ==
    LET hits == {i \in DOMAIN certs : CertCovers(certs[i], h)}
    IN  IF hits = {} THEN 0 ELSE CHOOSE i \in hits : \A j \in hits : i <= j

HasBareWildcard(certs) == \E i \in DOMAIN certs : <<"*">> \in ToSet(certs[i])

-----------------------------------------------------------------------------
(* Properties                                                              *)

\* For certificates without a bare "*" domain, the certificate that the
\* route form reports for a host is the first one in store order that
\* covers it by exact case-insensitive match or by a single-level wildcard.
CertSelectedPerSpec ==
    cert # -1 /\ ~HasBareWildcard(certifications)
        => cert = SpecCert(certifications, host)

\* For every certificate list, a bare "*" domain only counts as no
\* coverage for itself (§4.1): the certificate the form reports is the
\* first one whose domains cover the host.
CertSelectedPerSpecWithBareWildcard ==
    cert # -1 => cert = SpecCert(certifications, host)

=============================================================================
