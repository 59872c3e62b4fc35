---------------------------- MODULE CertManagers ----------------------------
(***************************************************************************)
(* The on-chain managers of attestation certificates (ra-onchain): the IAS *)
(* root, the report certificates it signs, and the Decent servers whose    *)
(* attestation reports those sign.  Their storage is part of `store', so a *)
(* revert undoes what they recorded.  Certificates are records of what     *)
(* their parsing and their signatures come to.                             *)
(***************************************************************************)
EXTENDS NotifyCall, Integers

CONSTANTS
    RepCerts,      \* [key, from, to, signed]: report certificates; signed: by the root
    SvrCerts,      \* [key, report, attested, keyRing]: server certificates; attested: the
                   \* report is signed by the report key, its status is accepted and it
                   \* covers the key ring
    AppCerts,      \* [key, target, issuer]: application certificates; issuer: the
                   \* server key that signed
    RootNotAfter, MaxTime

RepKeys == {r.key : r \in RepCerts}
SvrKeys == {v.key : v \in SvrCerts}

ASSUME CertAssumption ==
    /\ RootNotAfter \in Nat /\ RootNotAfter > 1 /\ MaxTime \in Nat
    /\ \A r \in RepCerts : r.from \in Nat /\ r.to \in Nat
    /\ \A v \in SvrCerts : v.report \in RepCerts

VARIABLE now  \* block.timestamp, the same throughout a transaction

NoReport == 0

\* Where the parsed nodes of a certificate lie: the key, the validity period and the
\* part whose signature is checked.  A caller of verifyCertWithNodes hands them in, and
\* nothing compares them with one another.
CertNodes == [pubKeyNode : RepCerts, validityNode : RepCerts, root : RepCerts]
SvrNodes == [pubKeyNode : SvrCerts, extNode : SvrCerts]

\* The nodes that parsing a certificate yields.
loadCertNodes(r) == [pubKeyNode |-> r, validityNode |-> r, root |-> r]
loadSvrNodes(v) == [pubKeyNode |-> v, extNode |-> v]

\* The managers are deployed while the root is valid, which both constructors check.
NoCerts ==
    [reports |-> [k \in RepKeys |-> NoReport],  \* notAfter of the verified certificate
     servers |-> {},                            \* keys of the verified servers
     since |-> [k \in SvrKeys |-> 0],           \* history: when a server was verified last
     mixed |-> {},    \* history: report keys on record with nodes of several certificates
     onMixed |-> {}]  \* history: servers ever verified under such a record

\* defect: a certificate is still accepted at the time it expires
UnexpiredInclusive(t) == now <= t

Unexpired(t) == now < t

requireValidity == Unexpired(RootNotAfter)

\* IASReportCert.loadCert does not throw.
LoadsReport(n) ==
    /\ requireValidity
    /\ n.validityNode.from <= now /\ Unexpired(n.validityNode.to)
    /\ n.root.signed

\* A certificate replaces the one verified earlier for its key.
WithReport(n) ==
    LET k == n.pubKeyNode.key
        parsed == \E r \in RepCerts : n = loadCertNodes(r)
    IN  [store EXCEPT !.reports[k] = n.validityNode.to,
                      !.mixed = IF parsed THEN @ \ {k} ELSE @ \cup {k}]

\* IASReportCertMgr.verifyCertWithNodes; verifyCert parses the nodes and calls it.
verifyReportCert(n) ==
    /\ LoadsReport(n)
    /\ Update(WithReport(n))

\* verifyEPIDReportCert: a key with a verified, unexpired certificate is taken as it
\* is; otherwise the certificate that came along is parsed and verified.
AfterReport(r) ==
    IF Unexpired(store.reports[r.key]) THEN store ELSE WithReport(loadCertNodes(r))

\* DecentServerCert.loadCert does not throw.  The key is only looked up in the key ring
\* of the extensions: the check of the certificate's own signature is commented out.
LoadsServer(n) ==
    LET r == n.extNode.report
    IN  /\ Unexpired(store.reports[r.key]) \/ LoadsReport(loadCertNodes(r))
        /\ Unexpired(AfterReport(r).reports[r.key])
        /\ n.extNode.attested
        /\ n.pubKeyNode.key \in n.extNode.keyRing

WithServer(n) ==
    LET r == n.extNode.report
        k == n.pubKeyNode.key
        s == AfterReport(r)
    IN  [s EXCEPT !.servers = @ \cup {k}, !.since[k] = now,
                  !.onMixed = @ \cup {j \in {k} : r.key \in s.mixed}]

\* DecentServerCertMgr.verifyCertWithNodes; verifyCert parses the nodes itself.
verifySvrCert(n) ==
    /\ LoadsServer(n)
    /\ Update(WithServer(n))

isDecentServer(v) == v.key \in store.servers

\* DecentCertChain.verifyCertChain accepts server certificate v and application
\* certificate c, both of which it parses; a server that was verified once is not
\* verified again.
verifyCertChain(v, c) ==
    /\ isDecentServer(v) \/ LoadsServer(loadSvrNodes(v))
    /\ c.issuer = v.key

AfterChain(v) == IF isDecentServer(v) THEN store ELSE WithServer(loadSvrNodes(v))

Tick ==
    /\ Idle /\ now < MaxTime
    /\ now' = now + 1
    /\ UNCHANGED cvars

CertStep ==
    \/ Tick
    \/ \E n \in CertNodes : verifyReportCert(n) /\ UNCHANGED now
    \/ \E n \in SvrNodes : verifySvrCert(n) /\ UNCHANGED now
-----------------------------------------------------------------------------
\* Server key k was verified while a certificate of the report key that attests it
\* was in force, and the root had signed that one and could still vouch for it.
WasAttested(s, k) ==
    \E v \in SvrCerts : \E r \in RepCerts :
        /\ k \in v.keyRing /\ v.attested
        /\ r.key = v.report.key /\ r.signed
        /\ r.from < RootNotAfter
        /\ r.from <= s.since[k] /\ s.since[k] < r.to
=============================================================================
