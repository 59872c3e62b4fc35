----------------------- MODULE EvidenceRevokerProofs ------------------------
(* Proofs about EvidenceRevoker and the certificate managers, for every set *)
(* of certificates, however long they are in force.                         *)
EXTENDS EvidenceRevoker, TLAPS

USE DEF NoReport

\* The invariant holds after deployment.
LEMMA InitOK == Init => IndInv
<1> SUFFICES ASSUME Init PROVE IndInv
  OBVIOUS
<1>1. Deployed \in Storage
  BY DEF Deployed, Storage, NoCerts
<1>2. StoreOK(Deployed)
  BY <1>1 DEF StoreOK, Deployed, NoCerts
<1>. QED
  BY <1>2, EvidenceAssumption DEF Init, IndInv, Idle
-----------------------------------------------------------------------------
(***************************************************************************)
(* What the managers record.  Each lemma is about one storage that a       *)
(* verification leads to, from any storage that satisfies StoreOK.         *)
(***************************************************************************)
\* Verifying a report certificate records one that the root signed, unless the nodes
\* are mixed, and touches nothing else.
LEMMA WithReportOK ==
    ASSUME IndInv, NEW n \in CertNodes, LoadsReport(n)
    PROVE  /\ StoreOK(WithReport(n))
           /\ WithReport(n).revoked = store.revoked /\ WithReport(n).log = store.log
<1> DEFINE s == WithReport(n)
           key == n.pubKeyNode.key
           to == n.validityNode.to
           parsed == \E r \in RepCerts : n = loadCertNodes(r)
<1>1. store \in Storage /\ StoreOK(store) /\ now \in Nat
  BY DEF IndInv, StoreOK
<1>2. key \in RepKeys /\ to \in Nat
  <2>1. n.pubKeyNode \in RepCerts /\ n.validityNode \in RepCerts
    BY DEF CertNodes
  <2>. QED
    BY <2>1, CertAssumption DEF RepKeys
<1>3. s = [store EXCEPT !.reports[key] = to,
                        !.mixed = IF parsed THEN @ \ {key} ELSE @ \cup {key}]
  BY DEF WithReport
<1>4. parsed => \E r \in RepCerts :
                  /\ r.key = key /\ r.to = to /\ r.signed
                  /\ r.from <= now /\ r.from < RootNotAfter
  <2> SUFFICES ASSUME NEW r \in RepCerts, n = loadCertNodes(r)
               PROVE  /\ r.key = key /\ r.to = to /\ r.signed
                      /\ r.from <= now /\ r.from < RootNotAfter
    OBVIOUS
  <2>1. n.pubKeyNode = r /\ n.validityNode = r /\ n.root = r
    BY DEF loadCertNodes
  <2>2. r.from \in Nat /\ RootNotAfter \in Nat
    BY CertAssumption
  <2>. QED
    BY <1>1, <2>1, <2>2 DEF LoadsReport, requireValidity, Unexpired
<1>. HIDE DEF s, key, to, parsed
<1>5. /\ s \in Storage
      /\ s.revoked = store.revoked /\ s.log = store.log
      /\ s.servers = store.servers /\ s.since = store.since /\ s.onMixed = store.onMixed
      /\ s.reports = [store.reports EXCEPT ![key] = to]
      /\ s.mixed = IF parsed THEN store.mixed \ {key} ELSE store.mixed \cup {key}
  BY <1>1, <1>2, <1>3 DEF Storage
<1>6. store.reports \in [RepKeys -> Nat]
  BY <1>1 DEF Storage
<1>7. \A t \in s.revoked : Grounds(s, t)
  BY <1>1, <1>5 DEF StoreOK, Grounds, InForce, WasAttested
<1>8. \A k \in s.servers \ s.onMixed : WasAttested(s, k)
  BY <1>1, <1>5 DEF StoreOK, WasAttested
<1>9. ASSUME NEW k \in RepKeys \ s.mixed, s.reports[k] # NoReport
      PROVE  OnRecord(s, k)
  <2>1. CASE k = key
    <3>1. s.reports[k] = to /\ parsed
      BY <1>2, <1>5, <1>6, <1>9, <2>1
    <3>. QED
      BY <1>4, <2>1, <3>1 DEF OnRecord
  <2>2. CASE k # key
    <3>1. s.reports[k] = store.reports[k] /\ k \notin store.mixed
      BY <1>5, <1>6, <1>9, <2>2
    <3>. QED
      BY <1>1, <1>9, <3>1 DEF StoreOK, OnRecord
  <2>. QED
    BY <2>1, <2>2
<1>. QED
  BY <1>5, <1>7, <1>8, <1>9 DEF StoreOK, s

\* A server that is accepted under a record of one certificate was attested while that
\* was in force.
LEMMA WithServerOK ==
    ASSUME IndInv, NEW n \in SvrNodes, LoadsServer(n)
    PROVE  LET s == WithServer(n)
           IN  /\ StoreOK(s)
               /\ s.revoked = store.revoked /\ s.log = store.log
               /\ n.pubKeyNode.key \in s.servers
<1> DEFINE v == n.extNode
           b == AfterReport(v.report)
           s == WithServer(n)
           k == n.pubKeyNode.key
<1>0. now \in Nat /\ store \in Storage
  BY DEF IndInv, StoreOK
<1>1. /\ v \in SvrCerts /\ v.report \in RepCerts /\ v.report.key \in RepKeys
      /\ k \in SvrKeys /\ loadCertNodes(v.report) \in CertNodes
  BY CertAssumption DEF RepKeys, SvrKeys, SvrNodes, CertNodes, loadCertNodes
<1>2. StoreOK(b) /\ b.revoked = store.revoked /\ b.log = store.log
  BY <1>1, WithReportOK DEF LoadsServer, AfterReport, IndInv
<1>3. now < b.reports[v.report.key] /\ v.attested /\ k \in v.keyRing
  BY DEF LoadsServer, Unexpired
<1>4. s = [b EXCEPT !.servers = @ \cup {k}, !.since[k] = now,
                    !.onMixed = @ \cup {j \in {k} : v.report.key \in b.mixed}]
  BY DEF WithServer
<1>. HIDE DEF b, s, k, v
<1>5. b \in Storage
  BY <1>2 DEF StoreOK
<1>6. /\ s \in Storage
      /\ s.revoked = b.revoked /\ s.log = b.log /\ s.reports = b.reports
      /\ s.mixed = b.mixed
      /\ s.servers = b.servers \cup {k} /\ s.since = [b.since EXCEPT ![k] = now]
      /\ s.onMixed = b.onMixed \cup {j \in {k} : v.report.key \in b.mixed}
  BY <1>0, <1>1, <1>4, <1>5 DEF Storage
<1>7. b.since \in [SvrKeys -> Nat] /\ b.servers \subseteq SvrKeys /\ b.reports \in [RepKeys -> Nat]
  BY <1>5 DEF Storage
<1>8. s.since[k] = now /\ \A j \in SvrKeys \ {k} : s.since[j] = b.since[j]
  BY <1>1, <1>6, <1>7
<1>9. ASSUME k \notin s.onMixed PROVE WasAttested(s, k)
  <2>1. b.reports[v.report.key] # NoReport
    BY <1>0, <1>1, <1>3, <1>7
  <2>2. v.report.key \notin b.mixed
    BY <1>6, <1>9
  <2>3. OnRecord(b, v.report.key)
    BY <1>1, <1>2, <2>1, <2>2 DEF StoreOK
  <2>4. PICK r \in RepCerts : /\ r.key = v.report.key /\ r.signed
                              /\ r.to = b.reports[v.report.key]
                              /\ r.from <= now /\ r.from < RootNotAfter
    BY <2>3 DEF OnRecord
  <2>. QED
    BY <1>1, <1>3, <1>8, <2>4 DEF WasAttested
<1>10. \A j \in s.servers \ s.onMixed : WasAttested(s, j)
  <2> TAKE j \in s.servers \ s.onMixed
  <2>1. CASE j = k
    BY <1>9, <2>1
  <2>2. CASE j # k
    BY <1>2, <1>6, <1>7, <1>8, <2>2 DEF StoreOK, WasAttested
  <2>. QED
    BY <2>1, <2>2
<1>11. \A t \in s.revoked : Grounds(s, t)
  <2> TAKE t \in s.revoked
  <2>1. Grounds(b, t)
    BY <1>2, <1>6 DEF StoreOK
  <2>. QED
    BY <1>6, <1>10, <2>1 DEF Grounds, InForce
<1>12. \A j \in RepKeys \ s.mixed : s.reports[j] # NoReport => OnRecord(s, j)
  BY <1>2, <1>6 DEF StoreOK, OnRecord
<1>. QED
  BY <1>2, <1>6, <1>10, <1>11, <1>12 DEF StoreOK, s, k

\* A chain that is accepted leaves its server verified.
LEMMA AfterChainOK ==
    ASSUME IndInv, NEW v \in SvrCerts, NEW c \in AppCerts, verifyCertChain(v, c)
    PROVE  LET s == AfterChain(v)
           IN  /\ StoreOK(s)
               /\ s.revoked = store.revoked /\ s.log = store.log
               /\ c.issuer \in s.servers
<1>1. CASE isDecentServer(v)
  BY <1>1 DEF verifyCertChain, AfterChain, isDecentServer, IndInv, StoreOK
<1>2. CASE ~isDecentServer(v)
  <2>1. loadSvrNodes(v) \in SvrNodes /\ loadSvrNodes(v).pubKeyNode.key = v.key
    BY DEF SvrNodes, loadSvrNodes
  <2>. QED
    BY <1>2, <2>1, WithServerOK DEF verifyCertChain, AfterChain
<1>. QED
  BY <1>1, <1>2
-----------------------------------------------------------------------------
(***************************************************************************)
(* The steps.                                                              *)
(***************************************************************************)
\* What StoreOK depends on besides the storage.
LEMMA Frame ==
    ASSUME UNCHANGED evars, NEW s
    PROVE  StoreOK(s)' <=> StoreOK(s)
  BY DEF StoreOK, Grounds, InForce, Guilty, OnRecord, WasAttested, Storage, evars

\* More signatures and later times take no grounds away.
LEMMA Monotone ==
    ASSUME now \in Nat, now' \in Nat, now <= now', variant' = variant,
           signed \subseteq signed', NEW s, StoreOK(s)
    PROVE  StoreOK(s)'
<1>1. \A k : Guilty(k) => Guilty(k)'
  BY DEF Guilty
<1>2. \A t : InForce(s, t) => InForce(s, t)'
  BY <1>1 DEF InForce, WasAttested
<1>3. \A t : Grounds(s, t) => Grounds(s, t)'
  BY <1>1, <1>2 DEF Grounds
<1>4. \A k : OnRecord(s, k) => OnRecord(s, k)'
  BY CertAssumption DEF OnRecord
<1>. QED
  BY <1>3, <1>4 DEF StoreOK, Storage, WasAttested

\* A call that records certificates only, in or outside of a notification.
LEMMA UpdateOK ==
    ASSUME IndInv, UNCHANGED evars, NEW s, StoreOK(s),
           s.revoked = store.revoked, s.log = store.log, Update(s)
    PROVE  IndInv'
<1>1. StoreOK(s)' /\ StoreOK(txStart)' /\ StoreOK(callStart)'
  <2>1. store' = s
    BY DEF Update
  <2>. QED
    BY Frame DEF IndInv, Update
<1>2. CASE Idle
  BY <1>1, <1>2 DEF IndInv, Update, Idle, evars
<1>3. CASE ~Idle
  BY <1>1, <1>3 DEF IndInv, Update, Idle, Announces, evars
<1>. QED
  BY <1>2, <1>3

\* A report that is accepted opens a notification which announces just its target.
LEMMA RevokeOK ==
    ASSUME IndInv, NEW s, StoreOK(s), s.revoked = store.revoked, s.log = store.log,
           NEW t \in Targets, Grounds(s, t), Revoke(s, t)
    PROVE  IndInv'
<1> DEFINE m == MarkedRevoked(s, t)
<1>1. s \in Storage /\ t \notin store.revoked
  BY DEF StoreOK, Revoke
<1>2. /\ m \in Storage /\ m.revoked = s.revoked \cup {t}
      /\ m.log = s.log /\ m.reports = s.reports
      /\ m.servers = s.servers /\ m.since = s.since
      /\ m.mixed = s.mixed /\ m.onMixed = s.onMixed
  BY <1>1 DEF MarkedRevoked, Storage
<1>3. /\ store' = m /\ callStart' = m /\ txStart' = txStart /\ target' = t
      /\ Idle /\ txStart = store /\ UNCHANGED evars
  BY DEF Revoke, BeginNotify, IndInv
<1>. HIDE DEF m
<1>4. StoreOK(m)
  <2>1. \A x \in s.revoked \cup {t} : Grounds(s, x)
    BY DEF StoreOK
  <2>2. \A x \in m.revoked : Grounds(m, x)
    BY <1>2, <2>1 DEF Grounds, InForce, WasAttested
  <2>3. \A k \in m.servers \ m.onMixed : WasAttested(m, k)
    BY <1>2 DEF StoreOK, WasAttested
  <2>4. \A k \in RepKeys \ m.mixed : m.reports[k] # NoReport => OnRecord(m, k)
    BY <1>2 DEF StoreOK, OnRecord
  <2>. QED
    BY <1>2, <2>2, <2>3, <2>4 DEF StoreOK
<1>5. StoreOK(store)' /\ StoreOK(callStart)' /\ StoreOK(txStart)'
  BY <1>3, <1>4, Frame DEF IndInv
<1>6. Announces(store)' /\ Announces(callStart)'
  BY <1>2, <1>3 DEF Announces
<1>7. t # NoTarget
  BY EvidenceAssumption
<1>. QED
  BY <1>1, <1>3, <1>5, <1>6, <1>7 DEF IndInv, Idle, evars

\* Two verified signatures of different contents are the evidence of a conflict.
LEMMA ConflictIsGuilt ==
    ASSUME NEW k, k # ZeroKey, NEW e \in EventId, NEW m1 \in Content, NEW m2 \in Content,
           variant \in {"ConflictMsg", "KeyConflictMsg"}, Conflict(k, e, m1, m2)
    PROVE  Guilty(k)
<1>1. /\ variant \notin {"LeakedKey", "KeyLeakedKey"}
      /\ m1 # m2
      /\ {<<k, <<e, m1>>>>, <<k, <<e, m2>>>>} \subseteq signed
  BY DEF Conflict, verifySign
<1>. QED
  BY <1>1 DEF Guilty

\* The reports of the two key contracts; one about the zero address needs no signer.
LEMMA KeyReportOK ==
    ASSUME IndInv, NEW k \in Keys \cup {ZeroKey},
           \/ keySubmitRevokeSign(k)
           \/ \E e \in EventId : \E m1, m2 \in Content : keyReportConflicts(k, e, m1, m2)
    PROVE  IndInv'
<1>1. /\ variant \in {"KeyLeakedKey", "KeyConflictMsg"} /\ Revoke(store, k)
      /\ k # ZeroKey => Guilty(k)
  <2>1. CASE keySubmitRevokeSign(k)
    BY <2>1 DEF keySubmitRevokeSign, verifySign, Guilty
  <2>2. ASSUME NEW e \in EventId, NEW m1 \in Content, NEW m2 \in Content,
               keyReportConflicts(k, e, m1, m2)
        PROVE  /\ variant \in {"KeyLeakedKey", "KeyConflictMsg"} /\ Revoke(store, k)
               /\ k # ZeroKey => Guilty(k)
    <3>1. /\ variant = "KeyConflictMsg" /\ Conflict(k, e, m1, m2) /\ Revoke(store, k)
      BY <2>2 DEF keyReportConflicts
    <3>. QED
      BY <3>1, ConflictIsGuilt
  <2>. QED
    BY <2>1, <2>2
<1>2. Grounds(store, k) /\ StoreOK(store) /\ k \in Targets
  BY <1>1 DEF Grounds, IndInv, Targets
<1>. QED
  BY <1>1, <1>2, RevokeOK

\* The reports of the two enclave contracts.
LEMMA EnclaveReportOK ==
    ASSUME IndInv, NEW v \in SvrCerts, NEW c \in AppCerts,
           \/ submitRevokeSign(v, c)
           \/ \E e \in EventId : \E m1, m2 \in Content : reportConflicts(v, c, e, m1, m2)
    PROVE  IndInv'
<1> DEFINE s == AfterChain(v)
<1>1. /\ variant \in {"LeakedKey", "ConflictMsg"} /\ Guilty(c.key)
      /\ verifyCertChain(v, c) /\ Revoke(s, c.target)
  <2>0. c.key # ZeroKey
    BY EvidenceAssumption DEF Keys
  <2>1. CASE submitRevokeSign(v, c)
    BY <2>0, <2>1 DEF submitRevokeSign, verifySign, Guilty
  <2>2. ASSUME NEW e \in EventId, NEW m1 \in Content, NEW m2 \in Content,
               reportConflicts(v, c, e, m1, m2)
        PROVE  /\ variant \in {"LeakedKey", "ConflictMsg"} /\ Guilty(c.key)
               /\ verifyCertChain(v, c) /\ Revoke(s, c.target)
    <3>1. /\ variant = "ConflictMsg" /\ Conflict(c.key, e, m1, m2)
          /\ verifyCertChain(v, c) /\ Revoke(s, c.target)
      BY <2>2 DEF reportConflicts
    <3>. QED
      BY <2>0, <3>1, ConflictIsGuilt
  <2>. QED
    BY <2>1, <2>2
<1>2. /\ StoreOK(s) /\ s.revoked = store.revoked /\ s.log = store.log
      /\ c.issuer \in s.servers
  BY <1>1, AfterChainOK
<1>. HIDE DEF s
<1>3. c.issuer \in s.onMixed \/ WasAttested(s, c.issuer)
  BY <1>2 DEF StoreOK
<1>4. Grounds(s, c.target) /\ c.target \in Targets
  BY <1>1, <1>2, <1>3 DEF Grounds, InForce, Enclaves, Targets
<1>. QED
  BY <1>1, <1>2, <1>4, RevokeOK

\* The steps of the certificate managers, and the early return of a report.
LEMMA CertStepOK ==
    ASSUME IndInv, \/ CertStep /\ UNCHANGED <<variant, signed>>
                   \/ \E v \in SvrCerts, c \in AppCerts : ReportRevoked(v, c)
    PROVE  IndInv'
<1>1. CASE Tick /\ UNCHANGED <<variant, signed>>
  <2>1. now \in Nat /\ now' \in Nat /\ now <= now'
    BY <1>1 DEF Tick, IndInv
  <2>2. StoreOK(store)' /\ StoreOK(txStart)' /\ StoreOK(callStart)'
    BY <1>1, <2>1, Monotone DEF Tick, cvars, IndInv
  <2>. QED
    BY <1>1, <2>1, <2>2 DEF Tick, cvars, IndInv, Idle, Announces
<1>2. ASSUME NEW n \in CertNodes, verifyReportCert(n), UNCHANGED <<now, variant, signed>>
      PROVE  IndInv'
  BY <1>2, WithReportOK, UpdateOK DEF verifyReportCert, evars
<1>3. ASSUME NEW n \in SvrNodes, verifySvrCert(n), UNCHANGED <<now, variant, signed>>
      PROVE  IndInv'
  BY <1>3, WithServerOK, UpdateOK DEF verifySvrCert, evars
<1>4. ASSUME NEW v \in SvrCerts, NEW c \in AppCerts, ReportRevoked(v, c)
      PROVE  IndInv'
  BY <1>4, AfterChainOK, UpdateOK DEF ReportRevoked
<1>. QED
  BY <1>1, <1>2, <1>3, <1>4 DEF CertStep

\* Signing.
LEMMA SignOK ==
    ASSUME IndInv, NEW k \in Keys, NEW m \in Statements, Sign(k, m)
    PROVE  IndInv'
<1>1. StoreOK(store)' /\ StoreOK(txStart)' /\ StoreOK(callStart)'
  BY Monotone DEF Sign, cvars, IndInv
<1>. QED
  BY <1>1 DEF Sign, cvars, IndInv, Idle, Announces

\* The steps of the running notification.
LEMMA CallStepOK ==
    ASSUME IndInv, CallStep, UNCHANGED evars
    PROVE  IndInv'
<1>0. now' = now /\ variant' = variant /\ \A s : StoreOK(s)' <=> StoreOK(s)
  BY Frame DEF evars
<1>1. CASE SubscriberReturns \/ SubscriberFails
  BY <1>0, <1>1 DEF IndInv, SubscriberReturns, SubscriberFails, Idle, Announces
<1>2. CASE NotifyReverts
  BY <1>0, <1>2 DEF IndInv, NotifyReverts, EndTx, Idle
<1>3. CASE NotifyReturns
  <2> DEFINE s == [store EXCEPT !.log = Append(@, target)]
  <2>1. target \in Targets /\ store \in Storage /\ StoreOK(store)
    BY <1>3 DEF IndInv, NotifyReturns, Idle, StoreOK
  <2>2. Append(store.log, target) \in Seq(Targets)
    BY <2>1 DEF Storage
  <2>3. /\ s \in Storage /\ s.revoked = store.revoked /\ s.reports = store.reports
        /\ s.servers = store.servers /\ s.since = store.since
        /\ s.mixed = store.mixed /\ s.onMixed = store.onMixed
    BY <2>1, <2>2 DEF Storage
  <2>4. store' = s /\ txStart' = s /\ callStart' = s /\ target' = NoTarget
    BY <1>3 DEF NotifyReturns, EndTx
  <2>. HIDE DEF s
  <2>5. StoreOK(s)
    BY <2>1, <2>3 DEF StoreOK, Grounds, InForce, WasAttested, OnRecord
  <2>. QED
    BY <1>0, <2>4, <2>5 DEF IndInv, Idle
<1>. QED
  BY <1>1, <1>2, <1>3 DEF CallStep

\* Every step keeps the invariant.
LEMMA StepOK == IndInv /\ [Next]_vars => IndInv'
<1> SUFFICES ASSUME IndInv, [Next]_vars PROVE IndInv'
  OBVIOUS
<1>1. CASE UNCHANGED vars
  <2>1. \A s : StoreOK(s)' <=> StoreOK(s)
    BY <1>1, Frame DEF vars, evars
  <2>. QED
    BY <1>1, <2>1 DEF vars, evars, IndInv, Announces, Idle
<1>2. ASSUME NEW k \in Keys, NEW m \in Statements, Sign(k, m) PROVE IndInv'
  BY <1>2, SignOK
<1>3. ASSUME NEW k \in Keys \cup {ZeroKey}, NEW e \in EventId, NEW m1 \in Content, NEW m2 \in Content,
             keyReportConflicts(k, e, m1, m2)
      PROVE  IndInv'
  BY <1>3, KeyReportOK
<1>4. ASSUME NEW k \in Keys \cup {ZeroKey}, keySubmitRevokeSign(k) PROVE IndInv'
  BY <1>4, KeyReportOK
<1>5. ASSUME NEW v \in SvrCerts, NEW c \in AppCerts,
             \/ \E e \in EventId, m1, m2 \in Content : reportConflicts(v, c, e, m1, m2)
             \/ submitRevokeSign(v, c)
             \/ ReportRevoked(v, c)
      PROVE  IndInv'
  BY <1>5, EnclaveReportOK, CertStepOK
<1>6. CASE CertStep /\ UNCHANGED <<variant, signed>>
  BY <1>6, CertStepOK
<1>7. CASE CallStep /\ UNCHANGED evars
  BY <1>7, CallStepOK
<1>. QED
  BY <1>1, <1>2, <1>3, <1>4, <1>5, <1>6, <1>7 DEF Next

\* The inductive invariant holds in every execution.
THEOREM AlwaysIndInv == Spec => []IndInv
  BY InitOK, StepOK, PTL DEF Spec
-----------------------------------------------------------------------------
\* Nobody but the zero address is ever revoked without having signed the evidence
\* (reportConflicts and submitRevokeSign of the four contracts).
THEOREM OnlyGuiltyAlways == Spec => []OnlyGuiltyRevoked
<1>1. IndInv => OnlyGuiltyRevoked
  BY DEF IndInv, OnlyGuiltyRevoked, StoreOK, Grounds, InForce
<1>. QED
  BY <1>1, AlwaysIndInv, PTL

\* Every revoked enclave was reached through a server that was attested while a
\* certificate of its report key was in force, for any validity periods, unless the
\* server was ever verified under a record of mixed nodes
\* (DecentCertChain.verifyCertChain and the managers it calls).
THEOREM ChainAlwaysInForce == Spec => []ChainWasInForce
<1>1. IndInv => ChainWasInForce
  BY DEF IndInv, ChainWasInForce, StoreOK, Grounds
<1>. QED
  BY <1>1, AlwaysIndInv, PTL

\* The evidence contracts implement Revocation: a target is revoked and announced in
\* one step, once, though every report may be repeated and subscribers call back.
THEOREM EvidenceRefines == Spec => ImplementsRevocation
<1>1. Init => RevocationView!Init
  BY DEF Init, Deployed, RevocationView!Init
<1>2. IndInv /\ IndInv' /\ [Next]_vars =>
          [RevocationView!Revoke]_<<txStart.revoked, txStart.log>>
  <2> SUFFICES ASSUME IndInv, IndInv', [Next]_vars
               PROVE  \/ RevocationView!Revoke
                      \/ txStart'.revoked = txStart.revoked /\ txStart'.log = txStart.log
    OBVIOUS
  <2>1. ASSUME NEW s, Update(s), s.revoked = store.revoked, s.log = store.log
        PROVE  txStart'.revoked = txStart.revoked /\ txStart'.log = txStart.log
    BY <2>1 DEF Update, IndInv
  <2>2. ASSUME CertStep
        PROVE  txStart'.revoked = txStart.revoked /\ txStart'.log = txStart.log
    <3>1. CASE Tick
      BY <3>1 DEF Tick, cvars
    <3>2. ASSUME NEW n \in CertNodes, verifyReportCert(n)
          PROVE  txStart'.revoked = txStart.revoked /\ txStart'.log = txStart.log
      BY <2>1, <3>2, WithReportOK DEF verifyReportCert
    <3>3. ASSUME NEW n \in SvrNodes, verifySvrCert(n)
          PROVE  txStart'.revoked = txStart.revoked /\ txStart'.log = txStart.log
      BY <2>1, <3>3, WithServerOK DEF verifySvrCert
    <3>. QED
      BY <2>2, <3>1, <3>2, <3>3 DEF CertStep
  <2>3. ASSUME NEW v \in SvrCerts, NEW c \in AppCerts, ReportRevoked(v, c)
        PROVE  txStart'.revoked = txStart.revoked /\ txStart'.log = txStart.log
    BY <2>1, <2>3, AfterChainOK DEF ReportRevoked
  <2>4. ASSUME NEW s, NEW t, Revoke(s, t) PROVE txStart' = txStart
    BY <2>4 DEF Revoke, BeginNotify
  <2>5. CASE \/ SubscriberReturns \/ SubscriberFails \/ NotifyReverts \/ UNCHANGED vars
             \/ \E k \in Keys, m \in Statements : Sign(k, m)
    BY <2>5 DEF SubscriberReturns, SubscriberFails, NotifyReverts, EndTx, vars, Sign, cvars
  <2>6. CASE NotifyReturns
    <3>1. store \in Storage /\ Announces(store) /\ target \notin txStart.revoked
      BY <2>6 DEF IndInv, NotifyReturns, StoreOK
    <3>2. txStart' = [store EXCEPT !.log = Append(@, target)]
      BY <2>6 DEF NotifyReturns, EndTx
    <3>3. /\ txStart'.revoked = txStart.revoked \cup {target}
          /\ txStart'.log = Append(txStart.log, target)
      BY <3>1, <3>2 DEF Announces, Storage
    <3>. QED
      BY <3>1, <3>3 DEF RevocationView!Revoke
  <2>. QED
    BY <2>2, <2>3, <2>4, <2>5, <2>6
    DEF Next, CallStep, keyReportConflicts, keySubmitRevokeSign, reportConflicts, submitRevokeSign
<1>. QED
  BY <1>1, <1>2, AlwaysIndInv, PTL DEF Spec, ImplementsRevocation, RevocationView!Spec
=============================================================================
