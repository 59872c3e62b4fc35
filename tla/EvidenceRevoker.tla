-------------------------- MODULE EvidenceRevoker ---------------------------
(***************************************************************************)
(* Revocation by evidence: the contracts that revoke whoever signed two    *)
(* contents for one event (RevokerByConflictMsg, KeyRevokerByConflictMsg)  *)
(* or signed the revoking statement (RevokerByLeakedKey,                   *)
(* KeyRevokerByLeakedKey).  A key revoker revokes the key itself; an       *)
(* enclave revoker learns the signing key and the enclave from a           *)
(* certificate chain, which it has the certificate managers verify in the  *)
(* same transaction.  A signature verifies when the key's holder made it,  *)
(* and for the zero address always: ecrecover returns it for a signature   *)
(* that does not recover, and the key contracts take the address as given. *)
(***************************************************************************)
EXTENDS CertManagers, FiniteSets

CONSTANTS
    EventId, Content,        \* a message is an event and a content
    ZeroKey,                 \* address(0), which no key hashes to
    RevokingHash,            \* the statement that the leaked-key contracts ask for
    MaxSigned                \* bound on the signatures

VARIABLES
    variant, \* which contract was deployed
    signed   \* the <<key, statement>> pairs that were ever signed

evars == <<now, variant, signed>>
vars == <<store, target, txStart, callStart, evars>>

Keys == {c.key : c \in AppCerts}
Enclaves == {c.target : c \in AppCerts}
Messages == EventId \X Content
Statements == Messages \cup {RevokingHash}

Targets == Keys \cup {ZeroKey} \cup Enclaves

ASSUME EvidenceAssumption == NoTarget \notin Targets /\ ZeroKey \notin Keys

Deployed ==
    [revoked |-> {}, log |-> <<>>,
     reports |-> NoCerts.reports, servers |-> NoCerts.servers, since |-> NoCerts.since,
     mixed |-> NoCerts.mixed, onMixed |-> NoCerts.onMixed]

Init ==
    /\ store = Deployed /\ txStart = Deployed /\ callStart = Deployed
    /\ target = NoTarget
    /\ variant \in {"ConflictMsg", "LeakedKey", "KeyConflictMsg", "KeyLeakedKey"}
    /\ signed = {} /\ now = 1

Sign(k, m) ==
    /\ Cardinality(signed) < MaxSigned
    /\ signed' = signed \cup {<<k, m>>}
    /\ UNCHANGED <<cvars, now, variant>>

\* defect: a signature of another statement is accepted
verifySignAny(k, m) == k = ZeroKey \/ \E x \in Statements : <<k, x>> \in signed

verifySign(k, m) == k = ZeroKey \/ <<k, m>> \in signed

Conflict(k, e, m1, m2) ==
    m1 # m2 /\ verifySign(k, <<e, m1>>) /\ verifySign(k, <<e, m2>>)

\* defect: the flag is not set before the notification
UnmarkedRevoked(s, t) == s

MarkedRevoked(s, t) == [s EXCEPT !.revoked = @ \cup {t}]

\* With storage s the contract comes to its notification about t.
Revoke(s, t) ==
    /\ t \notin s.revoked
    /\ BeginNotify(t, MarkedRevoked(s, t))
    /\ UNCHANGED evars

keyReportConflicts(k, e, m1, m2) ==
    /\ variant = "KeyConflictMsg"
    /\ Conflict(k, e, m1, m2)
    /\ Revoke(store, k)

keySubmitRevokeSign(k) ==
    /\ variant = "KeyLeakedKey"
    /\ verifySign(k, RevokingHash)
    /\ Revoke(store, k)

reportConflicts(v, c, e, m1, m2) ==
    /\ variant = "ConflictMsg"
    /\ verifyCertChain(v, c)
    /\ Conflict(c.key, e, m1, m2)
    /\ Revoke(AfterChain(v), c.target)

submitRevokeSign(v, c) ==
    /\ variant = "LeakedKey"
    /\ verifyCertChain(v, c)
    /\ verifySign(c.key, RevokingHash)
    /\ Revoke(AfterChain(v), c.target)

\* The contract returns early, but what the chain's verification recorded stays.
ReportRevoked(v, c) ==
    /\ variant \in {"ConflictMsg", "LeakedKey"}
    /\ verifyCertChain(v, c)
    /\ c.target \in store.revoked
    /\ Update(AfterChain(v))
    /\ UNCHANGED evars

Next ==
    \/ \E k \in Keys, m \in Statements : Sign(k, m)
    \/ \E k \in Keys \cup {ZeroKey} :
         \/ \E e \in EventId, m1, m2 \in Content : keyReportConflicts(k, e, m1, m2)
         \/ keySubmitRevokeSign(k)
    \/ \E v \in SvrCerts, c \in AppCerts :
         \/ \E e \in EventId, m1, m2 \in Content : reportConflicts(v, c, e, m1, m2)
         \/ submitRevokeSign(v, c)
         \/ ReportRevoked(v, c)
    \/ /\ variant \in {"ConflictMsg", "LeakedKey"}  \* the key contracts use no certificates
       /\ CertStep /\ UNCHANGED <<variant, signed>>
    \/ CallStep /\ UNCHANGED evars

Spec == Init /\ [][Next]_vars
-----------------------------------------------------------------------------
\* The evidence that the contract is about exists against key k.
Guilty(k) ==
    IF variant \in {"LeakedKey", "KeyLeakedKey"}
    THEN <<k, RevokingHash>> \in signed
    ELSE \E e \in EventId : \E m1, m2 \in Content :
            /\ m1 # m2
            /\ {<<k, <<e, m1>>>>, <<k, <<e, m2>>>>} \subseteq signed

\* Nobody but the zero address, which is no one's key, is revoked whose key did not
\* sign the evidence: signing one content per event, any number of times, or the
\* conflicting contents of a key that is certified for another enclave, is no ground
\* for revocation (reportConflicts and submitRevokeSign of the four contracts).
OnlyGuiltyRevoked ==
    \A t \in store.revoked \ {ZeroKey} :
        IF variant \in {"KeyLeakedKey", "KeyConflictMsg"} THEN Guilty(t)
        ELSE \E c \in AppCerts : c.target = t /\ Guilty(c.key)

\* Enclave t was reached through a guilty key and a verified server; unless that one
\* was ever verified under a record of mixed nodes, it was attested in time.
InForce(s, t) ==
    \E c \in AppCerts :
        /\ c.target = t /\ Guilty(c.key)
        /\ c.issuer \in s.servers
        /\ c.issuer \in s.onMixed \/ WasAttested(s, c.issuer)

\* An enclave is revoked only through an application certificate whose server was
\* attested at a moment when its report certificate was in force, though that, and
\* the root, may have expired or been replaced between any two of the steps.  The
\* contracts promise this of records read from one certificate: a record of mixed
\* nodes (verifyCertWithNodes) is exempt until its key's record is replaced.
ChainWasInForce ==
    variant \in {"ConflictMsg", "LeakedKey"} => \A t \in store.revoked : InForce(store, t)

RevocationView == INSTANCE Revocation WITH
    revoked <- txStart.revoked, announced <- txStart.log

\* From outside, revoking and announcing is one step taken once per target.
ImplementsRevocation == RevocationView!Spec

\* The inductive invariant behind the properties above.  A storage the contracts can
\* have: every revocation has its grounds, and, records of mixed nodes apart, every
\* server was attested while a report certificate was in force and every certificate
\* on record is one the root signed.
Grounds(s, t) ==
    IF variant \in {"KeyLeakedKey", "KeyConflictMsg"}
    THEN t = ZeroKey \/ (t \in Keys /\ Guilty(t))
    ELSE InForce(s, t)

OnRecord(s, k) ==
    \E r \in RepCerts :
        /\ r.key = k /\ r.signed /\ r.to = s.reports[k]
        /\ r.from <= now /\ r.from < RootNotAfter

Storage ==
    [revoked : SUBSET Targets,
     log     : Seq(Targets),
     reports : [RepKeys -> Nat],
     servers : SUBSET SvrKeys,
     since   : [SvrKeys -> Nat],
     mixed   : SUBSET RepKeys,
     onMixed : SUBSET SvrKeys]

StoreOK(s) ==
    /\ s \in Storage
    /\ \A t \in s.revoked : Grounds(s, t)
    /\ \A k \in s.servers \ s.onMixed : WasAttested(s, k)
    /\ \A k \in RepKeys \ s.mixed : s.reports[k] # NoReport => OnRecord(s, k)

Announces(s) ==
    /\ s.revoked = txStart.revoked \cup {target}
    /\ s.log = txStart.log

IndInv ==
    /\ now \in Nat
    /\ variant \in {"ConflictMsg", "LeakedKey", "KeyConflictMsg", "KeyLeakedKey"}
    /\ StoreOK(store) /\ StoreOK(txStart) /\ StoreOK(callStart)
    /\ target \in Targets \cup {NoTarget}
    /\ Idle => txStart = store
    /\ ~Idle => Announces(store) /\ Announces(callStart) /\ target \notin txStart.revoked
=============================================================================
