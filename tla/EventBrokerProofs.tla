-------------------------- MODULE EventBrokerProofs --------------------------
(***************************************************************************)
(* Proofs about EventBroker, for every set of publishers and clients,      *)
(* every content of the blocks and every length of the chain.              *)
(***************************************************************************)
EXTENDS EventBroker, WellFoundedInduction, TLAPS

-----------------------------------------------------------------------------
(***************************************************************************)
(* Events, positions and sequences.                                        *)
(***************************************************************************)
\* Chain order is a strict order.
LEMMA BeforeOrder ==
    ASSUME NEW e \in Events, NEW f \in Events
    PROVE  /\ ~Before(e, e)
           /\ Before(e, f) => ~Before(f, e) /\ e # f
           /\ \A g \in Events : Before(e, f) /\ Before(f, g) => Before(e, g)
<1>1. e[1] \in Nat /\ e[2] \in Nat /\ f[1] \in Nat /\ f[2] \in Nat
  BY DEF Events
<1>2. \A g \in Events : g[1] \in Nat /\ g[2] \in Nat
  BY DEF Events
<1>. QED
  BY <1>1, <1>2 DEF Before

\* A non-empty set of positions has a least one, which Min returns.
LEMMA LeastPosition ==
    ASSUME NEW T \in SUBSET (Nat \ {0}), T # {}
    PROVE  Min(T) \in T /\ \A y \in T : Min(T) <= y
<1> DEFINE R == {p \in Nat \X Nat : p[1] < p[2]}
<1>1. IsWellFoundedOn(R, Nat)
  BY NatLessThanWellFounded DEF OpToRel
<1>2. PICK x \in T : \A y \in T : <<y, x>> \notin R
  <2>1. T \in SUBSET Nat
    OBVIOUS
  <2> HIDE DEF R
  <2>. QED
    BY <1>1, <2>1, WFMin
<1>3. \A y \in T : x <= y
  <2> TAKE y \in T
  <2>1. x \in Nat /\ y \in Nat /\ ~(y < x)
    BY <1>2
  <2>. QED
    BY <2>1
<1>. QED
  BY <1>3, Zenon DEF Min

\* The four kinds of listeners are told apart by their first component.
LEMMA ListenerKinds ==
    /\ DeployListener[1] = "deploy" /\ RegListener[1] = "reg"
    /\ \A p : PastListener(p)[1] = "past" /\ PastListener(p)[2] = p
    /\ \A c : ClientListener(c)[1] = "client" /\ ClientListener(c)[2] = c
  BY DEF DeployListener, RegListener, PastListener, ClientListener

\* Every listener is of one of them.
LEMMA ListenersAre ==
    /\ DeployListener \in Listeners /\ RegListener \in Listeners
    /\ \A p \in Publishers : PastListener(p) \in Listeners
    /\ \A c \in Clients : ClientListener(c) \in Listeners
    /\ \A l \in Listeners :
          \/ l = DeployListener \/ l = RegListener
          \/ \E p \in Publishers : l = PastListener(p)
          \/ \E c \in Clients : l = ClientListener(c)
  BY DEF Listeners

\* The elements of longer sequences.
LEMMA RangeFacts ==
    ASSUME NEW S, NEW s \in Seq(S), NEW t \in Seq(S), NEW e \in S
    PROVE  /\ Range(s) = {s[i] : i \in 1..Len(s)} /\ Range(s) \subseteq S
           /\ Range(Append(s, e)) = Range(s) \cup {e}
           /\ Range(s \o t) = Range(s) \cup Range(t)
<1>1. Range(s) = {s[i] : i \in 1..Len(s)} /\ Range(t) = {t[i] : i \in 1..Len(t)}
  BY DEF Range
<1>2. Range(s) \subseteq S
  BY <1>1
<1>3. Range(Append(s, e)) = Range(s) \cup {e}
  <2>1. /\ DOMAIN Append(s, e) = 1..(Len(s) + 1) /\ Append(s, e)[Len(s) + 1] = e
        /\ \A i \in 1..Len(s) : Append(s, e)[i] = s[i]
    OBVIOUS
  <2>. QED
    BY <1>1, <2>1 DEF Range
<1>4. Range(s \o t) = Range(s) \cup Range(t)
  <2>1. /\ DOMAIN (s \o t) = 1..(Len(s) + Len(t))
        /\ \A i \in 1..Len(s) : (s \o t)[i] = s[i]
        /\ \A i \in 1..Len(t) : (s \o t)[Len(s) + i] = t[i]
    OBVIOUS
  <2>2. ASSUME NEW x \in Range(s \o t) PROVE x \in Range(s) \cup Range(t)
    <3>1. PICK i \in 1..(Len(s) + Len(t)) : x = (s \o t)[i]
      BY <2>1 DEF Range
    <3>2. CASE i <= Len(s)
      BY <1>1, <2>1, <3>1, <3>2
    <3>3. CASE i > Len(s)
      <4>1. i - Len(s) \in 1..Len(t) /\ i = Len(s) + (i - Len(s))
        BY <3>1, <3>3
      <4>. QED
        BY <1>1, <2>1, <3>1, <4>1
    <3>. QED
      BY <3>1, <3>2, <3>3
  <2>3. ASSUME NEW x \in Range(s) PROVE x \in Range(s \o t)
    BY <1>1, <2>1 DEF Range
  <2>4. ASSUME NEW x \in Range(t) PROVE x \in Range(s \o t)
    <3>1. PICK i \in 1..Len(t) : x = t[i]
      BY <1>1
    <3>2. Len(s) + i \in DOMAIN (s \o t)
      BY <2>1
    <3>. QED
      BY <2>1, <3>1, <3>2 DEF Range
  <2>. QED
    BY <2>2, <2>3, <2>4
<1>. QED
  BY <1>1, <1>2, <1>3, <1>4
-----------------------------------------------------------------------------
(***************************************************************************)
(* Two runs.                                                               *)
(***************************************************************************)
\* The next event that the listener queues continues the second run.
LEMMA RunsGrow ==
    ASSUME NEW s \in Seq(Events), NEW m \in 0..Len(s), NEW later \in SUBSET Events,
           TwoRuns(s, m, later), NEW e \in later, \A f \in later \ {e} : Before(e, f)
    PROVE  TwoRuns(Append(s, e), m, later \ {e})
<1> DEFINE t == Append(s, e)
<1>1. /\ Len(t) = Len(s) + 1 /\ t[Len(s) + 1] = e /\ Len(s) \in Nat
      /\ \A i \in 1..Len(s) : t[i] = s[i]
  OBVIOUS
<1>2. ASSUME NEW i \in 1..Len(t), NEW j \in 1..Len(t), i < j, j <= m \/ m < i
      PROVE  Before(t[i], t[j])
  <2>1. i \in 1..Len(s) /\ t[i] = s[i]
    BY <1>1, <1>2
  <2>2. CASE j = Len(s) + 1
    BY <1>1, <1>2, <2>1, <2>2 DEF TwoRuns
  <2>3. CASE j # Len(s) + 1
    BY <1>1, <1>2, <2>1, <2>3 DEF TwoRuns
  <2>. QED
    BY <2>2, <2>3
<1>3. ASSUME NEW i \in 1..Len(t), NEW f \in later \ {e}, m < i
      PROVE  Before(t[i], f)
  <2>1. CASE i = Len(s) + 1
    BY <1>1, <2>1
  <2>2. CASE i # Len(s) + 1
    BY <1>1, <1>3, <2>2 DEF TwoRuns
  <2>. QED
    BY <2>1, <2>2
<1>4. ASSUME NEW i \in 1..m, NEW f \in (later \ {e}) \cup {t[j] : j \in (m + 1)..Len(t)},
             Before(f, t[i])
      PROVE  \E k \in 1..i : t[k] = f
  <2>1. i \in 1..Len(s)
    OBVIOUS
  <2>2. f \in later \cup {s[j] : j \in (m + 1)..Len(s)}
    <3>1. CASE f \in later
      BY <3>1
    <3>2. CASE f \notin later
      <4>1. PICK j \in (m + 1)..Len(t) : f = t[j]
        BY <3>2
      <4>2. j # Len(s) + 1
        BY <1>1, <3>2, <4>1
      <4>3. j \in (m + 1)..Len(s) /\ f = s[j]
        BY <1>1, <4>1, <4>2
      <4>. QED
        BY <4>3
    <3>. QED
      BY <3>1, <3>2
  <2>3. PICK k \in 1..i : s[k] = f
    BY <1>1, <1>4, <2>1, <2>2 DEF TwoRuns
  <2>. QED
    BY <1>1, <2>1, <2>3
<1> HIDE DEF t
<1>. QED
  BY <1>2, <1>3, <1>4 DEF TwoRuns

\* Between blocks new events may be planned: all that was promised is earlier.
LEMMA RunsPlan ==
    ASSUME NEW s \in Seq(Events), NEW m \in 0..Len(s), NEW old, TwoRuns(s, m, old),
           NEW later \in SUBSET Events, \A e \in later : \A f \in Range(s) : Before(f, e)
    PROVE  TwoRuns(s, m, later)
<1>1. \A i \in 1..Len(s) : s[i] \in Range(s) /\ s[i] \in Events
  BY DEF Range
<1>2. \A i \in 1..Len(s), e \in later : m < i => Before(s[i], e)
  BY <1>1
<1>3. ASSUME NEW i \in 1..m, NEW e \in later \cup {s[j] : j \in (m + 1)..Len(s)},
             Before(e, s[i])
      PROVE  \E k \in 1..i : s[k] = e
  <2>1. i \in 1..Len(s)
    OBVIOUS
  <2>2. e \notin later
    BY <1>1, <1>3, <2>1, BeforeOrder
  <2>. QED
    BY <1>3, <2>2 DEF TwoRuns
<1>. QED
  BY <1>2, <1>3 DEF TwoRuns

\* The past events of the reply go in front of what was queued since.
LEMMA RunsJoin ==
    ASSUME NEW p \in Seq(Events), NEW q \in Seq(Events), NEW later \in SUBSET Events,
           TwoRuns(q, 0, later), InOrder(p),
           \A e \in Range(q) \cup later, i \in 1..Len(p) :
              Before(e, p[i]) => \E k \in 1..i : p[k] = e
    PROVE  TwoRuns(p \o q, Len(p), later)
<1> DEFINE s == p \o q
           m == Len(p)
<1>1. /\ s \in Seq(Events) /\ m \in Nat /\ Len(q) \in Nat /\ Len(s) = m + Len(q)
      /\ \A i \in 1..m : s[i] = p[i]
      /\ \A i \in 1..Len(q) : s[m + i] = q[i]
  OBVIOUS
<1>2. \A i \in (m + 1)..Len(s) : i - m \in 1..Len(q) /\ s[i] = q[i - m]
  <2> SUFFICES ASSUME NEW i \in (m + 1)..Len(s)
               PROVE  i - m \in 1..Len(q) /\ s[i] = q[i - m]
    OBVIOUS
  <2>1. i - m \in 1..Len(q) /\ i = m + (i - m)
    BY <1>1
  <2>. QED
    BY <1>1, <2>1
<1> HIDE DEF s, m
<1>3. ASSUME NEW i \in 1..Len(s), NEW j \in 1..Len(s), i < j, j <= m \/ m < i
      PROVE  Before(s[i], s[j])
  <2>1. CASE j <= m
    BY <1>1, <1>3, <2>1 DEF InOrder, m
  <2>2. CASE m < i
    <3>1. i \in (m + 1)..Len(s) /\ j \in (m + 1)..Len(s)
      BY <1>1, <1>3, <2>2
    <3>2. /\ i - m \in 1..Len(q) /\ j - m \in 1..Len(q) /\ i - m < j - m /\ 0 < i - m
          /\ s[i] = q[i - m] /\ s[j] = q[j - m]
      BY <1>1, <1>2, <1>3, <3>1
    <3>. QED
      BY <3>2 DEF TwoRuns
  <2>. QED
    BY <1>3, <2>1, <2>2
<1>4. ASSUME NEW i \in 1..Len(s), NEW e \in later, m < i
      PROVE  Before(s[i], e)
  <2>1. i \in (m + 1)..Len(s)
    BY <1>1, <1>4
  <2>2. i - m \in 1..Len(q) /\ 0 < i - m /\ s[i] = q[i - m]
    BY <1>1, <1>2, <2>1
  <2>. QED
    BY <2>2 DEF TwoRuns
<1>5. ASSUME NEW i \in 1..m, NEW e \in later \cup {s[j] : j \in (m + 1)..Len(s)},
             Before(e, s[i])
      PROVE  \E k \in 1..i : s[k] = e
  <2>1. e \in Range(q) \cup later
    <3>1. CASE e \in later
      BY <3>1
    <3>2. CASE e \notin later
      <4>1. PICK j \in (m + 1)..Len(s) : e = s[j]
        BY <3>2
      <4>. QED
        BY <1>2, <4>1 DEF Range
    <3>. QED
      BY <3>1, <3>2
  <2>2. i \in 1..Len(p) /\ s[i] = p[i]
    BY <1>1 DEF m
  <2>3. PICK k \in 1..i : p[k] = e
    BY <1>5, <2>1, <2>2
  <2>4. k \in 1..m
    BY <1>1
  <2>. QED
    BY <1>1, <2>3, <2>4
<1>6. TwoRuns(s, m, later)
  BY <1>3, <1>4, <1>5 DEF TwoRuns
<1>. QED
  BY <1>6 DEF s, m

\* In two runs no unseen event follows a later one, and none occurs three times.
LEMMA RunsOrder ==
    ASSUME NEW g \in Seq(Events), NEW r \in Seq(Events), NEW m \in 0..Len(g \o r), NEW later,
           TwoRuns(g \o r, m, later)
    PROVE  /\ \A i, j \in 1..Len(g) :
                 (i < j /\ Before(g[j], g[i])) => \E k \in 1..i : g[k] = g[j]
           /\ \A i, j, k \in 1..Len(g) :
                 (i < j /\ j < k) => ~(g[i] = g[j] /\ g[j] = g[k])
<1> DEFINE s == g \o r
<1>1. /\ Len(g) \in Nat /\ Len(s) \in Nat /\ Len(g) <= Len(s) /\ s \in Seq(Events)
      /\ \A i \in 1..Len(g) : s[i] = g[i] /\ i \in 1..Len(s) /\ g[i] \in Events
  OBVIOUS
<1>2. m \in 0..Len(s) /\ TwoRuns(s, m, later)
  OBVIOUS
<1> HIDE DEF s
<1>3. \A i, j \in 1..Len(g) : i < j /\ (j <= m \/ m < i) => Before(g[i], g[j])
  BY <1>1, <1>2 DEF TwoRuns
<1>4. ASSUME NEW i \in 1..Len(g), NEW j \in 1..Len(g), i < j, Before(g[j], g[i])
      PROVE  \E k \in 1..i : g[k] = g[j]
  <2>1. ~Before(g[i], g[j])
    BY <1>1, <1>4, BeforeOrder
  <2>2. i \in 1..m /\ j \in (m + 1)..Len(s)
    BY <1>1, <1>2, <1>3, <1>4, <2>1
  <2>3. Before(s[j], s[i])
    BY <1>1, <1>4
  <2>4. PICK k \in 1..i : s[k] = s[j]
    BY <1>2, <2>2, <2>3 DEF TwoRuns
  <2>. QED
    BY <1>1, <2>4
<1>5. ASSUME NEW i \in 1..Len(g), NEW j \in 1..Len(g), NEW k \in 1..Len(g), i < j, j < k,
             g[i] = g[j], g[j] = g[k]
      PROVE  FALSE
  <2>1. Before(g[i], g[j]) \/ Before(g[j], g[k])
    BY <1>1, <1>2, <1>3, <1>5
  <2>. QED
    BY <1>1, <1>5, <2>1, BeforeOrder
<1>. QED
  BY <1>4, <1>5
-----------------------------------------------------------------------------
(***************************************************************************)
(* The callback plan.                                                      *)
(***************************************************************************)
BlockThread ==
    [pc : {"idle", "run", "store", "push", "stopped"},
     plan : SUBSET [lst : Listeners, logs : SUBSET (Nat \ {0})],
     cur : SUBSET Listeners]

\* What a planned callback is.
LEMMA PlanEntry ==
    ASSUME TypeOK, PlanOK, NEW pl \in blk.plan
    PROVE  /\ pl \in [lst : Listeners, logs : SUBSET (Nat \ {0})]
           /\ Min(pl.logs) \in pl.logs /\ \A i \in pl.logs : Min(pl.logs) <= i
           /\ Len(chain) \in Nat \ {0}
           /\ LastBlock \in Seq(Logs)
           /\ EventOf(pl) \in Events
           /\ \A x : x \in Pending(pl.lst) <=> \E i \in pl.logs : x = <<Len(chain), i>>
           /\ EventOf(pl) \in Pending(pl.lst)
<1>1. pl \in [lst : Listeners, logs : SUBSET (Nat \ {0})]
  BY DEF TypeOK
<1>2. pl.logs \in SUBSET (Nat \ {0}) /\ pl.logs # {} /\ Len(chain) > 0
  BY <1>1 DEF PlanOK
<1>3. Min(pl.logs) \in pl.logs /\ \A i \in pl.logs : Min(pl.logs) <= i
  BY <1>2, LeastPosition
<1>4. Len(chain) \in Nat \ {0} /\ LastBlock \in Seq(Logs)
  BY <1>2 DEF TypeOK, LastBlock
<1>5. EventOf(pl) \in Events
  BY <1>2, <1>3, <1>4 DEF EventOf, Events
<1>6. \A x : x \in Pending(pl.lst) <=> \E i \in pl.logs : x = <<Len(chain), i>>
  <2>1. {x \in blk.plan : x.lst = pl.lst} = {pl}
    BY DEF PlanOK
  <2>2. Pending(pl.lst) = {<<Len(chain), i>> : i \in pl.logs}
    BY <2>1 DEF Pending
  <2>. QED
    BY <2>2
<1>7. EventOf(pl) \in Pending(pl.lst)
  BY <1>3, <1>6 DEF EventOf
<1>. QED
  BY <1>1, <1>3, <1>4, <1>5, <1>6, <1>7

\* What is pending is planned, and of the last block.
LEMMA PendingPlanned ==
    ASSUME TypeOK, PlanOK, NEW l, NEW e \in Pending(l)
    PROVE  /\ e \in Events /\ e[1] = Len(chain)
           /\ \E pl \in blk.plan : pl.lst = l /\ e[2] \in pl.logs /\ e = <<Len(chain), e[2]>>
<1>1. PICK pl \in blk.plan : pl.lst = l /\ \E i \in pl.logs : e = <<Len(chain), i>>
  BY DEF Pending
<1>2. PICK i \in pl.logs : e = <<Len(chain), i>>
  BY <1>1
<1>3. i \in Nat \ {0} /\ Len(chain) \in Nat \ {0}
  BY PlanEntry
<1>. QED
  BY <1>1, <1>2, <1>3 DEF Events

\* Without an entry nothing is pending.
LEMMA PendingNone ==
    ASSUME NEW l, \A pl \in blk.plan : pl.lst # l
    PROVE  Pending(l) = {}
  BY DEF Pending

\* A callback that returns takes its event out of the plan, the earliest of its listener.
LEMMA CalledPlan ==
    ASSUME TypeOK, PlanOK, NEW pl \in blk.plan, blk' = Called(pl), chain' = chain
    PROVE  /\ \A f \in Pending(pl.lst) \ {EventOf(pl)} : Before(EventOf(pl), f)
           /\ Pending(pl.lst)' = Pending(pl.lst) \ {EventOf(pl)}
           /\ \A l : l # pl.lst => Pending(l)' = Pending(l)
           /\ blk' \in BlockThread /\ blk'.pc = "run"
           /\ \A x, y \in blk'.plan : x.lst = y.lst => x = y
           /\ \A x \in blk'.plan : /\ x.logs # {}
                                   /\ \E y \in blk.plan : x.lst = y.lst /\ x.logs \subseteq y.logs
           /\ \A y \in blk.plan : y.lst # pl.lst => y \in blk'.plan
           /\ \A i \in pl.logs \ {Min(pl.logs)} :
                 \E x \in blk'.plan : x.lst = pl.lst /\ i \in x.logs
<1> DEFINE m == Min(pl.logs)
           rest == [pl EXCEPT !.logs = @ \ {m}]
           done == rest.logs = {}
<1>1. /\ pl \in [lst : Listeners, logs : SUBSET (Nat \ {0})]
      /\ m \in pl.logs /\ \A i \in pl.logs : m <= i
      /\ Len(chain) \in Nat \ {0}
      /\ \A x : x \in Pending(pl.lst) <=> \E i \in pl.logs : x = <<Len(chain), i>>
  BY PlanEntry
<1>2. /\ rest \in [lst : Listeners, logs : SUBSET (Nat \ {0})]
      /\ rest.lst = pl.lst /\ rest.logs = pl.logs \ {m}
  BY <1>1
<1>3. /\ blk'.pc = "run"
      /\ blk'.plan = (blk.plan \ {pl}) \cup (IF done THEN {} ELSE {rest})
      /\ blk' \in BlockThread
  <2>1. blk' = [pc |-> "run",
                plan |-> (blk.plan \ {pl}) \cup (IF done THEN {} ELSE {rest}),
                cur |-> IF done THEN {} ELSE {pl.lst}]
    BY DEF Called
  <2>2. /\ (blk.plan \ {pl}) \cup (IF done THEN {} ELSE {rest})
              \in SUBSET [lst : Listeners, logs : SUBSET (Nat \ {0})]
        /\ (IF done THEN {} ELSE {pl.lst}) \in SUBSET Listeners
    BY <1>1, <1>2 DEF TypeOK
  <2> HIDE DEF rest
  <2>. QED
    BY <2>1, <2>2 DEF BlockThread
<1> HIDE DEF rest
<1>4. \A x, y \in blk.plan : x.lst = y.lst => x = y
  BY DEF PlanOK
<1>5. \A x \in blk'.plan : x = rest \/ (x \in blk.plan /\ x.lst # pl.lst)
  BY <1>3, <1>4
<1>6. \A f \in Pending(pl.lst) \ {EventOf(pl)} : Before(EventOf(pl), f)
  <2> SUFFICES ASSUME NEW f \in Pending(pl.lst), f # EventOf(pl) PROVE Before(EventOf(pl), f)
    OBVIOUS
  <2>1. PICK i \in pl.logs : f = <<Len(chain), i>>
    BY <1>1
  <2>2. i # m /\ i \in Nat /\ m \in Nat /\ m <= i
    BY <1>1, <2>1 DEF EventOf
  <2>. QED
    BY <2>1, <2>2, <1>1 DEF Before, EventOf
<1>7. Pending(pl.lst)' = Pending(pl.lst) \ {EventOf(pl)}
  <2>1. Pending(pl.lst)' = UNION {{<<Len(chain), i>> : i \in x.logs} :
                                     x \in {y \in blk'.plan : y.lst = pl.lst}}
    BY DEF Pending
  <2>2. CASE done
    <3>1. {y \in blk'.plan : y.lst = pl.lst} = {}
      BY <1>3, <1>4, <2>2
    <3>2. pl.logs = {m}
      BY <1>1, <1>2, <2>2
    <3>3. Pending(pl.lst) \ {EventOf(pl)} = {}
      BY <1>1, <3>2 DEF EventOf
    <3>. QED
      BY <2>1, <3>1, <3>3
  <2>3. CASE ~done
    <3>1. {y \in blk'.plan : y.lst = pl.lst} = {rest}
      BY <1>2, <1>3, <1>4, <2>3
    <3>2. Pending(pl.lst)' = {<<Len(chain), i>> : i \in rest.logs}
      BY <2>1, <3>1
    <3>3. \A x : x \in Pending(pl.lst)' <=> x \in Pending(pl.lst) /\ x # EventOf(pl)
      <4>1. \A i \in pl.logs : <<Len(chain), i>> = EventOf(pl) <=> i = m
        BY DEF EventOf
      <4>. QED
        BY <1>1, <1>2, <3>2, <4>1
    <3>. QED
      BY <3>3
  <2>. QED
    BY <2>2, <2>3
<1>8. ASSUME NEW l, l # pl.lst PROVE Pending(l)' = Pending(l)
  <2>1. {y \in blk'.plan : y.lst = l} = {y \in blk.plan : y.lst = l}
    BY <1>2, <1>3, <1>8
  <2>. QED
    BY <2>1 DEF Pending
<1>9. \A x, y \in blk'.plan : x.lst = y.lst => x = y
  BY <1>2, <1>4, <1>5
<1>10. ASSUME NEW x \in blk'.plan
       PROVE  x.logs # {} /\ \E y \in blk.plan : x.lst = y.lst /\ x.logs \subseteq y.logs
  <2>1. CASE x = rest /\ ~done
    BY <1>2, <2>1
  <2>2. CASE x \in blk.plan
    BY <2>2 DEF PlanOK
  <2>. QED
    BY <1>3, <2>1, <2>2
<1>11. \A y \in blk.plan : y.lst # pl.lst => y \in blk'.plan
  BY <1>3
<1>12. \A i \in pl.logs \ {m} : \E x \in blk'.plan : x.lst = pl.lst /\ i \in x.logs
  BY <1>2, <1>3
<1>. QED
  BY <1>3, <1>6, <1>7, <1>8, <1>9, <1>10, <1>11, <1>12
-----------------------------------------------------------------------------
(***************************************************************************)
(* Steps that leave the service, or a client, as it is.                    *)
(***************************************************************************)
\* What NeverReordered and AtMostTwice say of one client.
OrderOK(c) ==
    /\ \A i, j \in 1..Len(got[c].events) :
          (i < j /\ Before(got[c].events[j], got[c].events[i])) =>
              \E k \in 1..i : got[c].events[k] = got[c].events[j]
    /\ \A i, j, k \in 1..Len(got[c].events) :
          (i < j /\ j < k) =>
              ~(got[c].events[i] = got[c].events[j]
                  /\ got[c].events[j] = got[c].events[k])

ServiceInv == PlanOK /\ StoreOK /\ FollowOK /\ LaterEventsStored

ClientInv(c) ==
    /\ RequestOK(c) /\ FlowOK(c) /\ OrderOK(c)
    /\ ClaimOK(req[c].blk) /\ ToldOK(c)

CoverOK(c) ==
    /\ req[c].pc = "reads" => req[c].todo \in {<<"blk", "past">>, <<"past">>, <<>>}
    /\ Covered(c) /\ Caught(c)

\* The invariant, component by component.
LEMMA InvParts ==
    IndInv <=> /\ TypeOK /\ ServiceInv /\ EmittersOK /\ ClaimOK(hb.blk)
               /\ \A c \in Clients : ClientInv(c)
<1>1. NeverReordered /\ AtMostTwice <=> \A c \in Clients : OrderOK(c)
  BY DEF NeverReordered, AtMostTwice, OrderOK
<1>. QED
  BY <1>1, Zenon DEF IndInv, ServiceInv, ClientInv

\* The same of the next state.
LEMMA InvPartsNext ==
    ASSUME TypeOK', ServiceInv', EmittersOK', ClaimOK(hb.blk)',
           \A c \in Clients : ClientInv(c)'
    PROVE  IndInv'
<1>1. NeverReordered'
  BY Zenon DEF ClientInv, OrderOK, NeverReordered
<1>2. AtMostTwice'
  BY Zenon DEF ClientInv, OrderOK, AtMostTwice
<1>3. \A c \in Clients : RequestOK(c)' /\ FlowOK(c)' /\ ClaimOK(req[c].blk)' /\ ToldOK(c)'
  BY Zenon DEF ClientInv
<1>. QED
  BY <1>1, <1>2, <1>3, Zenon DEF IndInv, ServiceInv

\* What is stored for a client's publisher, in the next state.
LEMMA StoredNext ==
    \A c, p : p = req'[c].pub =>
        /\ Stored(req[c].pub)' = Stored(p)'
        /\ Pending(PastListener(req[c].pub))' = Pending(PastListener(p))'
  BY DEF Stored, Pending, PastListener

\* A step of a request or of the heartbeat touches no listener but a client's.
LEMMA ServiceSteady ==
    ASSUME ServiceInv, UNCHANGED <<chainVars, blk, svcVars>>,
           \A l \in Listeners : l[1] # "client" => (l \in listeners' <=> l \in listeners),
           TypeOK
    PROVE  /\ ServiceInv'
           /\ \A l : Pending(l)' = Pending(l)
           /\ \A p : Stored(p)' = Stored(p)
           /\ \A n : ClaimOK(n) => ClaimOK(n)'
<1>1. chain' = chain /\ lastValidated' = lastValidated /\ blk' = blk
      /\ evMgrAddr' = evMgrAddr /\ past' = past
  BY DEF chainVars, svcVars
<1>2. \A l : Pending(l)' = Pending(l)
  BY <1>1 DEF Pending
<1>3. \A p : Stored(p)' = Stored(p)
  BY <1>1, <1>2 DEF Stored
<1>4. \A n : ClaimOK(n) => ClaimOK(n)'
  BY <1>1 DEF ClaimOK, MonitorFree
<1>5. /\ DeployListener \in listeners' <=> DeployListener \in listeners
      /\ RegListener \in listeners' <=> RegListener \in listeners
      /\ \A p \in Publishers : PastListener(p) \in listeners' <=> PastListener(p) \in listeners
  BY ListenersAre, ListenerKinds
<1>6. PlanOK'
  <2>1. \A x \in blk.plan : x.lst[1] = "past" => x.lst \in listeners'
    <3> SUFFICES ASSUME NEW x \in blk.plan, x.lst[1] = "past" PROVE x.lst \in listeners'
      OBVIOUS
    <3>1. x.lst \in Listeners
      BY DEF TypeOK
    <3>2. x.lst \in listeners
      BY DEF ServiceInv, PlanOK
    <3>. QED
      BY <3>1, <3>2
  <2>. QED
    BY <1>1, <2>1 DEF ServiceInv, PlanOK, MonitorFree, LastBlock
<1>7. StoreOK'
  <2>1. \A p \in evMgrAddr : p \in Publishers
    BY DEF TypeOK
  <2>2. \A p \in Publishers : PastListener(p) \in listeners' => p \in DOMAIN past
    BY <1>5 DEF ServiceInv, StoreOK
  <2>3. \A p \in evMgrAddr :
          \/ PastListener(p) \in listeners'
          \/ blk.pc = "store" /\ \E pl \in blk.plan : pl.lst = RegListener /\ LogOf(pl).pub = p
    BY <1>5, <2>1 DEF ServiceInv, StoreOK
  <2>4. \A pl : LogOf(pl)' = LogOf(pl)
    BY <1>1 DEF LogOf
  <2>. QED
    BY <1>1, <1>2, <2>2, <2>3, <2>4 DEF ServiceInv, StoreOK
<1>8. FollowOK'
  <2>1. \A p \in Publishers : Followed(p)' <=> Followed(p)
    BY <1>5 DEF Followed
  <2>2. \A n, p : (DeployedIn(n)' <=> DeployedIn(n)) /\ (RegisteredIn(p, n)' <=> RegisteredIn(p, n))
    BY <1>1 DEF DeployedIn, RegisteredIn
  <2>3. LastBlock' = LastBlock
    BY <1>1 DEF LastBlock
  <2>. QED
    BY <1>1, <1>5, <2>1, <2>2, <2>3 DEF ServiceInv, FollowOK
<1>9. LaterEventsStored'
  BY <1>1, <1>3 DEF ServiceInv, LaterEventsStored
<1>. QED
  BY <1>2, <1>3, <1>4, <1>6, <1>7, <1>8, <1>9 DEF ServiceInv

\* A client whose own state a step leaves alone.
Untouched(c) ==
    /\ req'[c] = req[c] /\ got'[c] = got[c] /\ queue'[c] = queue[c]
    /\ InFlight(c)' = InFlight(c) /\ (Sending(c)' <=> Sending(c))
    /\ ClientListener(c) \in listeners' <=> ClientListener(c) \in listeners
    /\ Pending(ClientListener(c))' = Pending(ClientListener(c))
    /\ chain' = chain /\ evMgrAddr \subseteq evMgrAddr'
    /\ \A p \in Publishers \cup {"none"} : Stored(p)' = Stored(p)

\* It keeps its invariant.
LEMMA ClientSteady ==
    ASSUME NEW c \in Clients, TypeOK, Untouched(c), RequestOK(c), FlowOK(c), OrderOK(c)
    PROVE  RequestOK(c)' /\ FlowOK(c)' /\ OrderOK(c)'
<1>1. OrderOK(c)'
  BY DEF OrderOK, Untouched
<1>2. (Live(c)' <=> Live(c)) /\ (Unread(c)' <=> Unread(c))
  BY DEF Live, Unread, Untouched
<1>3. RequestOK(c)'
  BY <1>2 DEF RequestOK, Untouched, NoReply
<1>4. Promised(c)' = Promised(c)
  BY DEF Promised, Untouched
<1>5. Stored(req[c].pub)' = Stored(req[c].pub)
  <2>1. req[c].pub \in Publishers \cup {"none"} /\ req'[c].pub = req[c].pub
    BY DEF TypeOK, Untouched
  <2>2. PICK p \in Publishers \cup {"none"} : p = req[c].pub /\ p = req'[c].pub
    BY <2>1
  <2>3. Stored(req[c].pub)' = Stored(p)'
    BY <2>2, StoredNext
  <2>4. Stored(p)' = Stored(p)
    BY DEF Untouched
  <2>5. Stored(req[c].pub) = Stored(p)
    BY <2>2
  <2>. QED
    BY <2>3, <2>4, <2>5
<1>6. Pending(ClientListener(c))' = Pending(ClientListener(c)) /\ chain' = chain
      /\ queue'[c] = queue[c]
  BY DEF Untouched
<1>7. FlowOK(c)'
  BY <1>2, <1>4, <1>5, <1>6 DEF FlowOK
<1>. QED
  BY <1>1, <1>3, <1>7

\* And its cover, when no past event becomes pending.
LEMMA CoverSteady ==
    ASSUME NEW c \in Clients, TypeOK, Untouched(c), CoverOK(c),
           \A p \in Publishers \cup {"none"} :
              Pending(PastListener(p))' \subseteq Pending(PastListener(p))
    PROVE  CoverOK(c)'
<1>1. /\ req'[c] = req[c] /\ got'[c] = got[c] /\ queue'[c] = queue[c]
      /\ InFlight(c)' = InFlight(c) /\ (Sending(c)' <=> Sending(c))
      /\ Pending(ClientListener(c))' = Pending(ClientListener(c))
  BY DEF Untouched
<1>2. Promised(c)' = Promised(c)
  BY <1>1 DEF Promised
<1>3. (c \in Subscribed)' <=> c \in Subscribed
  BY <1>1 DEF Subscribed
<1>4. req[c].pub \in Publishers \cup {"none"} /\ req'[c].pub = req[c].pub
  BY <1>1 DEF TypeOK
<1>5. PICK p \in Publishers \cup {"none"} : p = req[c].pub /\ p = req'[c].pub
  BY <1>4
<1>6. /\ Stored(req[c].pub)' = Stored(req[c].pub)
      /\ Pending(PastListener(req[c].pub))' \subseteq Pending(PastListener(req[c].pub))
  <2>1. /\ Stored(req[c].pub)' = Stored(p)'
        /\ Pending(PastListener(req[c].pub))' = Pending(PastListener(p))'
    BY <1>5, StoredNext
  <2>2. Stored(p)' = Stored(p) /\ Pending(PastListener(p))' \subseteq Pending(PastListener(p))
    BY DEF Untouched
  <2>. QED
    BY <1>5, <2>1, <2>2
<1>7. Covered(c)'
  BY <1>1, <1>2, <1>3, <1>6 DEF CoverOK, Covered
<1>8. Caught(c)'
  BY <1>1, <1>3, <1>6 DEF CoverOK, Caught
<1>. QED
  BY <1>1, <1>7, <1>8 DEF CoverOK
-----------------------------------------------------------------------------
(***************************************************************************)
(* What a step has to show.                                                *)
(***************************************************************************)
\* The reply's arguments are evaluated in the order they are written in.
LeftToRight == ArgOrders \subseteq {<<"blk", "past">>}

\* A step that touches the clients in S only keeps the invariant if it does so
\* for the service, the emitters and the clients in S.
LEMMA StepDone ==
    ASSUME IndInv, NEW S \in SUBSET Clients, \A d \in Clients \ S : Untouched(d),
           \A n \in Nat : ClaimOK(n) => ClaimOK(n)',
           \A p \in Publishers \cup {"none"} :
              Pending(PastListener(p))' \subseteq Pending(PastListener(p)),
           TypeOK', ServiceInv', EmittersOK', ClaimOK(hb.blk)',
           \A c \in S : ClientInv(c)'
    PROVE  /\ IndInv'
           /\ CoverInv /\ (\A c \in S : CoverOK(c)') => CoverInv'
<1>1. TypeOK /\ \A c \in Clients : ClientInv(c)
  BY InvParts
<1>2. ASSUME NEW d \in Clients \ S PROVE ClientInv(d)'
  <2>1. ClientInv(d) /\ Untouched(d)
    BY <1>1
  <2>2. RequestOK(d)' /\ FlowOK(d)' /\ OrderOK(d)'
    BY <1>1, <2>1, ClientSteady DEF ClientInv
  <2>3. /\ req[d].blk \in Nat /\ req'[d].blk = req[d].blk
        /\ got[d].claim \in Nat /\ got'[d].claim = got[d].claim
        /\ got[d].prevClaim \in Nat /\ got'[d].prevClaim = got[d].prevClaim
    BY <1>1, <2>1 DEF TypeOK, Untouched
  <2>4. PICK n \in Nat, k \in Nat, j \in Nat :
           /\ n = req[d].blk /\ n = req'[d].blk /\ k = got[d].claim /\ k = got'[d].claim
           /\ j = got[d].prevClaim /\ j = got'[d].prevClaim
    BY <2>3
  <2>5. ClaimOK(n)' /\ ClaimOK(k)' /\ ClaimOK(j)'
    BY <2>1, <2>4 DEF ClientInv, ToldOK
  <2>6. ClaimOK(req[d].blk)' /\ ToldOK(d)'
    BY <2>4, <2>5 DEF ClaimOK, ToldOK
  <2>. QED
    BY <2>2, <2>6 DEF ClientInv
<1>3. IndInv'
  BY <1>2, InvPartsNext
<1>4. ASSUME CoverInv, \A c \in S : CoverOK(c)'
      PROVE  CoverInv'
  <2>1. \A d \in Clients : CoverOK(d)
    BY <1>4 DEF CoverInv, CoverOK
  <2>2. ASSUME NEW d \in Clients \ S PROVE CoverOK(d)'
    BY <1>1, <2>1, CoverSteady
  <2>3. \A d \in Clients : CoverOK(d)'
    BY <1>4, <2>2
  <2>. QED
    BY <2>3 DEF CoverInv, CoverOK
<1>. QED
  BY <1>3, <1>4

\* A step of a request or of the heartbeat touches the clients in S only.
Touches(S) ==
    /\ UNCHANGED <<chainVars, blk, svcVars>>
    /\ \A l \in Listeners :
          (\A c \in S : l # ClientListener(c)) => (l \in listeners' <=> l \in listeners)
    /\ \A d \in Clients \ S :
          /\ req'[d] = req[d] /\ got'[d] = got[d] /\ queue'[d] = queue[d]
          /\ InFlight(d)' = InFlight(d) /\ (Sending(d)' <=> Sending(d))

\* So only these, the emitters and the claim in flight have to be looked at.
LEMMA TouchesOnly ==
    ASSUME IndInv, NEW S \in SUBSET Clients, Touches(S)
    PROVE  /\ ServiceInv'
           /\ \A l : Pending(l)' = Pending(l)
           /\ \A p : Stored(p)' = Stored(p)
           /\ \A n : ClaimOK(n) => ClaimOK(n)'
           /\ \A d \in Clients \ S : Untouched(d)
           /\ TypeOK' /\ EmittersOK' /\ ClaimOK(hb.blk)' /\ (\A c \in S : ClientInv(c)') =>
                 /\ IndInv'
                 /\ CoverInv /\ (\A c \in S : CoverOK(c)') => CoverInv'
<1>1. TypeOK /\ ServiceInv
  BY InvParts
<1>2. \A l \in Listeners : l[1] # "client" => (l \in listeners' <=> l \in listeners)
  BY ListenerKinds DEF Touches
<1>3. /\ ServiceInv'
      /\ \A l : Pending(l)' = Pending(l)
      /\ \A p : Stored(p)' = Stored(p)
      /\ \A n : ClaimOK(n) => ClaimOK(n)'
  BY <1>1, <1>2, ServiceSteady DEF Touches
<1>4. ASSUME NEW d \in Clients \ S PROVE Untouched(d)
  <2>1. ClientListener(d) \in Listeners /\ \A c \in S : ClientListener(d) # ClientListener(c)
    BY ListenersAre, ListenerKinds
  <2>2. ClientListener(d) \in listeners' <=> ClientListener(d) \in listeners
    BY <2>1 DEF Touches
  <2>3. chain' = chain /\ evMgrAddr' = evMgrAddr
    BY DEF Touches, chainVars, svcVars
  <2>. QED
    BY <1>3, <2>2, <2>3 DEF Touches, Untouched
<1>5. ASSUME TypeOK', EmittersOK', ClaimOK(hb.blk)', \A c \in S : ClientInv(c)'
      PROVE  /\ IndInv'
             /\ CoverInv /\ (\A c \in S : CoverOK(c)') => CoverInv'
  BY <1>3, <1>4, <1>5, StepDone
<1>. QED
  BY <1>3, <1>4, <1>5

\* The emitters' lists stay right while their clients stay active.
LEMMA EmittersSteady ==
    ASSUME IndInv, UNCHANGED <<emitters, hb>>,
           \A c \in Clients : req[c].pc = "active" => req'[c].pc = "active"
    PROVE  EmittersOK' /\ (ClaimOK(hb.blk)' <=> \A n : n = hb.blk => ClaimOK(n)')
<1>1. TypeOK /\ EmittersOK /\ emitters' = emitters /\ hb' = hb
  BY InvParts
<1>2. Range(emitters) \subseteq Clients /\ Range(hb.kept) \subseteq Clients
      /\ Range(hb.todo) \subseteq Clients
  BY <1>1 DEF TypeOK, Range
<1>3. EmittersOK'
  BY <1>1, <1>2 DEF EmittersOK
<1>4. ClaimOK(hb.blk)' <=> \A n : n = hb.blk => ClaimOK(n)'
  BY <1>1 DEF ClaimOK
<1>. QED
  BY <1>3, <1>4

\* Only an active client is being sent to.
LEMMA NotSending ==
    ASSUME TypeOK, EmittersOK, NEW c \in Clients, req[c].pc # "active"
    PROVE  ~Sending(c) /\ InFlight(c) = <<>>
<1>1. hb.pc \in {"drained", "send"} => hb.todo # <<>> /\ hb.todo \in Seq(Clients)
  BY DEF TypeOK, EmittersOK
<1>2. hb.pc \in {"drained", "send"} => Head(hb.todo) \in Range(hb.todo)
  BY <1>1 DEF Range
<1>3. ~Sending(c)
  BY <1>2 DEF Sending, EmittersOK
<1>. QED
  BY <1>3 DEF Sending, InFlight
-----------------------------------------------------------------------------
(***************************************************************************)
(* The steps of a request.                                                 *)
(***************************************************************************)
RequestThread ==
    [pc : {"none", "refused", "reads", "replied", "active", "failed"},
     pub : Publishers \cup {"none"}, todo : Seq({"blk", "past"}),
     blk : Nat, past : Seq(Events)]

\* A request that changes its thread's state and the client's own listener only.
LEMMA RequestStep ==
    ASSUME IndInv, NEW c \in Clients, NEW r \in RequestThread,
           req' = [req EXCEPT ![c] = r],
           UNCHANGED <<chainVars, blk, svcVars, queue, emitters, hb, got>>,
           listeners' = listeners \/ listeners' = listeners \cup {ClientListener(c)},
           req[c].pc = "active" => r.pc = "active"
    PROVE  /\ Touches({c}) /\ TypeOK' /\ EmittersOK' /\ ClaimOK(hb.blk)' /\ req'[c] = r
           /\ InFlight(c)' = InFlight(c) /\ (Sending(c)' <=> Sending(c))
           /\ OrderOK(c)'
           /\ ToldOK(c)'
           /\ ClaimOK(req[c].blk)' <=> ClaimOK(r.blk)
           /\ Promised(c)' = ((got[c].events \o r.past) \o InFlight(c)) \o queue[c]
           /\ Stored(req[c].pub)' = Stored(r.pub)
           /\ Pending(PastListener(req[c].pub))' = Pending(PastListener(r.pub))
           /\ \A l : Pending(l)' = Pending(l)
<1>1. TypeOK /\ ServiceInv /\ EmittersOK /\ ClaimOK(hb.blk) /\ ClientInv(c)
  BY InvParts
<1>2. /\ chain' = chain /\ lastValidated' = lastValidated /\ blk' = blk /\ queue' = queue
      /\ evMgrAddr' = evMgrAddr /\ past' = past /\ emitters' = emitters /\ hb' = hb /\ got' = got
  BY DEF chainVars, svcVars
<1>3. req'[c] = r /\ \A d \in Clients \ {c} : req'[d] = req[d]
  BY <1>1 DEF TypeOK
<1>4. \A d : InFlight(d)' = InFlight(d) /\ (Sending(d)' <=> Sending(d))
  BY <1>2 DEF InFlight, Sending
<1>5. Touches({c})
  BY <1>2, <1>3, <1>4 DEF Touches
<1>6. TypeOK'
  <2>1. req' \in [Clients -> RequestThread]
    BY <1>1 DEF TypeOK, RequestThread
  <2>2. listeners' \subseteq Listeners
    BY <1>1, ListenersAre DEF TypeOK
  <2>. QED
    BY <1>1, <1>2, <2>1, <2>2 DEF TypeOK, RequestThread
<1>7. /\ \A n : ClaimOK(n)' <=> ClaimOK(n)
  BY <1>2 DEF ClaimOK, MonitorFree
<1>8. EmittersOK' /\ ClaimOK(hb.blk)'
  <2>1. \A d \in Clients : req[d].pc = "active" => req'[d].pc = "active"
    BY <1>3
  <2>. QED
    BY <1>1, <1>7, <2>1, EmittersSteady
<1>9. OrderOK(c)' /\ ToldOK(c)'
  <2>1. OrderOK(c)'
    BY <1>1, <1>2 DEF ClientInv, OrderOK
  <2>2. ToldOK(c)'
    BY <1>1, <1>2 DEF ClientInv, ToldOK, ClaimOK, MonitorFree
  <2>. QED
    BY <2>1, <2>2
<1>10. ClaimOK(req[c].blk)' <=> ClaimOK(r.blk)
  BY <1>2, <1>3 DEF ClaimOK, MonitorFree
<1>11. Promised(c)' = ((got[c].events \o r.past) \o InFlight(c)) \o queue[c]
  BY <1>2, <1>3, <1>4 DEF Promised
<1>12. \A l : Pending(l)' = Pending(l)
  BY <1>2 DEF Pending
<1>13. \A p : Stored(p)' = Stored(p)
  BY <1>2, <1>12 DEF Stored
<1>14. Stored(req[c].pub)' = Stored(r.pub)
       /\ Pending(PastListener(req[c].pub))' = Pending(PastListener(r.pub))
  <2>1. PICK p : p = r.pub /\ p = req'[c].pub
    BY <1>3
  <2>2. Stored(req[c].pub)' = Stored(p)'
        /\ Pending(PastListener(req[c].pub))' = Pending(PastListener(p))'
    BY <2>1, StoredNext
  <2>. QED
    BY <1>12, <1>13, <2>1, <2>2
<1>. QED
  BY <1>3, <1>4, <1>5, <1>6, <1>8, <1>9, <1>10, <1>11, <1>12, <1>14

\* What such a step has to show: of the client, and of its cover.
LEMMA RequestDone ==
    ASSUME IndInv, NEW c \in Clients, Touches({c}), TypeOK', EmittersOK', ClaimOK(hb.blk)',
           ClientInv(c)', LeftToRight /\ CoverInv => CoverOK(c)'
    PROVE  IndInv' /\ (LeftToRight /\ CoverInv => CoverInv')
  BY TouchesOnly

\* The empty sequence has two empty runs.
LEMMA NoRuns == TwoRuns(<<>>, 0, {})
  BY DEF TwoRuns

\* A new request listens before it looks at anything else.
LEMMA SubReqStep ==
    ASSUME IndInv, NEW c \in Clients, NEW p \in Publishers, SubReq(c, p)
    PROVE  IndInv' /\ (LeftToRight /\ CoverInv => CoverInv')
<1>1. TypeOK /\ ServiceInv /\ EmittersOK /\ ClientInv(c)
  BY InvParts
<1>2. PICK order \in ArgOrders :
        req' = [req EXCEPT ![c] = [NoReply EXCEPT !.pc = "reads", !.pub = p, !.todo = order]]
  BY DEF SubReq
<1> DEFINE r == [NoReply EXCEPT !.pc = "reads", !.pub = p, !.todo = order]
<1>3. /\ r.pc = "reads" /\ r.pub = p /\ r.todo = order /\ r.blk = 0 /\ r.past = <<>>
      /\ DOMAIN r = {"pc", "pub", "todo", "blk", "past"}
  BY DEF NoReply
<1>4. order \in {<<"blk", "past">>, <<"past", "blk">>} /\ order \in Seq({"blk", "past"})
  <2>1. order \in {<<"blk", "past">>, <<"past", "blk">>}
    BY BrokerAssumption
  <2>2. <<"blk", "past">> \in Seq({"blk", "past"})
    OBVIOUS
  <2>3. <<"past", "blk">> \in Seq({"blk", "past"})
    OBVIOUS
  <2>. QED
    BY <2>1, <2>2, <2>3
<1>5. r \in RequestThread
  <2>1. NoReply \in RequestThread
    BY DEF NoReply, RequestThread
  <2>. QED
    BY <1>4, <2>1 DEF RequestThread
<1>6. req' = [req EXCEPT ![c] = r]
  BY <1>2
<1> HIDE DEF r
<1>7. /\ req[c].pc = "none" /\ p \in evMgrAddr /\ listeners' = listeners \cup {ClientListener(c)}
      /\ UNCHANGED <<chainVars, blk, svcVars, queue, emitters, hb, got>>
  BY DEF SubReq, ListenedAt
<1>8. /\ Touches({c}) /\ TypeOK' /\ EmittersOK' /\ ClaimOK(hb.blk)' /\ req'[c] = r
      /\ OrderOK(c)' /\ ToldOK(c)'
      /\ ClaimOK(req[c].blk)' <=> ClaimOK(r.blk)
      /\ Promised(c)' = ((got[c].events \o r.past) \o InFlight(c)) \o queue[c]
      /\ \A l : Pending(l)' = Pending(l)
  BY <1>5, <1>6, <1>7, RequestStep
<1>9. /\ req[c].blk = 0 /\ queue[c] = <<>> /\ got[c].events = <<>>
      /\ Pending(ClientListener(c)) = {} /\ InFlight(c) = <<>>
      /\ got[c] = [events |-> <<>>, claim |-> 0, prevClaim |-> 0]
  <2>1. req[c] = NoReply /\ queue[c] = <<>> /\ Pending(ClientListener(c)) = {}
        /\ got[c] = [events |-> <<>>, claim |-> 0, prevClaim |-> 0]
    BY <1>1, <1>7 DEF ClientInv, RequestOK
  <2>. QED
    BY <1>1, <1>7, <2>1, NotSending DEF NoReply
<1>10. Promised(c)' = <<>>
  BY <1>3, <1>8, <1>9
<1>11. Unread(c)' /\ Live(c)'
  BY <1>3, <1>4, <1>8 DEF Unread, Live, Range
<1>12. RequestOK(c)'
  <2>1. evMgrAddr' = evMgrAddr /\ got' = got
    BY <1>7 DEF svcVars
  <2>. QED
    BY <1>3, <1>4, <1>7, <1>8, <1>9, <2>1 DEF RequestOK
<1>13. FlowOK(c)'
  <2>1. queue'[c] = <<>> /\ Pending(ClientListener(c))' = {}
    BY <1>7, <1>8, <1>9
  <2>2. TwoRuns(Promised(c), 0, Pending(ClientListener(c)))'
    BY <1>10, <2>1, NoRuns DEF TwoRuns
  <2>3. Range(Promised(c))' = {} /\ Range(queue[c])' = {} /\ Len(Promised(c))' = 0
    BY <1>10, <2>1 DEF Range
  <2>. QED
    BY <2>1, <2>2, <2>3 DEF FlowOK
<1>14. ClientInv(c)'
  BY <1>1, <1>3, <1>8, <1>9, <1>12, <1>13 DEF ClientInv
<1>15. ASSUME LeftToRight PROVE CoverOK(c)'
  <2>1. req'[c].pc = "reads" /\ req'[c].todo = <<"blk", "past">>
    BY <1>3, <1>8, <1>15 DEF LeftToRight
  <2>2. <<"blk", "past">> # <<"past">> /\ <<"blk", "past">> # <<>>
    <3>1. Len(<<"blk", "past">>) = 2 /\ Len(<<"past">>) = 1
      OBVIOUS
    <3>. QED
      BY <3>1
  <2>3. ~(c \in Subscribed)'
    BY <2>1 DEF Subscribed
  <2>. QED
    BY <2>1, <2>2, <2>3 DEF CoverOK, Covered, Caught
<1>. QED
  BY <1>8, <1>14, <1>15, RequestDone

\* A request for an unknown publisher is refused.
LEMMA SubReqUnknownStep ==
    ASSUME IndInv, NEW c \in Clients, NEW p \in Publishers, SubReqUnknown(c, p)
    PROVE  IndInv' /\ (LeftToRight /\ CoverInv => CoverInv')
<1>1. TypeOK /\ ServiceInv /\ EmittersOK /\ ClientInv(c)
  BY InvParts
<1> DEFINE r == [req[c] EXCEPT !.pc = "refused", !.pub = p]
<1>2. req[c] \in RequestThread
  BY <1>1 DEF TypeOK, RequestThread
<1>3. /\ r \in RequestThread /\ r.pc = "refused" /\ r.blk = req[c].blk /\ r.past = req[c].past
  BY <1>2 DEF RequestThread
<1>4. req' = [req EXCEPT ![c] = r]
  BY <1>1 DEF SubReqUnknown, TypeOK
<1> HIDE DEF r
<1>5. /\ req[c].pc = "none" /\ listeners' = listeners
      /\ UNCHANGED <<chainVars, blk, svcVars, queue, emitters, hb, got>>
  BY DEF SubReqUnknown
<1>6. /\ Touches({c}) /\ TypeOK' /\ EmittersOK' /\ ClaimOK(hb.blk)' /\ req'[c] = r
      /\ OrderOK(c)' /\ ToldOK(c)'
      /\ ClaimOK(req[c].blk)' <=> ClaimOK(r.blk)
      /\ \A l : Pending(l)' = Pending(l)
  BY <1>3, <1>4, <1>5, RequestStep
<1>7. ~Live(c)' /\ ~Unread(c)' /\ ~(c \in Subscribed)'
  BY <1>3, <1>6 DEF Live, Unread, Subscribed
<1>8. RequestOK(c)'
  BY <1>1, <1>3, <1>5, <1>6, <1>7 DEF RequestOK, ClientInv
<1>9. ClientInv(c)'
  BY <1>1, <1>3, <1>6, <1>7, <1>8 DEF ClientInv, FlowOK
<1>10. CoverOK(c)'
  BY <1>3, <1>6, <1>7 DEF CoverOK, Covered, Caught
<1>. QED
  BY <1>6, <1>9, <1>10, RequestDone

\* What is left of the reply's arguments.
LEMMA TodoFacts ==
    /\ <<"blk", "past">> \in Seq({"blk", "past"}) /\ <<"past", "blk">> \in Seq({"blk", "past"})
    /\ <<"blk">> \in Seq({"blk", "past"}) /\ <<"past">> \in Seq({"blk", "past"})
    /\ Head(<<"blk", "past">>) = "blk" /\ Head(<<"past", "blk">>) = "past"
    /\ Head(<<"blk">>) = "blk" /\ Head(<<"past">>) = "past"
    /\ Tail(<<"blk", "past">>) = <<"past">> /\ Tail(<<"past", "blk">>) = <<"blk">>
    /\ Tail(<<"blk">>) = <<>> /\ Tail(<<"past">>) = <<>>
    /\ Range(<<"blk", "past">>) = {"blk", "past"} /\ Range(<<"past", "blk">>) = {"blk", "past"}
    /\ Range(<<"blk">>) = {"blk"} /\ Range(<<"past">>) = {"past"} /\ Range(<<>>) = {}
    /\ <<"blk", "past">> # <<>> /\ <<"blk">> # <<>> /\ <<"past">> # <<>>
    /\ <<"blk">> # <<"past">> /\ <<"blk", "past">> # <<"past">> /\ <<"past", "blk">> # <<"past">>
<1>1. /\ <<"blk", "past">> \in Seq({"blk", "past"}) /\ <<"past", "blk">> \in Seq({"blk", "past"})
      /\ <<"blk">> \in Seq({"blk", "past"}) /\ <<"past">> \in Seq({"blk", "past"})
  OBVIOUS
<1>2. /\ Head(<<"blk", "past">>) = "blk" /\ Head(<<"past", "blk">>) = "past"
      /\ Head(<<"blk">>) = "blk" /\ Head(<<"past">>) = "past"
  OBVIOUS
<1>3. /\ Tail(<<"blk", "past">>) = <<"past">> /\ Tail(<<"past", "blk">>) = <<"blk">>
      /\ Tail(<<"blk">>) = <<>> /\ Tail(<<"past">>) = <<>>
  OBVIOUS
<1>4. /\ Range(<<"blk", "past">>) = {"blk", "past"} /\ Range(<<"past", "blk">>) = {"blk", "past"}
      /\ Range(<<"blk">>) = {"blk"} /\ Range(<<"past">>) = {"past"} /\ Range(<<>>) = {}
  BY DEF Range
<1>5. Len(<<"blk", "past">>) = 2 /\ Len(<<"past", "blk">>) = 2 /\ Len(<<"blk">>) = 1
      /\ Len(<<"past">>) = 1 /\ Len(<<>>) = 0
  OBVIOUS
<1>6. /\ <<"blk", "past">> # <<>> /\ <<"blk">> # <<>> /\ <<"past">> # <<>>
      /\ <<"blk">> # <<"past">> /\ <<"blk", "past">> # <<"past">> /\ <<"past", "blk">> # <<"past">>
  BY <1>2, <1>5
<1>. QED
  BY <1>1, <1>2, <1>3, <1>4, <1>6

\* The block number is read while no block is being processed.
LEMMA ReadLastValidatedStep ==
    ASSUME IndInv, NEW c \in Clients, ReadLastValidated(c)
    PROVE  IndInv' /\ (LeftToRight /\ CoverInv => CoverInv')
<1>1. TypeOK /\ ServiceInv /\ EmittersOK /\ ClientInv(c)
  BY InvParts
<1> DEFINE r == [req[c] EXCEPT !.todo = Tail(@), !.blk = lastValidated]
<1>2. req[c] \in RequestThread /\ lastValidated \in Nat
  BY <1>1 DEF TypeOK, RequestThread
<1>3. /\ req[c].pc = "reads" /\ req[c].todo # <<>> /\ Head(req[c].todo) = "blk" /\ MonitorFree
      /\ listeners' = listeners
      /\ UNCHANGED <<chainVars, blk, svcVars, queue, emitters, hb, got>>
  BY DEF ReadLastValidated
<1>4. /\ r \in RequestThread /\ r.pc = "reads" /\ r.blk = lastValidated /\ r.past = req[c].past
      /\ r.pub = req[c].pub /\ r.todo = Tail(req[c].todo)
  <2>1. req[c].todo \in Seq({"blk", "past"}) /\ req[c].todo # <<>>
    BY <1>2, <1>3 DEF RequestThread
  <2>2. Tail(req[c].todo) \in Seq({"blk", "past"})
    BY <2>1
  <2>. QED
    BY <1>2, <1>3, <2>2 DEF RequestThread
<1>5. req' = [req EXCEPT ![c] = r]
  BY <1>1 DEF ReadLastValidated, TypeOK
<1> HIDE DEF r
<1>6. /\ Touches({c}) /\ TypeOK' /\ EmittersOK' /\ ClaimOK(hb.blk)' /\ req'[c] = r
      /\ OrderOK(c)' /\ ToldOK(c)'
      /\ ClaimOK(req[c].blk)' <=> ClaimOK(r.blk)
      /\ Promised(c)' = ((got[c].events \o r.past) \o InFlight(c)) \o queue[c]
      /\ Stored(req[c].pub)' = Stored(r.pub)
      /\ Pending(PastListener(req[c].pub))' = Pending(PastListener(r.pub))
      /\ \A l : Pending(l)' = Pending(l)
  BY <1>3, <1>4, <1>5, RequestStep
<1>7. \/ req[c].todo = <<"blk", "past">> /\ r.todo = <<"past">>
      \/ req[c].todo = <<"blk">> /\ r.todo = <<>>
  BY <1>1, <1>3, <1>4, TodoFacts DEF ClientInv, RequestOK
<1>8. Live(c) /\ Live(c)' /\ (Unread(c)' <=> Unread(c))
  BY <1>3, <1>4, <1>6, <1>7, TodoFacts DEF Live, Unread
<1>9. RequestOK(c)'
  <2>1. evMgrAddr' = evMgrAddr /\ got' = got
    BY <1>3 DEF svcVars
  <2>. QED
    BY <1>1, <1>3, <1>4, <1>6, <1>7, <1>8, <2>1 DEF RequestOK, ClientInv
<1>10. FlowOK(c)'
  <2>1. Promised(c)' = Promised(c) /\ queue' = queue /\ chain' = chain
    BY <1>3, <1>4, <1>6 DEF Promised, chainVars
  <2>2. Stored(req[c].pub)' = Stored(req[c].pub)
        /\ Pending(ClientListener(c))' = Pending(ClientListener(c))
    BY <1>4, <1>6
  <2>. QED
    BY <1>1, <1>8, <2>1, <2>2 DEF FlowOK, ClientInv
<1>11. ClaimOK(lastValidated)
  BY <1>2, <1>3 DEF ClaimOK
<1>12. ClientInv(c)'
  BY <1>4, <1>6, <1>9, <1>10, <1>11 DEF ClientInv
<1>13. ASSUME LeftToRight, CoverInv PROVE CoverOK(c)'
  <2>1. req[c].todo \in {<<"blk", "past">>, <<"past">>, <<>>}
    BY <1>3, <1>13 DEF CoverInv
  <2>2. r.todo = <<"past">> /\ r.todo # <<>>
    BY <1>7, <2>1, TodoFacts
  <2>3. blk.plan = {}
    BY <1>1, <1>3 DEF ServiceInv, PlanOK
  <2>4. \A p : Pending(PastListener(p)) = {}
    BY <2>3 DEF Pending
  <2>5. ~(c \in Subscribed)'
    BY <1>4, <1>6 DEF Subscribed
  <2>6. Covered(c)'
    BY <1>4, <1>6, <2>2, <2>4, <2>5 DEF Covered
  <2>. QED
    BY <1>4, <1>6, <2>2, <2>5, <2>6 DEF CoverOK, Caught
<1>. QED
  BY <1>6, <1>12, <1>13, RequestDone

\* The events of a plan are in order too.
LEMMA LeastPending ==
    ASSUME TypeOK, PlanOK, NEW pl \in blk.plan, NEW f \in Pending(pl.lst)
    PROVE  ~Before(f, EventOf(pl)) /\ (f = EventOf(pl) \/ Before(EventOf(pl), f))
<1>1. /\ Min(pl.logs) \in pl.logs /\ \A i \in pl.logs : Min(pl.logs) <= i
      /\ Len(chain) \in Nat /\ pl.logs \in SUBSET (Nat \ {0})
      /\ \E i \in pl.logs : f = <<Len(chain), i>>
  BY PlanEntry
<1>2. PICK i \in pl.logs : f = <<Len(chain), i>>
  BY <1>1
<1>3. i \in Nat /\ Min(pl.logs) \in Nat /\ Min(pl.logs) <= i
  BY <1>1
<1>. QED
  BY <1>1, <1>2, <1>3 DEF Before, EventOf

\* The past events that a reply reads are in order, and complete in front of
\* every event that is stored, whether the copy sees an append in progress or not.
LEMMA PastRead ==
    ASSUME TypeOK, ServiceInv, NEW p \in Publishers, NEW evs \in GetPastEvents(p)
    PROVE  /\ evs \in Seq(Events) /\ InOrder(evs)
           /\ \A e \in Range(evs) : e[1] <= Len(chain)
           /\ \A e \in Stored(p), i \in 1..Len(evs) :
                 Before(e, evs[i]) => \E k \in 1..i : evs[k] = e
           /\ Stored(p) \subseteq Range(evs) \cup Pending(PastListener(p))
<1>1. PlanOK /\ StoreOK
  BY DEF ServiceInv
<1>2. CASE p \notin DOMAIN past
  <2>1. evs = <<>> /\ Stored(p) = Pending(PastListener(p))
    BY <1>2 DEF GetPastEvents, Stored
  <2>. QED
    BY <2>1 DEF InOrder, Range
<1>3. CASE p \in DOMAIN past
  <2> DEFINE s == past[p]
  <2>1. /\ s \in Seq(Events) /\ InOrder(s) /\ Stored(p) = Range(s) \cup Pending(PastListener(p))
        /\ \A e \in Range(s) :
              e[1] <= Len(chain) /\ \A f \in Pending(PastListener(p)) : Before(e, f)
    BY <1>1, <1>3 DEF TypeOK, StoreOK, Stored
  <2> HIDE DEF s
  <2>2. \A i \in 1..Len(s) : s[i] \in Range(s) /\ s[i] \in Events
    BY <2>1 DEF Range
  <2>3. \A e \in Pending(PastListener(p)) : e \in Events
    BY <1>1, PendingPlanned
  <2>4. \A e \in Stored(p), i \in 1..Len(s) :
           Before(e, s[i]) => \E k \in 1..i : s[k] = e
    <3> SUFFICES ASSUME NEW e \in Stored(p), NEW i \in 1..Len(s), Before(e, s[i])
                 PROVE  \E k \in 1..i : s[k] = e
      OBVIOUS
    <3>1. e \notin Pending(PastListener(p))
      BY <2>1, <2>2, <2>3, BeforeOrder
    <3>2. PICK k \in 1..Len(s) : s[k] = e
      BY <2>1, <3>1 DEF Range
    <3>3. ~(i < k)
      BY <2>1, <2>2, <3>2, BeforeOrder DEF InOrder
    <3>. QED
      BY <3>2, <3>3
  <2>5. CASE evs = s
    BY <2>1, <2>4, <2>5
  <2>6. CASE evs # s
    <3>1. PICK pl \in blk.plan : pl.lst = PastListener(p) /\ evs = Append(s, EventOf(pl))
      BY <1>3, <2>6 DEF GetPastEvents, s
    <3> DEFINE x == EventOf(pl)
    <3>2. /\ x \in Events /\ x \in Pending(PastListener(p))
          /\ \A f \in Pending(PastListener(p)) : ~Before(f, x)
      BY <1>1, <3>1, PlanEntry, LeastPending
    <3> HIDE DEF x
    <3>3. evs = Append(s, x)
      BY <3>1 DEF x
    <3>4. /\ Len(evs) = Len(s) + 1 /\ evs[Len(s) + 1] = x /\ evs \in Seq(Events)
          /\ \A i \in 1..Len(s) : evs[i] = s[i]
          /\ Len(s) \in Nat
      BY <2>1, <3>2, <3>3
    <3>5. Range(evs) = Range(s) \cup {x}
      BY <2>1, <3>2, <3>3, RangeFacts
    <3>6. x[1] <= Len(chain) /\ \A e \in Range(s) : Before(e, x)
      <4>1. x[1] = Len(chain) /\ Len(chain) \in Nat
        BY <1>1, <3>2, PendingPlanned DEF TypeOK
      <4>. QED
        BY <2>1, <3>2, <4>1
    <3>7. InOrder(evs)
      <4> SUFFICES ASSUME NEW i \in 1..Len(evs), NEW j \in 1..Len(evs), i < j
                   PROVE  Before(evs[i], evs[j])
        BY DEF InOrder
      <4>1. i \in 1..Len(s) /\ evs[i] = s[i]
        BY <3>4
      <4>2. CASE j = Len(s) + 1
        BY <2>2, <3>4, <3>6, <4>1, <4>2
      <4>3. CASE j # Len(s) + 1
        BY <2>1, <3>4, <4>1, <4>3 DEF InOrder
      <4>. QED
        BY <4>2, <4>3
    <3>8. ASSUME NEW e \in Stored(p), NEW i \in 1..Len(evs), Before(e, evs[i])
          PROVE  \E k \in 1..i : evs[k] = e
      <4>1. CASE i \in 1..Len(s)
        <5>1. PICK k \in 1..i : s[k] = e
          BY <2>4, <3>4, <3>8, <4>1
        <5>. QED
          BY <3>4, <4>1, <5>1
      <4>2. CASE i = Len(s) + 1
        <5>1. e \in Range(s)
          BY <2>1, <3>2, <3>4, <3>8, <4>2
        <5>2. PICK k \in 1..Len(s) : s[k] = e
          BY <2>1, <5>1 DEF Range
        <5>. QED
          BY <3>4, <4>2, <5>2
      <4>. QED
        BY <3>4, <4>1, <4>2
    <3>. QED
      BY <2>1, <3>4, <3>5, <3>6, <3>7, <3>8
  <2>. QED
    BY <2>5, <2>6
<1>. QED
  BY <1>2, <1>3

\* A sequence in one piece: nothing to put in front, in flight or after it.
LEMMA EmptyParts ==
    ASSUME NEW s \in Seq(Events), NEW t \in Seq(Events)
    PROVE  /\ <<>> \o s = s /\ s \o <<>> = s
           /\ s \o t \in Seq(Events)
           /\ \A u \in Seq(Events) : (s \o t) \o u = s \o (t \o u)
  OBVIOUS

\* The past events are read: the reply's run goes in front of the queued one.
LEMMA ReadPastEventsStep ==
    ASSUME IndInv, NEW c \in Clients, ReadPastEvents(c)
    PROVE  IndInv' /\ (LeftToRight /\ CoverInv => CoverInv')
<1>1. TypeOK /\ ServiceInv /\ EmittersOK /\ ClientInv(c)
  BY InvParts
<1>2. PICK evs \in GetPastEvents(req[c].pub) :
         req' = [req EXCEPT ![c].todo = Tail(@), ![c].past = evs]
  BY DEF ReadPastEvents, PastEventsRead
<1> DEFINE r == [req[c] EXCEPT !.todo = Tail(@), !.past = evs]
           p == req[c].pub
<1>3. /\ req[c].pc = "reads" /\ req[c].todo # <<>> /\ Head(req[c].todo) = "past"
      /\ listeners' = listeners
      /\ UNCHANGED <<chainVars, blk, svcVars, queue, emitters, hb, got>>
  BY DEF ReadPastEvents
<1>4. /\ req[c] \in RequestThread /\ queue[c] \in Seq(Events)
      /\ Live(c) /\ RequestOK(c) /\ FlowOK(c) /\ p \in Publishers
  BY <1>1, <1>3 DEF TypeOK, RequestThread, ClientInv, RequestOK, Live
<1>5. /\ evs \in Seq(Events) /\ InOrder(evs)
      /\ \A e \in Range(evs) : e[1] <= Len(chain)
      /\ \A e \in Stored(p), i \in 1..Len(evs) :
            Before(e, evs[i]) => \E k \in 1..i : evs[k] = e
      /\ Stored(p) \subseteq Range(evs) \cup Pending(PastListener(p))
  BY <1>1, <1>2, <1>4, PastRead
<1>6. /\ r \in RequestThread /\ r.pc = "reads" /\ r.blk = req[c].blk /\ r.past = evs
      /\ r.pub = p /\ r.todo = Tail(req[c].todo)
  <2>1. req[c].todo \in Seq({"blk", "past"}) /\ req[c].todo # <<>>
    BY <1>3, <1>4 DEF RequestThread
  <2>2. Tail(req[c].todo) \in Seq({"blk", "past"})
    BY <2>1
  <2>. QED
    BY <1>3, <1>4, <1>5, <2>2 DEF RequestThread
<1>7. req' = [req EXCEPT ![c] = r]
  BY <1>1, <1>2 DEF TypeOK
<1> HIDE DEF r, p
<1>8. /\ Touches({c}) /\ TypeOK' /\ EmittersOK' /\ ClaimOK(hb.blk)' /\ req'[c] = r
      /\ OrderOK(c)' /\ ToldOK(c)'
      /\ ClaimOK(req[c].blk)' <=> ClaimOK(r.blk)
      /\ Promised(c)' = ((got[c].events \o r.past) \o InFlight(c)) \o queue[c]
      /\ Stored(req[c].pub)' = Stored(r.pub)
      /\ \A l : Pending(l)' = Pending(l)
  BY <1>3, <1>6, <1>7, RequestStep
<1>9. \/ req[c].todo = <<"past", "blk">> /\ r.todo = <<"blk">>
      \/ req[c].todo = <<"past">> /\ r.todo = <<>>
  BY <1>3, <1>4, <1>6, TodoFacts DEF RequestOK
<1>10. Unread(c) /\ ~Unread(c)' /\ Live(c)'
  BY <1>3, <1>6, <1>8, <1>9, TodoFacts DEF Live, Unread
<1>11. got[c].events = <<>> /\ req[c].past = <<>> /\ InFlight(c) = <<>>
  <2>1. got[c] = [events |-> <<>>, claim |-> 0, prevClaim |-> 0] /\ req[c].past = <<>>
    BY <1>3, <1>4, <1>10 DEF RequestOK
  <2>. QED
    BY <1>1, <1>3, <2>1, NotSending
<1>12. Promised(c) = queue[c] /\ Promised(c)' = evs \o queue[c]
  <2>1. <<>> \o <<>> = <<>> /\ <<>> \o queue[c] = queue[c] /\ <<>> \o evs = evs /\ evs \o <<>> = evs
    BY <1>4, <1>5
  <2>2. Promised(c) = ((<<>> \o <<>>) \o <<>>) \o queue[c]
    BY <1>11 DEF Promised
  <2>3. Promised(c)' = ((<<>> \o evs) \o <<>>) \o queue[c]
    BY <1>6, <1>8, <1>11
  <2>. QED
    BY <2>1, <2>2, <2>3
<1>13. /\ TwoRuns(queue[c], 0, Pending(ClientListener(c)))
       /\ Range(queue[c]) \cup Pending(ClientListener(c)) \subseteq Stored(p)
       /\ \A e \in Range(queue[c]) : e[1] <= Len(chain)
  BY <1>4, <1>10, <1>12 DEF FlowOK, p
<1>14. Pending(ClientListener(c)) \in SUBSET Events
  BY <1>1, PendingPlanned DEF ServiceInv
<1>15. TwoRuns(evs \o queue[c], Len(evs), Pending(ClientListener(c)))
  BY <1>4, <1>5, <1>13, <1>14, RunsJoin
<1>16. Range(evs \o queue[c]) = Range(evs) \cup Range(queue[c])
  <2>1. <<1, 1>> \in Events
    BY DEF Events
  <2>. QED
    BY <1>4, <1>5, <2>1, RangeFacts
<1>17. RequestOK(c)'
  <2>1. evMgrAddr' = evMgrAddr /\ got' = got
    BY <1>3 DEF svcVars
  <2>. QED
    BY <1>3, <1>4, <1>6, <1>8, <1>9, <1>10, <2>1 DEF RequestOK, p
<1>18. FlowOK(c)'
  <2>1. chain' = chain /\ Pending(ClientListener(c))' = Pending(ClientListener(c))
    BY <1>3, <1>8 DEF chainVars
  <2>2. Len(evs) \in 0..Len(evs \o queue[c])
    BY <1>4, <1>5
  <2>3. \A e \in Range(evs \o queue[c]) : e[1] <= Len(chain)
    BY <1>5, <1>13, <1>16
  <2>. QED
    BY <1>10, <1>12, <1>15, <2>1, <2>2, <2>3 DEF FlowOK
<1>19. ClientInv(c)'
  BY <1>1, <1>6, <1>8, <1>17, <1>18 DEF ClientInv
<1>20. ASSUME LeftToRight, CoverInv PROVE CoverOK(c)'
  <2>1. req[c].todo \in {<<"blk", "past">>, <<"past">>, <<>>} /\ Covered(c)
    BY <1>3, <1>20 DEF CoverInv
  <2>2. r.todo = <<>> /\ req[c].todo = <<"past">> /\ r.todo # <<"past">>
    BY <1>9, <2>1, TodoFacts
  <2>3. Pending(PastListener(p)) \subseteq Range(queue[c]) \cup Pending(ClientListener(c))
    BY <1>3, <2>1, <2>2 DEF Covered, p
  <2>4. Stored(p) \subseteq Range(evs \o queue[c]) \cup Pending(ClientListener(c))
    BY <1>5, <1>16, <2>3
  <2>5. Covered(c)'
    BY <1>6, <1>8, <1>12, <2>2, <2>4 DEF Covered
  <2>6. ~(c \in Subscribed)'
    BY <1>6, <1>8 DEF Subscribed
  <2>. QED
    BY <1>6, <1>8, <2>2, <2>5, <2>6 DEF CoverOK, Caught
<1>. QED
  BY <1>8, <1>19, <1>20, RequestDone

\* The reply cannot be sent.
LEMMA SendReplyThrowsStep ==
    ASSUME IndInv, NEW c \in Clients, SendReplyThrows(c)
    PROVE  IndInv' /\ (LeftToRight /\ CoverInv => CoverInv')
<1>1. TypeOK /\ ServiceInv /\ EmittersOK /\ ClientInv(c)
  BY InvParts
<1> DEFINE r == [req[c] EXCEPT !.pc = "failed"]
<1>2. req[c] \in RequestThread
  BY <1>1 DEF TypeOK, RequestThread
<1>3. r \in RequestThread /\ r.pc = "failed" /\ r.blk = req[c].blk
  BY <1>2 DEF RequestThread
<1>4. req' = [req EXCEPT ![c] = r]
  BY <1>1 DEF SendReplyThrows, TypeOK
<1> HIDE DEF r
<1>5. /\ req[c].pc = "reads" /\ listeners' = listeners
      /\ UNCHANGED <<chainVars, blk, svcVars, queue, emitters, hb, got>>
  BY DEF SendReplyThrows
<1>6. /\ Touches({c}) /\ TypeOK' /\ EmittersOK' /\ ClaimOK(hb.blk)' /\ req'[c] = r
      /\ OrderOK(c)' /\ ToldOK(c)'
      /\ ClaimOK(req[c].blk)' <=> ClaimOK(r.blk)
  BY <1>3, <1>4, <1>5, RequestStep
<1>7. ~Live(c)' /\ ~Unread(c)' /\ ~(c \in Subscribed)'
  BY <1>3, <1>6 DEF Live, Unread, Subscribed
<1>8. RequestOK(c)'
  BY <1>3, <1>6, <1>7 DEF RequestOK
<1>9. ClientInv(c)'
  BY <1>1, <1>3, <1>6, <1>7, <1>8 DEF ClientInv, FlowOK
<1>10. CoverOK(c)'
  BY <1>3, <1>6, <1>7 DEF CoverOK, Covered, Caught
<1>. QED
  BY <1>6, <1>9, <1>10, RequestDone

\* What is stored are events, and what is promised is a sequence of them.
LEMMA StoredEvents ==
    ASSUME TypeOK, PlanOK
    PROVE  /\ \A p \in Publishers : Stored(p) \in SUBSET Events
           /\ \A l : Pending(l) \in SUBSET Events
           /\ \A c \in Clients : /\ Promised(c) \in Seq(Events) /\ InFlight(c) \in Seq(Events)
                                 /\ got[c].events \in Seq(Events) /\ req[c].past \in Seq(Events)
                                 /\ queue[c] \in Seq(Events)
<1>1. \A l : Pending(l) \in SUBSET Events
  BY PendingPlanned
<1>2. ASSUME NEW p \in Publishers PROVE Stored(p) \in SUBSET Events
  <2>1. CASE p \in DOMAIN past
    <3>1. past[p] \in Seq(Events)
      BY <2>1 DEF TypeOK
    <3>2. Range(past[p]) \subseteq Events
      BY <3>1 DEF Range
    <3>. QED
      BY <1>1, <2>1, <3>2 DEF Stored
  <2>2. CASE p \notin DOMAIN past
    BY <1>1, <2>2 DEF Stored
  <2>. QED
    BY <2>1, <2>2
<1>3. ASSUME NEW c \in Clients
      PROVE  /\ Promised(c) \in Seq(Events) /\ InFlight(c) \in Seq(Events)
             /\ got[c].events \in Seq(Events) /\ req[c].past \in Seq(Events)
             /\ queue[c] \in Seq(Events)
  <2>1. /\ InFlight(c) \in Seq(Events) /\ queue[c] \in Seq(Events)
        /\ got[c].events \in Seq(Events) /\ req[c].past \in Seq(Events)
    BY DEF TypeOK, InFlight
  <2>. QED
    BY <2>1 DEF Promised
<1>. QED
  BY <1>1, <1>2, <1>3

\* The range of what is promised.
LEMMA PromisedRange ==
    ASSUME NEW g \in Seq(Events), NEW r \in Seq(Events), NEW f \in Seq(Events),
           NEW q \in Seq(Events)
    PROVE  Range(((g \o r) \o f) \o q) = ((Range(g) \cup Range(r)) \cup Range(f)) \cup Range(q)
<1>1. <<1, 1>> \in Events
  BY DEF Events
<1> DEFINE x == g \o r
           y == x \o f
<1>2. x \in Seq(Events) /\ Range(x) = Range(g) \cup Range(r)
  BY <1>1, RangeFacts
<1> HIDE DEF x
<1>3. y \in Seq(Events) /\ Range(y) = Range(x) \cup Range(f)
  BY <1>1, <1>2, RangeFacts
<1> HIDE DEF y
<1>4. Range(y \o q) = Range(y) \cup Range(q)
  BY <1>1, <1>3, RangeFacts
<1>5. Range(y \o q) = ((Range(g) \cup Range(r)) \cup Range(f)) \cup Range(q)
  BY <1>2, <1>3, <1>4
<1>. QED
  BY <1>5 DEF x, y

\* Four pieces, with the first one taken off.
Pieces(g, r, f, q) == ((g \o r) \o f) \o q
AfterFirst(r, f, q) == r \o (f \o q)

\* They are the same sequence.
LEMMA FirstPiece ==
    ASSUME NEW g \in Seq(Events), NEW r \in Seq(Events), NEW f \in Seq(Events),
           NEW q \in Seq(Events)
    PROVE  /\ Pieces(g, r, f, q) = g \o AfterFirst(r, f, q)
           /\ AfterFirst(r, f, q) \in Seq(Events)
<1> DEFINE x == g \o r
           y == f \o q
<1>1. x \in Seq(Events) /\ y \in Seq(Events) /\ r \o y \in Seq(Events)
  OBVIOUS
<1>2. (x \o f) \o q = x \o (f \o q)
  <2> HIDE DEF x
  <2>. QED
    BY <1>1, EmptyParts
<1>3. (g \o r) \o y = g \o (r \o y)
  <2> HIDE DEF y
  <2>. QED
    BY <1>1, EmptyParts
<1>4. (x \o f) \o q = g \o (r \o y)
  BY <1>2, <1>3
<1>. QED
  BY <1>1, <1>4, Zenon DEF Pieces, AfterFirst

\* A step that only moves a subscriber's events on keeps its flow.
LEMMA FlowKept ==
    ASSUME NEW c \in Clients, FlowOK(c), Live(c), Promised(c)' = Promised(c), chain' = chain,
           Pending(ClientListener(c))' = Pending(ClientListener(c)), ~Unread(c)'
    PROVE  FlowOK(c)'
<1>1. PICK m \in 0..Len(Promised(c)) : TwoRuns(Promised(c), m, Pending(ClientListener(c)))
  BY DEF FlowOK
<1>2. TwoRuns(Promised(c)', m, Pending(ClientListener(c))')
  BY <1>1
<1>. QED
  BY <1>1, <1>2 DEF FlowOK

\* What has been received is a beginning of what is promised, so it is in order.
LEMMA OrderFromFlow ==
    ASSUME TypeOK, PlanOK, NEW c \in Clients, FlowOK(c), Live(c)
    PROVE  OrderOK(c)
<1>1. PICK m \in 0..Len(Promised(c)) : TwoRuns(Promised(c), m, Pending(ClientListener(c)))
  BY DEF FlowOK
<1> DEFINE g == got[c].events
           r == AfterFirst(req[c].past, InFlight(c), queue[c])
<1>2. g \in Seq(Events) /\ r \in Seq(Events) /\ Promised(c) = g \o r
  <2>1. /\ InFlight(c) \in Seq(Events) /\ queue[c] \in Seq(Events)
        /\ got[c].events \in Seq(Events) /\ req[c].past \in Seq(Events)
    BY StoredEvents
  <2>2. Promised(c) = Pieces(got[c].events, req[c].past, InFlight(c), queue[c])
    BY Zenon DEF Promised, Pieces
  <2>3. /\ Pieces(got[c].events, req[c].past, InFlight(c), queue[c])
              = got[c].events \o AfterFirst(req[c].past, InFlight(c), queue[c])
        /\ AfterFirst(req[c].past, InFlight(c), queue[c]) \in Seq(Events)
    <3>1. \A s1, s2, s3, s4 \in Seq(Events) :
             /\ Pieces(s1, s2, s3, s4) = s1 \o AfterFirst(s2, s3, s4)
             /\ AfterFirst(s2, s3, s4) \in Seq(Events)
      BY FirstPiece, Zenon
    <3>2. PICK s1, s2, s3, s4 \in Seq(Events) :
             s1 = got[c].events /\ s2 = req[c].past /\ s3 = InFlight(c) /\ s4 = queue[c]
      BY <2>1
    <3>3. /\ Pieces(s1, s2, s3, s4) = s1 \o AfterFirst(s2, s3, s4)
          /\ AfterFirst(s2, s3, s4) \in Seq(Events)
      BY <3>1
    <3>. QED
      BY <3>2, <3>3
  <2>. QED
    BY <2>1, <2>2, <2>3
<1> HIDE DEF r
<1>3. m \in 0..Len(g \o r) /\ TwoRuns(g \o r, m, Pending(ClientListener(c)))
  BY <1>1, <1>2
<1>4. /\ \A i, j \in 1..Len(g) :
            (i < j /\ Before(g[j], g[i])) => \E k \in 1..i : g[k] = g[j]
      /\ \A i, j, k \in 1..Len(g) :
            (i < j /\ j < k) => ~(g[i] = g[j] /\ g[j] = g[k])
  <2> HIDE DEF g
  <2>. QED
    BY <1>2, <1>3, RunsOrder
<1>. QED
  BY <1>4 DEF OrderOK

\* The same of the next state.
LEMMA OrderFromFlowNext ==
    ASSUME TypeOK', PlanOK', NEW c \in Clients, FlowOK(c)', Live(c)'
    PROVE  OrderOK(c)'
  BY OrderFromFlow, PTL

\* What is claimed to a client is not pending any more.
LEMMA ClaimedNotPending ==
    ASSUME TypeOK, PlanOK, NEW n \in Nat, ClaimOK(n), NEW l, NEW e \in Pending(l)
    PROVE  ~(e[1] <= n)
<1>1. e[1] = Len(chain) /\ blk.plan # {} /\ Len(chain) \in Nat
  BY PendingPlanned DEF TypeOK
<1>2. ~MonitorFree
  BY <1>1 DEF PlanOK
<1>. QED
  BY <1>1, <1>2 DEF ClaimOK

ClientState == [events : Seq(Events), claim : Nat, prevClaim : Nat]

\* What a message does to what its client holds.
LEMMA ReceivedFacts ==
    ASSUME TypeOK, NEW c \in Clients, NEW evs \in Seq(Events), NEW n \in Nat,
           got' = Received(c, evs, n)
    PROVE  /\ got' \in [Clients -> ClientState]
           /\ got'[c].events = got[c].events \o evs /\ got'[c].claim = n
           /\ got'[c].prevClaim = got[c].claim
           /\ \A d \in Clients \ {c} : got'[d] = got[d]
<1>1. got \in [Clients -> ClientState]
  BY DEF TypeOK, ClientState
<1>2. got' = [got EXCEPT ![c] = [events |-> got[c].events \o evs, claim |-> n,
                                 prevClaim |-> got[c].claim]]
  BY DEF Received
<1>3. got[c].events \o evs \in Seq(Events) /\ got[c].claim \in Nat
  BY <1>1 DEF ClientState
<1>4. [events |-> got[c].events \o evs, claim |-> n, prevClaim |-> got[c].claim] \in ClientState
  BY <1>3 DEF ClientState
<1>. QED
  BY <1>1, <1>2, <1>4

\* The reply is sent: what was read becomes what is received.
LEMMA SendReplyStep ==
    ASSUME IndInv, NEW c \in Clients, SendReply(c)
    PROVE  IndInv' /\ (LeftToRight /\ CoverInv => CoverInv')
<1>1. TypeOK /\ ServiceInv /\ EmittersOK /\ ClaimOK(hb.blk) /\ ClientInv(c) /\ PlanOK
  BY InvParts DEF ServiceInv
<1>2. /\ req[c].pc = "reads" /\ req[c].todo = <<>>
      /\ got' = Received(c, req[c].past, req[c].blk)
      /\ req' = [req EXCEPT ![c].pc = "replied", ![c].past = <<>>]
      /\ UNCHANGED <<chainVars, blk, listeners, svcVars, queue, emitters, hb>>
  BY DEF SendReply
<1>3. /\ chain' = chain /\ lastValidated' = lastValidated /\ blk' = blk /\ queue' = queue
      /\ evMgrAddr' = evMgrAddr /\ past' = past /\ emitters' = emitters /\ hb' = hb
      /\ listeners' = listeners
  BY <1>2 DEF chainVars, svcVars
<1>4. req[c] \in RequestThread /\ req \in [Clients -> RequestThread]
  BY <1>1 DEF TypeOK, RequestThread
<1>5. /\ req' \in [Clients -> RequestThread] /\ req'[c].pc = "replied" /\ req'[c].past = <<>>
      /\ req'[c].pub = req[c].pub /\ req'[c].blk = req[c].blk
      /\ \A d \in Clients \ {c} : req'[d] = req[d]
  <2>1. <<>> \in Seq(Events)
    OBVIOUS
  <2>2. [req[c] EXCEPT !.pc = "replied", !.past = <<>>] \in RequestThread
    BY <1>4, <2>1 DEF RequestThread
  <2>3. req' = [req EXCEPT ![c] = [req[c] EXCEPT !.pc = "replied", !.past = <<>>]]
    BY <1>2, <1>4
  <2>. QED
    BY <1>4, <2>2, <2>3 DEF RequestThread
<1>6. req[c].past \in Seq(Events) /\ req[c].blk \in Nat
  BY <1>4 DEF RequestThread
<1>7. /\ got' \in [Clients -> ClientState]
      /\ got'[c].events = got[c].events \o req[c].past /\ got'[c].claim = req[c].blk
      /\ got'[c].prevClaim = got[c].claim
      /\ \A d \in Clients \ {c} : got'[d] = got[d]
  BY <1>1, <1>2, <1>6, ReceivedFacts
<1>8. \A d : InFlight(d)' = InFlight(d) /\ (Sending(d)' <=> Sending(d))
  BY <1>3 DEF InFlight, Sending
<1>9. Touches({c})
  BY <1>2, <1>3, <1>5, <1>7, <1>8 DEF Touches
<1>10. TypeOK'
  BY <1>1, <1>3, <1>5, <1>7 DEF TypeOK, RequestThread, ClientState
<1>11. \A n : ClaimOK(n)' <=> ClaimOK(n)
  BY <1>3 DEF ClaimOK, MonitorFree
<1>12. EmittersOK' /\ ClaimOK(hb.blk)'
  <2>1. \A d \in Clients : req[d].pc = "active" => req'[d].pc = "active"
    BY <1>2, <1>5
  <2>. QED
    BY <1>1, <1>3, <1>11, <2>1, EmittersSteady
<1>13. /\ \A l : Pending(l)' = Pending(l)
       /\ \A p : Stored(p)' = Stored(p)
       /\ ServiceInv' /\ PlanOK'
  <2>1. /\ \A l : Pending(l)' = Pending(l)
        /\ \A p : Stored(p)' = Stored(p)
        /\ ServiceInv'
    BY <1>9, TouchesOnly
  <2>. QED
    BY <2>1 DEF ServiceInv
<1>14. got[c] = [events |-> <<>>, claim |-> 0, prevClaim |-> 0] /\ InFlight(c) = <<>> /\ ~Sending(c)
  BY <1>1, <1>2, NotSending DEF ClientInv, RequestOK
<1>15. queue[c] \in Seq(Events)
  BY <1>1 DEF TypeOK
<1>16. Promised(c) = req[c].past \o queue[c] /\ Promised(c)' = Promised(c)
       /\ got'[c].events = req[c].past
  <2>1. <<>> \o req[c].past = req[c].past /\ req[c].past \o <<>> = req[c].past
    BY <1>6
  <2>2. Promised(c) = ((<<>> \o req[c].past) \o <<>>) \o queue[c]
    <3>1. got[c].events = <<>> /\ InFlight(c) = <<>>
      BY <1>14
    <3>. QED
      BY <3>1, Zenon DEF Promised
  <2>3. got'[c].events = <<>> \o req[c].past
    BY <1>7, <1>14
  <2>4. Promised(c)' = (((<<>> \o req[c].past) \o <<>>) \o <<>>) \o queue[c]
    BY <1>3, <1>5, <1>8, <1>14, <2>3 DEF Promised
  <2>. QED
    BY <2>1, <2>2, <2>3, <2>4
<1>17. Live(c) /\ Live(c)' /\ ~Unread(c)'
  BY <1>2, <1>5 DEF Live, Unread
<1>18. RequestOK(c)'
  BY <1>1, <1>3, <1>5, <1>17 DEF RequestOK, ClientInv
<1>19. FlowOK(c)'
  BY <1>1, <1>3, <1>13, <1>16, <1>17, FlowKept DEF ClientInv
<1>20. OrderOK(c)'
  BY <1>10, <1>13, <1>17, <1>19, OrderFromFlowNext
<1>21. ClaimOK(req[c].blk)' /\ ToldOK(c)'
  BY <1>1, <1>3, <1>5, <1>7 DEF ClaimOK, ToldOK, ClientInv, MonitorFree
<1>22. ClientInv(c)'
  BY <1>18, <1>19, <1>20, <1>21 DEF ClientInv
<1>23. ASSUME LeftToRight, CoverInv PROVE CoverOK(c)'
  <2>1. Covered(c)
    BY <1>23 DEF CoverInv
  <2>2. PICK p : p = req[c].pub /\ p = req'[c].pub
    BY <1>5
  <2>3. p \in Publishers
    BY <1>1, <1>17, <2>2 DEF ClientInv, RequestOK, TypeOK
  <2>4. Stored(req[c].pub)' = Stored(p)
    BY <1>13, <2>2, StoredNext
  <2>5. Stored(p) \subseteq Range(Promised(c)) \cup Pending(ClientListener(c))
    BY <1>2, <2>1, <2>2 DEF Covered
  <2>6. Covered(c)'
    BY <1>5, <1>13, <1>16, <2>4, <2>5 DEF Covered
  <2>7. ASSUME NEW e \in Stored(p)
        PROVE  /\ ~(e[1] <= got'[c].prevClaim)
               /\ e[1] <= got'[c].claim => e \in Range(got'[c].events) \cup Range(queue'[c])
    <3>1. e \in Events
      BY <1>1, <2>3, StoredEvents
    <3>2. ~(e[1] <= got'[c].prevClaim)
      BY <1>7, <1>14, <3>1 DEF Events
    <3>3. CASE e[1] <= got'[c].claim
      <4>1. ClaimOK(req[c].blk)
        BY <1>1 DEF ClientInv
      <4>2. e \notin Pending(ClientListener(c))
        BY <1>1, <1>6, <1>7, <3>3, <4>1, ClaimedNotPending
      <4>3. Range(Promised(c)) = Range(req[c].past) \cup Range(queue[c])
        <5>1. <<1, 1>> \in Events
          BY DEF Events
        <5>. QED
          BY <1>6, <1>15, <1>16, <5>1, RangeFacts
      <4>. QED
        BY <1>3, <1>16, <2>5, <3>2, <4>2, <4>3
    <3>. QED
      BY <3>2, <3>3
  <2>8. Caught(c)'
    BY <1>8, <1>14, <2>4, <2>7 DEF Caught
  <2>. QED
    BY <1>5, <2>6, <2>8 DEF CoverOK
<1>. QED
  BY <1>9, <1>10, <1>12, <1>22, <1>23, RequestDone

\* Lists without repetition, with disjoint elements, that take or lose one.
LEMMA InjectiveFacts ==
    ASSUME NEW S, NEW s \in Seq(S), IsInjective(s)
    PROVE  /\ \A x \in S : x \notin Range(s) =>
                 IsInjective(Append(s, x)) /\ Range(Append(s, x)) = Range(s) \cup {x}
           /\ s # <<>> => /\ IsInjective(Tail(s)) /\ Head(s) \in Range(s)
                          /\ Range(Tail(s)) = Range(s) \ {Head(s)}
           /\ \A t \in Seq(S) : IsInjective(t) /\ Range(s) \cap Range(t) = {} =>
                 IsInjective(s \o t) /\ Range(s \o t) = Range(s) \cup Range(t)
<1>1. /\ Range(s) = {s[i] : i \in 1..Len(s)} /\ Len(s) \in Nat
      /\ \A i, j \in 1..Len(s) : s[i] = s[j] => i = j
  BY DEF Range, IsInjective
<1>2. ASSUME NEW x \in S, x \notin Range(s)
      PROVE  IsInjective(Append(s, x)) /\ Range(Append(s, x)) = Range(s) \cup {x}
  <2>1. /\ DOMAIN Append(s, x) = 1..(Len(s) + 1) /\ Append(s, x)[Len(s) + 1] = x
        /\ \A i \in 1..Len(s) : Append(s, x)[i] = s[i]
    OBVIOUS
  <2>2. \A i, j \in 1..(Len(s) + 1) : Append(s, x)[i] = Append(s, x)[j] => i = j
    BY <1>1, <1>2, <2>1
  <2>3. Range(Append(s, x)) = Range(s) \cup {x}
    BY <1>1, <2>1 DEF Range
  <2>. QED
    BY <2>1, <2>2, <2>3 DEF IsInjective
<1>3. ASSUME s # <<>>
      PROVE  /\ IsInjective(Tail(s)) /\ Head(s) \in Range(s)
             /\ Range(Tail(s)) = Range(s) \ {Head(s)}
  <2>1. /\ Head(s) = s[1] /\ 1 \in 1..Len(s) /\ DOMAIN Tail(s) = 1..(Len(s) - 1)
        /\ \A i \in 1..(Len(s) - 1) : Tail(s)[i] = s[i + 1]
    BY <1>3
  <2>2. \A i \in 1..(Len(s) - 1) : i + 1 \in 1..Len(s) /\ i + 1 # 1
    BY <1>1
  <2>3. IsInjective(Tail(s))
    BY <1>1, <2>1, <2>2 DEF IsInjective
  <2>4. ASSUME NEW y \in Range(Tail(s)) PROVE y \in Range(s) /\ y # Head(s)
    <3>1. PICK i \in 1..(Len(s) - 1) : y = s[i + 1]
      BY <2>1 DEF Range
    <3>. QED
      BY <1>1, <2>1, <2>2, <3>1
  <2>5. ASSUME NEW y \in Range(s), y # Head(s) PROVE y \in Range(Tail(s))
    <3>1. PICK i \in 1..Len(s) : y = s[i]
      BY <1>1
    <3>2. i # 1 /\ i - 1 \in 1..(Len(s) - 1) /\ (i - 1) + 1 = i
      BY <1>1, <2>1, <2>5, <3>1
    <3>3. Tail(s)[i - 1] = y
      BY <2>1, <3>1, <3>2
    <3>. QED
      BY <2>1, <3>2, <3>3 DEF Range
  <2>. QED
    BY <1>1, <2>1, <2>3, <2>4, <2>5
<1>4. ASSUME NEW t \in Seq(S), IsInjective(t), Range(s) \cap Range(t) = {}
      PROVE  IsInjective(s \o t) /\ Range(s \o t) = Range(s) \cup Range(t)
  <2>1. /\ Range(t) = {t[i] : i \in 1..Len(t)} /\ Len(t) \in Nat
        /\ \A i, j \in 1..Len(t) : t[i] = t[j] => i = j
    BY <1>4 DEF Range, IsInjective
  <2>2. /\ DOMAIN (s \o t) = 1..(Len(s) + Len(t))
        /\ \A i \in 1..Len(s) : (s \o t)[i] = s[i]
        /\ \A i \in 1..Len(t) : (s \o t)[Len(s) + i] = t[i]
    OBVIOUS
  <2>3. \A i \in 1..(Len(s) + Len(t)) :
           \/ i \in 1..Len(s) /\ (s \o t)[i] = s[i]
           \/ /\ i > Len(s) /\ i - Len(s) \in 1..Len(t) /\ (s \o t)[i] = t[i - Len(s)]
    <3> SUFFICES ASSUME NEW i \in 1..(Len(s) + Len(t)), i > Len(s)
                 PROVE  i - Len(s) \in 1..Len(t) /\ (s \o t)[i] = t[i - Len(s)]
      BY <1>1, <2>2
    <3>1. i - Len(s) \in 1..Len(t) /\ i = Len(s) + (i - Len(s))
      BY <1>1, <2>1
    <3>. QED
      BY <2>2, <3>1
  <2>4. IsInjective(s \o t)
    <3> SUFFICES ASSUME NEW i \in 1..(Len(s) + Len(t)), NEW j \in 1..(Len(s) + Len(t)),
                        (s \o t)[i] = (s \o t)[j]
                 PROVE  i = j
      BY <2>2 DEF IsInjective
    <3> DEFINE u == (s \o t)[i]
               v == (s \o t)[j]
    <3>1. \/ i \in 1..Len(s) /\ u = s[i]
          \/ i > Len(s) /\ i - Len(s) \in 1..Len(t) /\ u = t[i - Len(s)]
      BY <2>3
    <3>2. \/ j \in 1..Len(s) /\ v = s[j]
          \/ j > Len(s) /\ j - Len(s) \in 1..Len(t) /\ v = t[j - Len(s)]
      BY <2>3
    <3>3. u = v
      OBVIOUS
    <3> HIDE DEF u, v
    <3>4. (i \in 1..Len(s) => u \in Range(s)) /\ (j \in 1..Len(s) => v \in Range(s))
      BY <1>1, <3>1, <3>2
    <3>5. (i > Len(s) => u \in Range(t)) /\ (j > Len(s) => v \in Range(t))
      BY <1>1, <2>1, <3>1, <3>2
    <3>6. i \in 1..Len(s) <=> j \in 1..Len(s)
      <4>1. ~(u \in Range(s) /\ u \in Range(t))
        BY <1>4, Zenon
      <4>2. (i \in 1..Len(s) \/ i > Len(s)) /\ (j \in 1..Len(s) \/ j > Len(s))
        BY <1>1
      <4>. QED
        BY <3>3, <3>4, <3>5, <4>1, <4>2, Zenon
    <3>7. CASE i \in 1..Len(s)
      BY <1>1, <3>1, <3>2, <3>3, <3>6, <3>7
    <3>8. CASE i \notin 1..Len(s)
      <4>1. /\ i - Len(s) \in 1..Len(t) /\ u = t[i - Len(s)]
            /\ j - Len(s) \in 1..Len(t) /\ v = t[j - Len(s)]
        BY <3>1, <3>2, <3>6, <3>8
      <4>2. i - Len(s) = j - Len(s)
        BY <2>1, <3>3, <4>1
      <4>. QED
        BY <1>1, <4>2
    <3>. QED
      BY <3>7, <3>8
  <2>5. ASSUME NEW y \in Range(s \o t) PROVE y \in Range(s) \cup Range(t)
    <3>1. PICK i \in 1..(Len(s) + Len(t)) : y = (s \o t)[i]
      BY <2>2 DEF Range
    <3>. QED
      BY <1>1, <2>1, <2>3, <3>1
  <2>6. ASSUME NEW y \in Range(s) \cup Range(t) PROVE y \in Range(s \o t)
    <3>1. CASE y \in Range(s)
      BY <1>1, <2>1, <2>2, <3>1 DEF Range
    <3>2. CASE y \in Range(t)
      <4>1. PICK i \in 1..Len(t) : y = t[i]
        BY <2>1, <3>2
      <4>2. Len(s) + i \in DOMAIN (s \o t)
        BY <1>1, <2>1, <2>2
      <4>. QED
        BY <2>2, <4>1, <4>2 DEF Range
    <3>. QED
      BY <3>1, <3>2
  <2>. QED
    BY <2>4, <2>5, <2>6
<1>. QED
  BY <1>2, <1>3, <1>4

\* The new subscriber joins the emitters.
LEMMA AddEmitterStep ==
    ASSUME IndInv, NEW c \in Clients, AddEmitter(c)
    PROVE  IndInv' /\ (LeftToRight /\ CoverInv => CoverInv')
<1>1. TypeOK /\ ServiceInv /\ EmittersOK /\ ClaimOK(hb.blk) /\ ClientInv(c) /\ PlanOK
  BY InvParts DEF ServiceInv
<1>2. /\ req[c].pc = "replied" /\ req' = [req EXCEPT ![c].pc = "active"]
      /\ emitters' = Append(emitters, c)
      /\ UNCHANGED <<chainVars, blk, listeners, svcVars, queue, hb, got>>
  BY DEF AddEmitter
<1>3. /\ chain' = chain /\ lastValidated' = lastValidated /\ blk' = blk /\ queue' = queue
      /\ evMgrAddr' = evMgrAddr /\ past' = past /\ got' = got /\ hb' = hb
      /\ listeners' = listeners
  BY <1>2 DEF chainVars, svcVars
<1>4. req \in [Clients -> RequestThread]
  BY <1>1 DEF TypeOK, RequestThread
<1>5. /\ req' \in [Clients -> RequestThread] /\ req'[c].pc = "active"
      /\ req'[c].past = req[c].past /\ req'[c].pub = req[c].pub /\ req'[c].blk = req[c].blk
      /\ \A d \in Clients \ {c} : req'[d] = req[d]
  <2>1. req' = [req EXCEPT ![c] = [req[c] EXCEPT !.pc = "active"]]
    BY <1>2, <1>4
  <2>2. [req[c] EXCEPT !.pc = "active"] \in RequestThread
    BY <1>4 DEF RequestThread
  <2>. QED
    BY <1>4, <2>1, <2>2 DEF RequestThread
<1>6. \A d : InFlight(d)' = InFlight(d) /\ (Sending(d)' <=> Sending(d))
  BY <1>3 DEF InFlight, Sending
<1>7. Touches({c})
  BY <1>2, <1>3, <1>5, <1>6 DEF Touches
<1>8. emitters \in Seq(Clients) /\ emitters' \in Seq(Clients)
  BY <1>1, <1>2 DEF TypeOK
<1>9. TypeOK'
  BY <1>1, <1>3, <1>5, <1>8 DEF TypeOK, RequestThread
<1>10. EmittersOK'
  <2>1. c \notin Range(emitters) \cup Range(hb.kept) \cup Range(hb.todo)
    BY <1>1, <1>2 DEF EmittersOK
  <2>2. IsInjective(emitters') /\ Range(emitters') = Range(emitters) \cup {c}
    BY <1>1, <1>2, <1>8, <2>1, InjectiveFacts DEF EmittersOK
  <2>3. Range(emitters) \subseteq Clients /\ Range(hb.kept) \subseteq Clients
        /\ Range(hb.todo) \subseteq Clients
    BY <1>1 DEF TypeOK, Range
  <2>4. \A d \in Range(emitters') \cup Range(hb.kept) \cup Range(hb.todo) : req'[d].pc = "active"
    BY <1>1, <1>5, <2>2, <2>3 DEF EmittersOK
  <2>5. Range(emitters') \cap (Range(hb.kept) \cup Range(hb.todo)) = {}
    BY <1>1, <2>1, <2>2 DEF EmittersOK
  <2>. QED
    BY <1>1, <1>3, <2>2, <2>4, <2>5 DEF EmittersOK
<1>11. /\ \A l : Pending(l)' = Pending(l)
       /\ \A p : Stored(p)' = Stored(p)
       /\ \A n : ClaimOK(n)' <=> ClaimOK(n)
  <2>1. \A n : ClaimOK(n)' <=> ClaimOK(n)
    BY <1>3 DEF ClaimOK, MonitorFree
  <2>. QED
    BY <1>7, <2>1, TouchesOnly
<1>12. ClaimOK(hb.blk)' /\ ClaimOK(req[c].blk)' /\ ToldOK(c)'
  BY <1>1, <1>3, <1>5 DEF ClaimOK, ToldOK, ClientInv, MonitorFree
<1>13. Live(c) /\ Live(c)' /\ ~Unread(c)' /\ c \in Subscribed
  BY <1>2, <1>5 DEF Live, Unread, Subscribed
<1>14. Promised(c)' = Promised(c)
  BY <1>3, <1>5, <1>6, Zenon DEF Promised
<1>15. RequestOK(c)'
  BY <1>1, <1>2, <1>3, <1>5, <1>13 DEF RequestOK, ClientInv
<1>16. FlowOK(c)'
  BY <1>1, <1>3, <1>11, <1>13, <1>14, FlowKept DEF ClientInv
<1>17. OrderOK(c)'
  BY <1>1, <1>3 DEF OrderOK, ClientInv
<1>18. ClientInv(c)'
  BY <1>12, <1>15, <1>16, <1>17 DEF ClientInv
<1>19. ASSUME CoverInv PROVE CoverOK(c)'
  <2>1. Covered(c) /\ Caught(c)
    BY <1>19 DEF CoverInv
  <2>2. PICK p : p = req[c].pub /\ p = req'[c].pub
    BY <1>5
  <2>3. Stored(req[c].pub)' = Stored(req[c].pub)
    BY <1>11, <2>2, StoredNext
  <2>4. Covered(c)'
    BY <1>5, <1>11, <1>13, <1>14, <2>1, <2>3 DEF Covered
  <2>5. Caught(c)'
    BY <1>3, <1>6, <1>13, <2>1, <2>3 DEF Caught
  <2>. QED
    BY <1>5, <2>4, <2>5 DEF CoverOK
<1>. QED
  BY <1>7, <1>9, <1>10, <1>12, <1>18, <1>19, RequestDone

\* A step of a request keeps the invariant.
LEMMA RequestKeeps ==
    ASSUME IndInv, NEW c \in Clients, Request(c)
    PROVE  IndInv' /\ (LeftToRight /\ CoverInv => CoverInv')
  BY SubReqStep, SubReqUnknownStep, ReadLastValidatedStep, ReadPastEventsStep, SendReplyStep,
     SendReplyThrowsStep, AddEmitterStep, Zenon DEF Request
-----------------------------------------------------------------------------
(***************************************************************************)
(* The steps of the heartbeat thread.                                      *)
(***************************************************************************)
HeartbeatThread ==
    [pc : {"idle", "emit", "drained", "send"}, todo : Seq(Clients),
     kept : Seq(Clients), out : Seq(Events), blk : Nat]

\* The client at the head of the list is active, and in no other place.
LEMMA HeadActive ==
    ASSUME IndInv, hb.todo # <<>>
    PROVE  /\ Head(hb.todo) \in Clients /\ req[Head(hb.todo)].pc = "active"
           /\ hb.todo \in Seq(Clients) /\ Tail(hb.todo) \in Seq(Clients)
           /\ IsInjective(Tail(hb.todo)) /\ Range(Tail(hb.todo)) = Range(hb.todo) \ {Head(hb.todo)}
           /\ Head(hb.todo) \in Range(hb.todo)
           /\ Head(hb.todo) \notin Range(emitters) \cup Range(hb.kept)
<1>1. TypeOK /\ EmittersOK
  BY InvParts
<1>2. hb.todo \in Seq(Clients) /\ Tail(hb.todo) \in Seq(Clients) /\ Head(hb.todo) \in Clients
  BY <1>1 DEF TypeOK
<1>3. /\ IsInjective(Tail(hb.todo)) /\ Range(Tail(hb.todo)) = Range(hb.todo) \ {Head(hb.todo)}
      /\ Head(hb.todo) \in Range(hb.todo)
  BY <1>1, <1>2, InjectiveFacts DEF EmittersOK
<1>. QED
  BY <1>1, <1>2, <1>3 DEF EmittersOK

\* A step of the heartbeat that touches no client.
LEMMA HeartbeatDone ==
    ASSUME IndInv, UNCHANGED <<chainVars, blk, listeners, svcVars, queue, req, got>>,
           hb' \in HeartbeatThread, emitters' \in Seq(Clients),
           \A d \in Clients : InFlight(d)' = InFlight(d) /\ (Sending(d)' <=> Sending(d)),
           EmittersOK', ClaimOK(hb'.blk)
    PROVE  IndInv' /\ (LeftToRight /\ CoverInv => CoverInv')
<1>1. TypeOK
  BY InvParts
<1>2. /\ chain' = chain /\ lastValidated' = lastValidated /\ blk' = blk /\ queue' = queue
      /\ evMgrAddr' = evMgrAddr /\ past' = past /\ got' = got /\ req' = req
      /\ listeners' = listeners
  BY DEF chainVars, svcVars
<1>3. TypeOK'
  BY <1>1, <1>2 DEF TypeOK, HeartbeatThread
<1>4. Touches({})
  BY <1>2 DEF Touches
<1>5. ClaimOK(hb.blk)'
  BY <1>2 DEF ClaimOK, MonitorFree
<1>. QED
  BY <1>3, <1>4, <1>5, TouchesOnly

\* A round starts with the emitters there are.
LEMMA EmitAllStep ==
    ASSUME IndInv, EmitAll
    PROVE  IndInv' /\ (LeftToRight /\ CoverInv => CoverInv')
<1>1. TypeOK /\ EmittersOK /\ ClaimOK(hb.blk)
  BY InvParts
<1>2. /\ hb.pc = "idle" /\ hb' = [hb EXCEPT !.pc = "emit", !.todo = emitters] /\ emitters' = <<>>
      /\ UNCHANGED <<chainVars, blk, listeners, svcVars, queue, req, got>> /\ req' = req
  BY DEF EmitAll
<1>3. hb \in HeartbeatThread /\ emitters \in Seq(Clients)
  BY <1>1 DEF TypeOK, HeartbeatThread
<1>4. /\ hb' \in HeartbeatThread /\ hb'.pc = "emit" /\ hb'.todo = emitters
      /\ hb'.kept = hb.kept /\ hb'.out = hb.out /\ hb'.blk = hb.blk
  BY <1>2, <1>3 DEF HeartbeatThread
<1>5. \A d \in Clients : InFlight(d)' = InFlight(d) /\ (Sending(d)' <=> Sending(d))
  BY <1>2, <1>4 DEF InFlight, Sending
<1>6. EmittersOK'
  <2>1. Range(<<>>) = {} /\ IsInjective(<<>>)
    BY DEF Range, IsInjective
  <2>2. hb.kept = <<>> /\ hb.todo = <<>>
    BY <1>1, <1>2 DEF EmittersOK
  <2>. QED
    BY <1>1, <1>2, <1>4, <2>1, <2>2 DEF EmittersOK
<1>7. emitters' \in Seq(Clients) /\ ClaimOK(hb'.blk)
  BY <1>1, <1>2, <1>4
<1>. QED
  BY <1>2, <1>4, <1>5, <1>6, <1>7, HeartbeatDone

\* The block number of a heartbeat is read while no block is being processed.
LEMMA ReadStateStep ==
    ASSUME IndInv, ReadState
    PROVE  IndInv' /\ (LeftToRight /\ CoverInv => CoverInv')
<1>1. TypeOK /\ EmittersOK
  BY InvParts
<1>2. /\ hb.pc = "drained" /\ MonitorFree /\ hb' = [hb EXCEPT !.pc = "send", !.blk = lastValidated]
      /\ UNCHANGED <<chainVars, blk, listeners, svcVars, queue, req, got>> /\ req' = req
      /\ emitters' = emitters
  BY DEF ReadState
<1>3. hb \in HeartbeatThread /\ emitters \in Seq(Clients) /\ lastValidated \in Nat
  BY <1>1 DEF TypeOK, HeartbeatThread
<1>4. /\ hb' \in HeartbeatThread /\ hb'.pc = "send" /\ hb'.todo = hb.todo
      /\ hb'.kept = hb.kept /\ hb'.out = hb.out /\ hb'.blk = lastValidated
  BY <1>2, <1>3 DEF HeartbeatThread
<1>5. \A d \in Clients : InFlight(d)' = InFlight(d) /\ (Sending(d)' <=> Sending(d))
  BY <1>2, <1>4 DEF InFlight, Sending
<1>6. EmittersOK'
  BY <1>1, <1>2, <1>4 DEF EmittersOK
<1>7. ClaimOK(hb'.blk)
  BY <1>2, <1>3, <1>4 DEF ClaimOK
<1>. QED
  BY <1>2, <1>3, <1>4, <1>5, <1>6, <1>7, HeartbeatDone

\* At the end of a round those who answered go in front of those who came meanwhile.
LEMMA EmitAllReturnsStep ==
    ASSUME IndInv, EmitAllReturns
    PROVE  IndInv' /\ (LeftToRight /\ CoverInv => CoverInv')
<1>1. TypeOK /\ EmittersOK /\ ClaimOK(hb.blk)
  BY InvParts
<1>2. /\ hb.pc = "emit" /\ hb.todo = <<>> /\ hb' = [hb EXCEPT !.pc = "idle", !.kept = <<>>]
      /\ emitters' = hb.kept \o emitters
      /\ UNCHANGED <<chainVars, blk, listeners, svcVars, queue, req, got>> /\ req' = req
  BY DEF EmitAllReturns, Merged
<1>3. hb \in HeartbeatThread /\ emitters \in Seq(Clients) /\ hb.kept \in Seq(Clients)
  BY <1>1 DEF TypeOK, HeartbeatThread
<1>4. /\ hb' \in HeartbeatThread /\ hb'.pc = "idle" /\ hb'.todo = <<>>
      /\ hb'.kept = <<>> /\ hb'.out = hb.out /\ hb'.blk = hb.blk
  <2>1. <<>> \in Seq(Clients)
    OBVIOUS
  <2>. QED
    BY <1>2, <1>3, <2>1 DEF HeartbeatThread
<1>5. \A d \in Clients : InFlight(d)' = InFlight(d) /\ (Sending(d)' <=> Sending(d))
  BY <1>2, <1>4 DEF InFlight, Sending
<1>6. IsInjective(emitters') /\ Range(emitters') = Range(hb.kept) \cup Range(emitters)
  <2>1. IsInjective(hb.kept) /\ IsInjective(emitters) /\ Range(hb.kept) \cap Range(emitters) = {}
    BY <1>1 DEF EmittersOK
  <2>2. \A t \in Seq(Clients) : IsInjective(t) /\ Range(hb.kept) \cap Range(t) = {} =>
           IsInjective(hb.kept \o t) /\ Range(hb.kept \o t) = Range(hb.kept) \cup Range(t)
    BY <1>3, <2>1, InjectiveFacts
  <2>. QED
    BY <1>2, <1>3, <2>1, <2>2
<1>7. EmittersOK'
  <2>1. Range(<<>>) = {} /\ IsInjective(<<>>)
    BY DEF Range, IsInjective
  <2>2. \A c \in Range(emitters') : req'[c].pc = "active"
    BY <1>1, <1>2, <1>6 DEF EmittersOK
  <2>. QED
    BY <1>4, <1>6, <2>1, <2>2 DEF EmittersOK
<1>8. emitters' \in Seq(Clients) /\ ClaimOK(hb'.blk)
  BY <1>1, <1>2, <1>3, <1>4
<1>. QED
  BY <1>2, <1>4, <1>5, <1>7, <1>8, HeartbeatDone

\* The queue is emptied into the message.
LEMMA DrainQueueStep ==
    ASSUME IndInv, DrainQueue
    PROVE  IndInv' /\ (LeftToRight /\ CoverInv => CoverInv')
<1>0. PICK c : c = Head(hb.todo)
  OBVIOUS
<1>1. /\ hb.pc = "emit" /\ hb.todo # <<>>
      /\ hb' = [hb EXCEPT !.pc = "drained", !.out = queue[c]]
      /\ queue' = [queue EXCEPT ![c] = <<>>]
      /\ UNCHANGED <<chainVars, blk, listeners, svcVars, req, emitters, got>>
  BY <1>0 DEF DrainQueue, Drained
<1>2. c \in Clients /\ req[c].pc = "active"
  BY <1>0, <1>1, HeadActive
<1>3. TypeOK /\ ServiceInv /\ EmittersOK /\ ClaimOK(hb.blk) /\ ClientInv(c) /\ PlanOK
  BY <1>0, <1>2, InvParts DEF ServiceInv
<1>4. /\ chain' = chain /\ lastValidated' = lastValidated /\ blk' = blk /\ req' = req
      /\ evMgrAddr' = evMgrAddr /\ past' = past /\ got' = got /\ emitters' = emitters
      /\ listeners' = listeners
  BY <1>0, <1>1 DEF chainVars, svcVars
<1>5. hb \in HeartbeatThread /\ queue \in [Clients -> Seq(Events)]
  BY <1>0, <1>3 DEF TypeOK, HeartbeatThread
<1>6. /\ hb' \in HeartbeatThread /\ hb'.pc = "drained" /\ hb'.todo = hb.todo
      /\ hb'.kept = hb.kept /\ hb'.out = queue[c] /\ hb'.blk = hb.blk
  <2>1. queue[c] \in Seq(Events)
    BY <1>0, <1>2, <1>5
  <2>. QED
    BY <1>0, <1>1, <1>5, <2>1 DEF HeartbeatThread
<1>7. /\ queue' \in [Clients -> Seq(Events)] /\ queue'[c] = <<>>
      /\ \A d \in Clients \ {c} : queue'[d] = queue[d]
  BY <1>0, <1>1, <1>2, <1>5
<1>8. /\ InFlight(c) = <<>> /\ InFlight(c)' = queue[c] /\ ~Sending(c) /\ Sending(c)'
      /\ \A d \in Clients \ {c} : InFlight(d)' = InFlight(d) /\ (Sending(d)' <=> Sending(d))
  BY <1>0, <1>1, <1>6 DEF InFlight, Sending
<1>9. Touches({c})
  BY <1>1, <1>4, <1>7, <1>8 DEF Touches
<1>10. TypeOK'
  BY <1>3, <1>4, <1>6, <1>7 DEF TypeOK, HeartbeatThread
<1>11. EmittersOK'
  BY <1>1, <1>3, <1>4, <1>6 DEF EmittersOK
<1>12. ClaimOK(hb.blk)' /\ ClaimOK(req[c].blk)' /\ ToldOK(c)'
  BY <1>3, <1>4, <1>6 DEF ClaimOK, ToldOK, ClientInv, MonitorFree
<1>13. /\ \A l : Pending(l)' = Pending(l)
       /\ \A p : Stored(p)' = Stored(p)
  BY <1>2, <1>9, TouchesOnly
<1>14. Live(c) /\ Live(c)' /\ ~Unread(c)' /\ c \in Subscribed /\ (c \in Subscribed)'
  BY <1>2, <1>4 DEF Live, Unread, Subscribed
<1>15. Promised(c)' = Promised(c)
  <2> DEFINE s == got[c].events \o req[c].past
             q == queue[c]
  <2>1. s \in Seq(Events) /\ q \in Seq(Events)
    BY <1>2, <1>3, StoredEvents
  <2>2. Promised(c) = (s \o <<>>) \o q
    BY <1>8, Zenon DEF Promised
  <2>3. Promised(c)' = (s \o q) \o <<>>
    BY <1>4, <1>7, <1>8, Zenon DEF Promised
  <2> HIDE DEF s, q
  <2>4. (s \o <<>>) \o q = (s \o q) \o <<>>
    BY <2>1
  <2>. QED
    BY <2>2, <2>3, <2>4
<1>16. RequestOK(c)'
  BY <1>2, <1>3, <1>4, <1>14 DEF RequestOK, ClientInv
<1>17. FlowOK(c)'
  BY <1>2, <1>3, <1>4, <1>13, <1>14, <1>15, FlowKept DEF ClientInv
<1>18. OrderOK(c)'
  <2>1. OrderOK(c) /\ got'[c].events = got[c].events
    BY <1>3, <1>4 DEF ClientInv
  <2>. QED
    BY <2>1 DEF OrderOK
<1>19. ClientInv(c)'
  BY <1>12, <1>16, <1>17, <1>18 DEF ClientInv
<1>20. ASSUME CoverInv PROVE CoverOK(c)'
  <2>1. Covered(c) /\ Caught(c)
    BY <1>2, <1>20 DEF CoverInv
  <2>2. PICK p : p = req[c].pub /\ p = req'[c].pub
    BY <1>4
  <2>3. Stored(req[c].pub)' = Stored(req[c].pub)
    BY <1>13, <2>2, StoredNext
  <2>4. Covered(c)'
    BY <1>2, <1>4, <1>13, <1>14, <1>15, <2>1, <2>3 DEF Covered
  <2>5. Caught(c)'
    <3>1. \A e \in Stored(req[c].pub) :
             /\ e[1] <= got[c].prevClaim => e \in Range(got[c].events)
             /\ e[1] <= got[c].claim => e \in Range(got[c].events) \cup Range(<<>>) \cup Range(queue[c])
      BY <1>8, <1>14, <2>1 DEF Caught
    <3>2. Range(<<>>) = {}
      BY DEF Range
    <3>3. \A e \in Stored(req[c].pub)' :
             /\ e[1] <= got'[c].prevClaim => e \in Range(got'[c].events)
             /\ e[1] <= got'[c].claim => e \in Range(got'[c].events) \cup Range(InFlight(c)')
      BY <1>4, <1>8, <2>3, <3>1, <3>2
    <3>. QED
      BY <3>3 DEF Caught
  <2>. QED
    BY <1>2, <1>4, <2>4, <2>5 DEF CoverOK
<1>. QED
  BY <1>2, <1>9, <1>10, <1>11, <1>12, <1>19, <1>20, RequestDone

\* The lists after the client at the head was dealt with.
LEMMA HeadDone ==
    ASSUME IndInv, hb.pc = "send", hb' \in HeartbeatThread, hb'.pc = "emit",
           hb'.todo = Tail(hb.todo), emitters' = emitters,
           \/ hb'.kept = hb.kept /\ req'[Head(hb.todo)].pc = "failed"
           \/ hb'.kept = Append(hb.kept, Head(hb.todo)) /\ req'[Head(hb.todo)] = req[Head(hb.todo)],
           \A d \in Clients \ {Head(hb.todo)} : req'[d] = req[d]
    PROVE  EmittersOK'
<1>0. PICK c : c = Head(hb.todo)
  OBVIOUS
<1>1. TypeOK /\ EmittersOK /\ hb.todo # <<>>
  BY InvParts DEF EmittersOK
<1>2. /\ c \in Clients /\ req[c].pc = "active"
      /\ IsInjective(Tail(hb.todo)) /\ Range(Tail(hb.todo)) = Range(hb.todo) \ {c}
      /\ c \in Range(hb.todo) /\ c \notin Range(emitters) \cup Range(hb.kept)
  BY <1>0, <1>1, HeadActive
<1>3. \/ hb'.kept = hb.kept /\ req'[c].pc = "failed"
      \/ hb'.kept = Append(hb.kept, c) /\ req'[c] = req[c]
  BY <1>0
<1>4. \A d \in Clients \ {c} : req'[d] = req[d]
  BY <1>0
<1>5. hb.kept \in Seq(Clients) /\ Range(emitters) \subseteq Clients
      /\ Range(hb.kept) \subseteq Clients /\ Range(hb.todo) \subseteq Clients
  <2>1. hb.kept \in Seq(Clients) /\ emitters \in Seq(Clients) /\ hb.todo \in Seq(Clients)
    BY <1>1 DEF TypeOK
  <2>. QED
    BY <2>1 DEF Range
<1>6. /\ IsInjective(hb'.kept) /\ Range(hb.kept) \subseteq Range(hb'.kept)
      /\ Range(hb'.kept) \subseteq Range(hb.kept) \cup {c}
      /\ c \in Range(hb'.kept) => req'[c].pc = "active"
  <2>1. IsInjective(hb.kept)
    BY <1>1 DEF EmittersOK
  <2>2. IsInjective(Append(hb.kept, c)) /\ Range(Append(hb.kept, c)) = Range(hb.kept) \cup {c}
    BY <1>2, <1>5, <2>1, InjectiveFacts
  <2>. QED
    BY <1>2, <1>3, <2>1, <2>2
<1>7. \A d \in Range(emitters) \cup Range(hb'.kept) \cup Range(Tail(hb.todo)) : req'[d].pc = "active"
  <2> TAKE d \in Range(emitters) \cup Range(hb'.kept) \cup Range(Tail(hb.todo))
  <2>1. CASE d = c
    BY <1>2, <1>6, <2>1
  <2>2. CASE d # c
    <3>1. d \in Range(emitters) \cup Range(hb.kept) \cup Range(hb.todo) /\ d \in Clients
      BY <1>2, <1>5, <1>6, <2>2
    <3>2. req[d].pc = "active"
      BY <1>1, <3>1 DEF EmittersOK
    <3>. QED
      BY <1>4, <2>2, <3>1, <3>2
  <2>. QED
    BY <2>1, <2>2
<1>8. Range(emitters) \cap (Range(hb'.kept) \cup Range(Tail(hb.todo))) = {}
      /\ Range(hb'.kept) \cap Range(Tail(hb.todo)) = {}
  <2>1. Range(emitters) \cap (Range(hb.kept) \cup Range(hb.todo)) = {}
        /\ Range(hb.kept) \cap Range(hb.todo) = {}
    BY <1>1 DEF EmittersOK
  <2>. QED
    BY <1>2, <1>6, <2>1
<1>9. IsInjective(emitters)
  BY <1>1 DEF EmittersOK
<1>. QED
  BY <1>2, <1>6, <1>7, <1>8, <1>9 DEF EmittersOK

\* The message is sent.
LEMMA EmitSendStep ==
    ASSUME IndInv, EmitSend
    PROVE  IndInv' /\ (LeftToRight /\ CoverInv => CoverInv')
<1>0. PICK c : c = Head(hb.todo)
  OBVIOUS
<1>1. /\ hb.pc = "send" /\ got' = Received(c, hb.out, hb.blk)
      /\ hb' = [hb EXCEPT !.pc = "emit", !.todo = Tail(@), !.out = <<>>, !.blk = 0,
                          !.kept = Append(@, c)]
      /\ UNCHANGED <<chainVars, blk, listeners, svcVars, queue, req, emitters>>
  BY <1>0 DEF EmitSend
<1>2. hb.todo # <<>>
  BY <1>0, <1>1, InvParts DEF EmittersOK
<1>3. c \in Clients /\ req[c].pc = "active" /\ Tail(hb.todo) \in Seq(Clients)
  BY <1>0, <1>2, HeadActive
<1>4. TypeOK /\ ServiceInv /\ EmittersOK /\ ClaimOK(hb.blk) /\ ClientInv(c) /\ PlanOK
  BY <1>0, <1>3, InvParts DEF ServiceInv
<1>5. /\ chain' = chain /\ lastValidated' = lastValidated /\ blk' = blk /\ req' = req
      /\ evMgrAddr' = evMgrAddr /\ past' = past /\ queue' = queue /\ emitters' = emitters
      /\ listeners' = listeners
  BY <1>0, <1>1 DEF chainVars, svcVars
<1>6. hb \in HeartbeatThread /\ hb.out \in Seq(Events) /\ hb.blk \in Nat
  BY <1>0, <1>4 DEF TypeOK, HeartbeatThread
<1>7. /\ hb' \in HeartbeatThread /\ hb'.pc = "emit" /\ hb'.todo = Tail(hb.todo)
      /\ hb'.kept = Append(hb.kept, c) /\ hb'.out = <<>> /\ hb'.blk = 0
  <2>1. <<>> \in Seq(Events) /\ Append(hb.kept, c) \in Seq(Clients) /\ 0 \in Nat
    BY <1>0, <1>3, <1>6 DEF HeartbeatThread
  <2>. QED
    BY <1>0, <1>1, <1>3, <1>6, <2>1 DEF HeartbeatThread
<1>8. EmittersOK'
  BY <1>0, <1>1, <1>5, <1>7, HeadDone
<1>9. /\ InFlight(c) = hb.out /\ InFlight(c)' = <<>> /\ Sending(c) /\ ~Sending(c)'
      /\ \A d \in Clients \ {c} : InFlight(d)' = InFlight(d) /\ (Sending(d)' <=> Sending(d))
  BY <1>0, <1>1, <1>7 DEF InFlight, Sending
<1>10. /\ got' \in [Clients -> ClientState]
       /\ got'[c].events = got[c].events \o hb.out /\ got'[c].claim = hb.blk
       /\ got'[c].prevClaim = got[c].claim
       /\ \A d \in Clients \ {c} : got'[d] = got[d]
  BY <1>1, <1>3, <1>4, <1>6, ReceivedFacts
<1>11. Touches({c})
  BY <1>1, <1>5, <1>9, <1>10 DEF Touches
<1>12. TypeOK'
  BY <1>4, <1>5, <1>7, <1>10 DEF TypeOK, HeartbeatThread, ClientState
<1>13. ClaimOK(hb.blk)' /\ ClaimOK(req[c].blk)' /\ ToldOK(c)'
  <2>1. lastValidated \in Nat /\ Len(chain) \in Nat
    BY <1>4 DEF TypeOK
  <2>2. ClaimOK(0)
    BY <1>4, <1>6, <2>1 DEF ClaimOK
  <2>. QED
    BY <1>4, <1>5, <1>7, <1>10, <2>2 DEF ClaimOK, ToldOK, ClientInv, MonitorFree
<1>14. /\ \A l : Pending(l)' = Pending(l)
       /\ \A p : Stored(p)' = Stored(p)
       /\ PlanOK'
  <2>1. /\ \A l : Pending(l)' = Pending(l)
        /\ \A p : Stored(p)' = Stored(p)
        /\ ServiceInv'
    BY <1>3, <1>11, TouchesOnly
  <2>. QED
    BY <2>1 DEF ServiceInv
<1>15. Live(c) /\ Live(c)' /\ ~Unread(c)' /\ c \in Subscribed /\ (c \in Subscribed)'
  BY <1>3, <1>5 DEF Live, Unread, Subscribed
<1>16. req[c].past = <<>>
  BY <1>3, <1>4 DEF ClientInv, RequestOK
<1>17. got[c].events \in Seq(Events) /\ queue[c] \in Seq(Events)
  BY <1>3, <1>4, StoredEvents
<1>18. Promised(c) = (got[c].events \o hb.out) \o queue[c] /\ Promised(c)' = Promised(c)
  <2> DEFINE s == got[c].events
             f == hb.out
             q == queue[c]
  <2>1. s \in Seq(Events) /\ f \in Seq(Events) /\ q \in Seq(Events)
    BY <1>6, <1>17
  <2>2. Promised(c) = ((s \o <<>>) \o f) \o q
    BY <1>9, <1>16, Zenon DEF Promised
  <2>3. Promised(c)' = (((s \o f) \o <<>>) \o <<>>) \o q
    BY <1>5, <1>9, <1>10, <1>16, Zenon DEF Promised
  <2> HIDE DEF s, f, q
  <2>4. s \o <<>> = s
    BY <2>1
  <2>5. (s \o f) \o <<>> = s \o f
    BY <2>1
  <2>6. ((s \o <<>>) \o f) \o q = (s \o f) \o q
    BY <2>4
  <2>7. (((s \o f) \o <<>>) \o <<>>) \o q = (s \o f) \o q
    BY <2>5
  <2>8. Promised(c) = (s \o f) \o q /\ Promised(c)' = Promised(c)
    BY <2>2, <2>3, <2>6, <2>7, Zenon
  <2>. QED
    BY <2>8, Zenon DEF s, f, q
<1>19. RequestOK(c)'
  BY <1>3, <1>4, <1>5, <1>15, <1>16 DEF RequestOK, ClientInv
<1>20. FlowOK(c)'
  BY <1>3, <1>4, <1>5, <1>14, <1>15, <1>18, FlowKept DEF ClientInv
<1>21. OrderOK(c)'
  BY <1>3, <1>12, <1>14, <1>15, <1>20, OrderFromFlowNext
<1>22. ClientInv(c)'
  BY <1>13, <1>19, <1>20, <1>21 DEF ClientInv
<1>23. ASSUME CoverInv PROVE CoverOK(c)'
  <2>1. Covered(c) /\ Caught(c)
    BY <1>3, <1>23 DEF CoverInv
  <2>2. PICK p : p = req[c].pub /\ p = req'[c].pub
    BY <1>5
  <2>3. Stored(req[c].pub)' = Stored(p) /\ Stored(req[c].pub) = Stored(p)
    BY <1>14, <2>2, StoredNext
  <2>4. Covered(c)'
    BY <1>3, <1>5, <1>14, <1>15, <1>18, <2>1, <2>3 DEF Covered
  <2>5. Range(got'[c].events) = Range(got[c].events) \cup Range(hb.out)
        /\ Range(Promised(c)) = Range(got'[c].events) \cup Range(queue[c])
    <3>1. <<1, 1>> \in Events
      BY DEF Events
    <3>2. got'[c].events \in Seq(Events) /\ Promised(c) = got'[c].events \o queue[c]
      BY <1>3, <1>10, <1>18 DEF ClientState
    <3>3. Range(got[c].events \o hb.out) = Range(got[c].events) \cup Range(hb.out)
      BY <1>6, <1>17, <3>1, RangeFacts
    <3>4. Range(got'[c].events \o queue[c]) = Range(got'[c].events) \cup Range(queue[c])
      <4> DEFINE g == got'[c].events
      <4>1. g \in Seq(Events)
        BY <3>2
      <4> HIDE DEF g
      <4>2. Range(g \o queue[c]) = Range(g) \cup Range(queue[c])
        BY <1>17, <3>1, <4>1, RangeFacts
      <4>. QED
        BY <4>2 DEF g
    <3>. QED
      BY <1>10, <3>2, <3>3, <3>4
  <2>6. ASSUME NEW e \in Stored(p)
        PROVE  /\ e[1] <= got'[c].prevClaim => e \in Range(got'[c].events)
               /\ e[1] <= got'[c].claim => e \in Range(got'[c].events) \cup Range(queue[c])
    <3>1. ASSUME e[1] <= got'[c].prevClaim PROVE e \in Range(got'[c].events)
      <4>1. e \in Range(got[c].events) \cup Range(InFlight(c))
        BY <1>9, <1>10, <1>15, <2>1, <2>3, <2>6, <3>1 DEF Caught
      <4>. QED
        BY <1>9, <2>5, <4>1
    <3>2. ASSUME e[1] <= got'[c].claim PROVE e \in Range(got'[c].events) \cup Range(queue[c])
      <4>1. e \in Range(Promised(c)) \cup Pending(ClientListener(c))
        BY <1>15, <2>1, <2>3, <2>6 DEF Covered
      <4>2. e \notin Pending(ClientListener(c))
        BY <1>4, <1>6, <1>10, <3>2, ClaimedNotPending
      <4>. QED
        BY <2>5, <4>1, <4>2
    <3>. QED
      BY <3>1, <3>2
  <2>7. Caught(c)'
    BY <1>5, <1>9, <2>3, <2>6 DEF Caught
  <2>. QED
    BY <1>3, <1>5, <2>4, <2>7 DEF CoverOK
<1>. QED
  BY <1>3, <1>8, <1>11, <1>12, <1>13, <1>22, <1>23, RequestDone

\* The client is gone: its listener is cancelled, its emitter dropped.
LEMMA EmitThrowsStep ==
    ASSUME IndInv, EmitThrows
    PROVE  IndInv' /\ (LeftToRight /\ CoverInv => CoverInv')
<1>0. PICK c : c = Head(hb.todo)
  OBVIOUS
<1>1. /\ hb.pc = "send" /\ listeners' = listeners \ {ClientListener(c)}
      /\ req' = [req EXCEPT ![c].pc = "failed"]
      /\ hb' = [hb EXCEPT !.pc = "emit", !.todo = Tail(@), !.out = <<>>, !.blk = 0]
      /\ UNCHANGED <<chainVars, blk, svcVars, queue, emitters, got>>
  BY <1>0 DEF EmitThrows
<1>2. hb.todo # <<>>
  BY <1>0, <1>1, InvParts DEF EmittersOK
<1>3. c \in Clients /\ req[c].pc = "active" /\ Tail(hb.todo) \in Seq(Clients)
  BY <1>0, <1>2, HeadActive
<1>4. TypeOK /\ EmittersOK /\ ClaimOK(hb.blk) /\ ClientInv(c)
  BY <1>0, <1>3, InvParts
<1>5. /\ chain' = chain /\ lastValidated' = lastValidated /\ blk' = blk /\ got' = got
      /\ evMgrAddr' = evMgrAddr /\ past' = past /\ queue' = queue /\ emitters' = emitters
  BY <1>0, <1>1 DEF chainVars, svcVars
<1>6. hb \in HeartbeatThread /\ hb.blk \in Nat
  BY <1>0, <1>4 DEF TypeOK, HeartbeatThread
<1>7. /\ hb' \in HeartbeatThread /\ hb'.pc = "emit" /\ hb'.todo = Tail(hb.todo)
      /\ hb'.kept = hb.kept /\ hb'.out = <<>> /\ hb'.blk = 0
  <2>1. <<>> \in Seq(Events) /\ 0 \in Nat
    OBVIOUS
  <2>. QED
    BY <1>0, <1>1, <1>3, <1>6, <2>1 DEF HeartbeatThread
<1>8. req \in [Clients -> RequestThread]
  BY <1>0, <1>4 DEF TypeOK, RequestThread
<1>9. /\ req' \in [Clients -> RequestThread] /\ req'[c].pc = "failed" /\ req'[c].blk = req[c].blk
      /\ \A d \in Clients \ {c} : req'[d] = req[d]
  <2>1. req' = [req EXCEPT ![c] = [req[c] EXCEPT !.pc = "failed"]]
    BY <1>0, <1>1, <1>8
  <2>2. [req[c] EXCEPT !.pc = "failed"] \in RequestThread
    BY <1>0, <1>3, <1>8 DEF RequestThread
  <2>. QED
    BY <1>0, <1>3, <1>8, <2>1, <2>2 DEF RequestThread
<1>10. EmittersOK'
  BY <1>0, <1>1, <1>5, <1>7, <1>9, HeadDone
<1>11. \A d \in Clients \ {c} : InFlight(d)' = InFlight(d) /\ (Sending(d)' <=> Sending(d))
  BY <1>0, <1>1, <1>7 DEF InFlight, Sending
<1>12. Touches({c})
  BY <1>1, <1>5, <1>9, <1>11 DEF Touches
<1>13. TypeOK'
  BY <1>1, <1>4, <1>5, <1>7, <1>9 DEF TypeOK, HeartbeatThread, RequestThread
<1>14. ClaimOK(hb.blk)' /\ ClaimOK(req[c].blk)' /\ ToldOK(c)'
  <2>1. lastValidated \in Nat /\ Len(chain) \in Nat
    BY <1>4 DEF TypeOK
  <2>2. ClaimOK(0)
    BY <1>4, <1>6, <2>1 DEF ClaimOK
  <2>. QED
    BY <1>4, <1>5, <1>7, <1>9, <2>2 DEF ClaimOK, ToldOK, ClientInv, MonitorFree
<1>15. ~Live(c)' /\ ~Unread(c)' /\ ~(c \in Subscribed)'
  BY <1>9 DEF Live, Unread, Subscribed
<1>16. RequestOK(c)'
  BY <1>9, <1>15 DEF RequestOK
<1>17. OrderOK(c)'
  BY <1>4, <1>5 DEF OrderOK, ClientInv
<1>18. ClientInv(c)'
  BY <1>14, <1>15, <1>16, <1>17 DEF ClientInv, FlowOK
<1>19. CoverOK(c)'
  BY <1>9, <1>15 DEF CoverOK, Covered, Caught
<1>. QED
  BY <1>3, <1>10, <1>12, <1>13, <1>14, <1>18, <1>19, RequestDone

\* A step of the heartbeat keeps the invariant.
LEMMA HeartbeatKeeps ==
    ASSUME IndInv, Heartbeat
    PROVE  IndInv' /\ (LeftToRight /\ CoverInv => CoverInv')
  BY EmitAllStep, DrainQueueStep, ReadStateStep, EmitSendStep, EmitThrowsStep,
     EmitAllReturnsStep, Zenon DEF Heartbeat
-----------------------------------------------------------------------------
(***************************************************************************)
(* The steps of the block thread, but for the start of a block.            *)
(***************************************************************************)
\* Such a step leaves the chain, the requests and the heartbeat alone: it has to
\* show what it does to the service and to the clients in S.
LEMMA BlockDone ==
    ASSUME IndInv, NEW S \in SUBSET Clients, UNCHANGED <<req, emitters, hb, got>>, chain' = chain,
           \A d \in Clients \ S :
              /\ queue'[d] = queue[d]
              /\ Pending(ClientListener(d))' = Pending(ClientListener(d)),
           \A d \in Clients :
              ClientListener(d) \in listeners' <=> ClientListener(d) \in listeners,
           evMgrAddr \subseteq evMgrAddr',
           \A p : Stored(p)' = Stored(p),
           \A p : Pending(PastListener(p))' \subseteq Pending(PastListener(p)),
           \A n \in Nat : ClaimOK(n) => ClaimOK(n)',
           TypeOK', ServiceInv', \A c \in S : ClientInv(c)'
    PROVE  /\ IndInv'
           /\ CoverInv /\ (\A c \in S : CoverOK(c)') => CoverInv'
<1>1. TypeOK /\ EmittersOK /\ ClaimOK(hb.blk)
  BY InvParts
<1>2. req' = req /\ emitters' = emitters /\ hb' = hb /\ got' = got
  OBVIOUS
<1>3. EmittersOK' /\ ClaimOK(hb.blk)'
  <2>1. hb.blk \in Nat
    BY <1>1 DEF TypeOK
  <2>2. PICK n \in Nat : n = hb.blk
    BY <2>1
  <2>3. ClaimOK(n)'
    BY <1>1, <2>2
  <2>4. ClaimOK(hb.blk)'
    BY <1>2, <2>2, <2>3 DEF ClaimOK
  <2>. QED
    BY <1>1, <1>2, <2>4 DEF EmittersOK
<1>4. ASSUME NEW d \in Clients \ S PROVE Untouched(d)
  <2>1. InFlight(d)' = InFlight(d) /\ (Sending(d)' <=> Sending(d))
    BY <1>2 DEF InFlight, Sending
  <2>. QED
    BY <1>2, <2>1 DEF Untouched
<1>. QED
  BY <1>3, <1>4, StepDone

\* A step that touches no client at all.
LEMMA ServiceDone ==
    ASSUME IndInv, UNCHANGED <<chain, queue, req, emitters, hb, got>>,
           \A c : Pending(ClientListener(c))' = Pending(ClientListener(c)),
           \A c : ClientListener(c) \in listeners' <=> ClientListener(c) \in listeners,
           evMgrAddr \subseteq evMgrAddr',
           \A p : Stored(p)' = Stored(p),
           \A p : Pending(PastListener(p))' \subseteq Pending(PastListener(p)),
           \A n \in Nat : ClaimOK(n) => ClaimOK(n)',
           TypeOK', ServiceInv'
    PROVE  IndInv' /\ (CoverInv => CoverInv')
<1>1. {} \in SUBSET Clients
  OBVIOUS
<1>2. chain' = chain /\ UNCHANGED <<req, emitters, hb, got>>
  OBVIOUS
<1>3. \A d \in Clients \ {} :
         queue'[d] = queue[d] /\ Pending(ClientListener(d))' = Pending(ClientListener(d))
  OBVIOUS
<1>. QED
  BY <1>1, <1>2, <1>3, BlockDone

\* What every step between the start of a block and its end leaves as it is.
LEMMA BlockSteady ==
    ASSUME IndInv, UNCHANGED chainVars, ~MonitorFree, ~MonitorFree',
           \A p : Stored(p)' = Stored(p)
    PROVE  /\ \A n \in Nat : ClaimOK(n) => ClaimOK(n)'
           /\ LaterEventsStored' /\ LastBlock' = LastBlock /\ chain' = chain
           /\ lastValidated' = Len(chain')
           /\ \A n, p : (DeployedIn(n)' <=> DeployedIn(n)) /\ (RegisteredIn(p, n)' <=> RegisteredIn(p, n))
<1>1. chain' = chain /\ lastValidated' = lastValidated
  BY DEF chainVars
<1>2. PlanOK /\ LaterEventsStored
  BY InvParts DEF ServiceInv
<1>3. \A n \in Nat : ClaimOK(n) => ClaimOK(n)'
  BY <1>1 DEF ClaimOK
<1>4. LaterEventsStored'
  BY <1>1, <1>2 DEF LaterEventsStored
<1>5. lastValidated' = Len(chain')
  BY <1>1, <1>2 DEF PlanOK, MonitorFree
<1>. QED
  BY <1>1, <1>3, <1>4, <1>5 DEF LastBlock, DeployedIn, RegisteredIn

\* The plan after a callback has returned.
LEMMA PlanCalled ==
    ASSUME IndInv, UNCHANGED chainVars, ~MonitorFree, NEW pl \in blk.plan, blk' = Called(pl),
           \A p \in Publishers : PastListener(p) \in listeners => PastListener(p) \in listeners'
    PROVE  PlanOK' /\ ~MonitorFree'
<1>1. TypeOK /\ PlanOK
  BY InvParts DEF ServiceInv
<1>2. chain' = chain /\ lastValidated' = lastValidated
  BY DEF chainVars
<1>3. /\ blk' \in BlockThread /\ blk'.pc = "run"
      /\ \A x, y \in blk'.plan : x.lst = y.lst => x = y
      /\ \A x \in blk'.plan : /\ x.logs # {}
                              /\ \E y \in blk.plan : x.lst = y.lst /\ x.logs \subseteq y.logs
  BY <1>1, <1>2, CalledPlan
<1>4. ~MonitorFree' /\ lastValidated' = Len(chain') /\ LastBlock' = LastBlock
  BY <1>1, <1>2, <1>3 DEF MonitorFree, PlanOK, LastBlock
<1>5. ASSUME NEW x \in blk'.plan
      PROVE  /\ Len(chain) > 0 /\ x.logs # {} /\ x.logs \subseteq 1..Len(LastBlock)
             /\ x.lst = RegListener => \A i \in x.logs : \E p \in Publishers : LastBlock[i] = Reg(p)
             /\ x.lst[1] = "past" => x.lst \in listeners'
  <2>1. PICK y \in blk.plan : x.lst = y.lst /\ x.logs \subseteq y.logs
    BY <1>3
  <2>2. /\ Len(chain) > 0 /\ y.logs \subseteq 1..Len(LastBlock)
        /\ y.lst = RegListener => \A i \in y.logs : \E p \in Publishers : LastBlock[i] = Reg(p)
        /\ y.lst[1] = "past" => y.lst \in listeners
    BY <1>1 DEF PlanOK
  <2>3. y.lst[1] = "past" => y.lst \in listeners'
    <3> SUFFICES ASSUME y.lst[1] = "past" PROVE y.lst \in listeners'
      OBVIOUS
    <3>1. y.lst \in Listeners
      BY <1>1 DEF TypeOK
    <3>2. PICK p \in Publishers : y.lst = PastListener(p)
      BY <3>1, ListenersAre, ListenerKinds
    <3>. QED
      BY <2>2, <3>2
  <2>. QED
    BY <1>3, <2>1, <2>2, <2>3
<1>6. blk'.pc # "store" /\ blk'.pc # "push" /\ blk'.pc # "stopped"
  BY <1>3
<1>. QED
  BY <1>2, <1>3, <1>4, <1>5, <1>6 DEF PlanOK

\* A callback that does not follow the contract leaves what is followed.
LEMMA FollowSteady ==
    ASSUME FollowOK, chain' = chain,
           DeployListener \in listeners => DeployListener \in listeners',
           RegListener \in listeners => RegListener \in listeners',
           \A p \in Publishers : PastListener(p) \in listeners => PastListener(p) \in listeners',
           \A y \in blk.plan : y.lst \in {DeployListener, RegListener} => y \in blk'.plan
    PROVE  FollowOK'
<1>1. \A p \in Publishers : Followed(p) => Followed(p)'
  BY DEF Followed
<1>2. \A n, p : (DeployedIn(n)' <=> DeployedIn(n)) /\ (RegisteredIn(p, n)' <=> RegisteredIn(p, n))
  BY DEF DeployedIn, RegisteredIn
<1>3. LastBlock' = LastBlock
  BY DEF LastBlock
<1>4. ASSUME NEW d \in 1..Len(chain), DeployedIn(d)
      PROVE  \/ RegListener \in listeners'
             \/ d = Len(chain) /\ \E pl \in blk'.plan : pl.lst = DeployListener
  <2>1. \/ RegListener \in listeners
        \/ d = Len(chain) /\ \E pl \in blk.plan : pl.lst = DeployListener
    BY <1>4 DEF FollowOK
  <2>. QED
    BY <2>1
<1>5. ASSUME NEW d \in 1..Len(chain), NEW r \in 1..Len(chain), NEW p \in Publishers,
             d < r, DeployedIn(d), RegisteredIn(p, r)
      PROVE  \/ Followed(p)'
             \/ r = Len(chain) /\ \E pl \in blk'.plan :
                   pl.lst = RegListener /\ \E i \in pl.logs : LastBlock[i] = Reg(p)
  <2>1. \/ Followed(p)
        \/ r = Len(chain) /\ \E pl \in blk.plan :
              pl.lst = RegListener /\ \E i \in pl.logs : LastBlock[i] = Reg(p)
    BY <1>5 DEF FollowOK
  <2>. QED
    BY <1>1, <2>1
<1>6. DeployListener \in listeners' \/ RegListener \in listeners'
  BY DEF FollowOK
<1>. QED
  BY <1>2, <1>3, <1>4, <1>5, <1>6 DEF FollowOK

\* The block is done, or the next one cannot be followed.
LEMMA BlockEnds ==
    ASSUME IndInv, AppendBlockReturns \/ AppendBlockThrows
    PROVE  IndInv' /\ (CoverInv => CoverInv')
<1>1. TypeOK /\ ServiceInv /\ PlanOK /\ StoreOK /\ FollowOK /\ LaterEventsStored
  BY InvParts DEF ServiceInv
<1>2. /\ UNCHANGED <<chain, listeners, svcVars, queue, req, emitters, hb, got>>
      /\ chain' = chain /\ listeners' = listeners /\ evMgrAddr' = evMgrAddr /\ past' = past
      /\ queue' = queue
  BY DEF AppendBlockReturns, AppendBlockThrows, chainVars, svcVars
<1>3. Len(chain) \in Nat /\ lastValidated \in Nat /\ blk \in BlockThread
  BY <1>1 DEF TypeOK, BlockThread
<1>4. /\ blk.plan = {} /\ blk'.plan = {} /\ blk' \in BlockThread
      /\ blk.pc \in {"run", "idle"} /\ lastValidated = Len(chain)
      /\ \/ blk'.pc = "idle" /\ lastValidated' = Len(chain)
         \/ blk'.pc = "stopped" /\ lastValidated' = Len(chain) + 1
  <2>1. CASE AppendBlockReturns
    <3>1. blk.pc = "run" /\ blk.plan = {} /\ blk' = [blk EXCEPT !.pc = "idle"]
          /\ lastValidated' = lastValidated
      BY <2>1 DEF AppendBlockReturns, chainVars
    <3>. QED
      BY <1>1, <1>3, <3>1 DEF PlanOK, BlockThread
  <2>2. CASE AppendBlockThrows
    <3>1. blk.pc = "idle" /\ blk' = [blk EXCEPT !.pc = "stopped"]
          /\ lastValidated' = Len(chain) + 1
      BY <2>2 DEF AppendBlockThrows
    <3>2. blk.plan = {} /\ lastValidated = Len(chain)
      BY <1>1, <3>1 DEF PlanOK, MonitorFree
    <3>. QED
      BY <1>3, <3>1, <3>2 DEF BlockThread
  <2>. QED
    BY <2>1, <2>2
<1>5. /\ \A l : Pending(l) = {} /\ Pending(l)' = {}
  BY <1>4 DEF Pending
<1>6. \A p : Stored(p)' = Stored(p)
  BY <1>2, <1>5 DEF Stored
<1>7. MonitorFree' /\ \A n \in Nat : ClaimOK(n) => ClaimOK(n)'
  BY <1>2, <1>3, <1>4 DEF ClaimOK, MonitorFree
<1>8. TypeOK'
  BY <1>1, <1>2, <1>3, <1>4 DEF TypeOK, BlockThread
<1>9. PlanOK'
  BY <1>2, <1>4 DEF PlanOK
<1>10. StoreOK'
  <2>1. \A p \in evMgrAddr : PastListener(p) \in listeners
    BY <1>1, <1>4 DEF StoreOK
  <2>. QED
    BY <1>1, <1>2, <1>5, <2>1 DEF StoreOK
<1>11. FollowOK'
  BY <1>1, <1>2, <1>4, FollowSteady
<1>12. LaterEventsStored'
  BY <1>1, <1>2, <1>6 DEF LaterEventsStored
<1>13. ServiceInv'
  BY <1>9, <1>10, <1>11, <1>12 DEF ServiceInv
<1>. QED
  BY <1>2, <1>5, <1>6, <1>7, <1>8, <1>13, BlockDone

\* The deployment is seen: registrations are listened to.
LEMMA DeployStep ==
    ASSUME IndInv, NEW pl \in blk.plan, DeployEventHandler(pl)
    PROVE  IndInv' /\ (CoverInv => CoverInv')
<1>1. TypeOK /\ PlanOK /\ StoreOK /\ FollowOK
  BY InvParts DEF ServiceInv
<1>2. /\ blk.pc = "run" /\ pl.lst = DeployListener
      /\ listeners' = (listeners \ {DeployListener}) \cup {RegListener} /\ blk' = Called(pl)
      /\ UNCHANGED <<chainVars, svcVars, queue, req, emitters, hb, got>>
      /\ chain' = chain /\ lastValidated' = lastValidated /\ evMgrAddr' = evMgrAddr /\ past' = past
      /\ queue' = queue
  BY DEF DeployEventHandler, chainVars, svcVars
<1>3. /\ \A l : l # DeployListener => Pending(l)' = Pending(l)
      /\ blk' \in BlockThread
  BY <1>1, <1>2, CalledPlan
<1>4. /\ \A p : Pending(PastListener(p))' = Pending(PastListener(p))
      /\ \A c : Pending(ClientListener(c))' = Pending(ClientListener(c))
  BY <1>3, ListenerKinds
<1>5. \A p : Stored(p)' = Stored(p)
  BY <1>2, <1>4 DEF Stored
<1>6. /\ \A p : PastListener(p) \in listeners' <=> PastListener(p) \in listeners
      /\ \A c : ClientListener(c) \in listeners' <=> ClientListener(c) \in listeners
  BY <1>2, ListenerKinds
<1>7. ~MonitorFree
  BY <1>2 DEF MonitorFree
<1>8. PlanOK' /\ ~MonitorFree'
  BY <1>2, <1>6, <1>7, PlanCalled
<1>9. /\ \A n \in Nat : ClaimOK(n) => ClaimOK(n)'
      /\ LaterEventsStored'
  BY <1>2, <1>5, <1>7, <1>8, BlockSteady
<1>10. TypeOK'
  BY <1>1, <1>2, <1>3, ListenersAre DEF TypeOK, BlockThread
<1>11. StoreOK'
  <2>1. \A p \in evMgrAddr : PastListener(p) \in listeners
    BY <1>1, <1>2 DEF StoreOK
  <2>. QED
    BY <1>1, <1>2, <1>4, <1>6, <2>1 DEF StoreOK
<1>12. FollowOK'
  <2>1. RegListener \in listeners'
    BY <1>2
  <2>2. \A y \in blk.plan : y.lst = RegListener => y \in blk'.plan
    BY <1>1, <1>2, CalledPlan, ListenerKinds
  <2>3. \A n, p : (DeployedIn(n)' <=> DeployedIn(n)) /\ (RegisteredIn(p, n)' <=> RegisteredIn(p, n))
    BY <1>2 DEF DeployedIn, RegisteredIn
  <2>4. LastBlock' = LastBlock /\ \A p \in Publishers : Followed(p) => Followed(p)'
    BY <1>2, <1>6 DEF LastBlock, Followed
  <2>5. ASSUME NEW d \in 1..Len(chain), NEW r \in 1..Len(chain), NEW p \in Publishers,
               d < r, DeployedIn(d), RegisteredIn(p, r)
        PROVE  \/ Followed(p)'
               \/ r = Len(chain) /\ \E x \in blk'.plan :
                     x.lst = RegListener /\ \E i \in x.logs : LastBlock[i] = Reg(p)
    <3>1. \/ Followed(p)
          \/ r = Len(chain) /\ \E x \in blk.plan :
                x.lst = RegListener /\ \E i \in x.logs : LastBlock[i] = Reg(p)
      BY <1>1, <2>5 DEF FollowOK
    <3>. QED
      BY <2>2, <2>4, <3>1
  <2>. QED
    BY <1>2, <2>1, <2>3, <2>4, <2>5 DEF FollowOK
<1>13. ServiceInv'
  BY <1>8, <1>9, <1>11, <1>12 DEF ServiceInv
<1>. QED
  <2>1. /\ UNCHANGED <<chain, queue, req, emitters, hb, got>>
        /\ evMgrAddr \subseteq evMgrAddr'
        /\ \A p : Pending(PastListener(p))' \subseteq Pending(PastListener(p))
    BY <1>2, <1>4
  <2>. QED
    BY <1>4, <1>5, <1>6, <1>9, <1>10, <1>13, <2>1, ServiceDone

\* A registration that is planned is one.
LEMMA RegEntry ==
    ASSUME TypeOK, PlanOK, NEW pl \in blk.plan, pl.lst = RegListener
    PROVE  /\ LogOf(pl) = LastBlock[Min(pl.logs)]
           /\ LogOf(pl).pub \in Publishers /\ LogOf(pl) = Reg(LogOf(pl).pub)
<1>1. Min(pl.logs) \in pl.logs
  BY PlanEntry
<1>2. LogOf(pl) = LastBlock[Min(pl.logs)]
  BY DEF LogOf, LastBlock
<1>3. PICK p \in Publishers : LogOf(pl) = Reg(p)
  BY <1>1, <1>2 DEF PlanOK
<1>4. Reg(p).pub = p
  BY DEF Reg
<1>. QED
  BY <1>2, <1>3, <1>4

\* The publisher's address is saved.
LEMMA RegEventStep ==
    ASSUME IndInv, NEW pl \in blk.plan, RegEventHandler(pl)
    PROVE  IndInv' /\ (CoverInv => CoverInv')
<1>1. TypeOK /\ PlanOK /\ StoreOK /\ FollowOK
  BY InvParts DEF ServiceInv
<1>2. /\ blk.pc = "run" /\ pl.lst = RegListener
      /\ evMgrAddr' = evMgrAddr \cup {LogOf(pl).pub}
      /\ blk' = [blk EXCEPT !.pc = "store", !.cur = {pl.lst}]
      /\ UNCHANGED <<chainVars, listeners, past, queue, req, emitters, hb, got>>
      /\ chain' = chain /\ lastValidated' = lastValidated /\ past' = past
      /\ queue' = queue /\ listeners' = listeners
  BY DEF RegEventHandler, chainVars
<1>3. LogOf(pl).pub \in Publishers
  BY <1>1, <1>2, RegEntry
<1>4. /\ blk' \in BlockThread /\ blk'.pc = "store" /\ blk'.plan = blk.plan
      /\ blk'.cur = {RegListener}
  <2>1. blk \in BlockThread /\ {pl.lst} \in SUBSET Listeners
    BY <1>1, <1>2, ListenersAre DEF TypeOK, BlockThread
  <2>. QED
    BY <1>2, <2>1 DEF BlockThread
<1>5. /\ \A l : Pending(l)' = Pending(l)
  BY <1>2, <1>4 DEF Pending
<1>6. \A p : Stored(p)' = Stored(p)
  BY <1>2, <1>5 DEF Stored
<1>7. ~MonitorFree /\ ~MonitorFree'
  BY <1>2, <1>4 DEF MonitorFree
<1>8. /\ \A n \in Nat : ClaimOK(n) => ClaimOK(n)'
      /\ LaterEventsStored' /\ LastBlock' = LastBlock /\ lastValidated' = Len(chain')
  BY <1>2, <1>6, <1>7, BlockSteady
<1>9. TypeOK'
  BY <1>1, <1>2, <1>3, <1>4 DEF TypeOK, BlockThread
<1>10. PlanOK'
  BY <1>1, <1>2, <1>4, <1>7, <1>8 DEF PlanOK
<1>11. StoreOK'
  <2>1. \A p \in evMgrAddr : PastListener(p) \in listeners
    BY <1>1, <1>2 DEF StoreOK
  <2>2. \A x : LogOf(x)' = LogOf(x)
    BY <1>2 DEF LogOf
  <2>3. \A p \in evMgrAddr' :
          \/ PastListener(p) \in listeners'
          \/ blk'.pc = "store" /\ \E x \in blk'.plan : x.lst = RegListener /\ LogOf(x)'.pub = p
    BY <1>2, <1>4, <2>1, <2>2
  <2>. QED
    BY <1>1, <1>2, <1>5, <2>3 DEF StoreOK
<1>12. FollowOK'
  BY <1>1, <1>2, <1>4, FollowSteady
<1>13. ServiceInv'
  BY <1>8, <1>10, <1>11, <1>12 DEF ServiceInv
<1>14. /\ UNCHANGED <<chain, queue, req, emitters, hb, got>>
       /\ evMgrAddr \subseteq evMgrAddr'
       /\ \A c : ClientListener(c) \in listeners' <=> ClientListener(c) \in listeners
       /\ \A c : Pending(ClientListener(c))' = Pending(ClientListener(c))
       /\ \A p : Pending(PastListener(p))' \subseteq Pending(PastListener(p))
  BY <1>2, <1>5
<1>. QED
  BY <1>6, <1>8, <1>9, <1>13, <1>14, ServiceDone

\* Its store is created, and listened for.
LEMMA RegCreateStep ==
    ASSUME IndInv, NEW pl \in blk.plan, RegCreateStore(pl)
    PROVE  IndInv' /\ (CoverInv => CoverInv')
<1>1. TypeOK /\ PlanOK /\ StoreOK /\ FollowOK
  BY InvParts DEF ServiceInv
<1> DEFINE p == LogOf(pl).pub
<1>2. /\ blk.pc = "store" /\ Current(pl) /\ blk' = Called(pl)
      /\ past' = [q \in DOMAIN past \cup {p} |-> IF q \in DOMAIN past THEN past[q] ELSE <<>>]
      /\ listeners' = listeners \cup {PastListener(p)}
      /\ UNCHANGED <<chainVars, evMgrAddr, queue, req, emitters, hb, got>>
      /\ chain' = chain /\ lastValidated' = lastValidated /\ evMgrAddr' = evMgrAddr
      /\ queue' = queue
  BY DEF RegCreateStore, NewListeners, chainVars
<1>3. pl.lst = RegListener
  BY <1>1, <1>2 DEF PlanOK, Current
<1>4. p \in Publishers /\ LogOf(pl) = Reg(p) /\ LastBlock[Min(pl.logs)] = Reg(p)
  BY <1>1, <1>3, RegEntry
<1>5. PICK k \in Publishers : k = p
  BY <1>4
<1>6. /\ past' = [q \in DOMAIN past \cup {k} |-> IF q \in DOMAIN past THEN past[q] ELSE <<>>]
      /\ listeners' = listeners \cup {PastListener(k)}
      /\ LogOf(pl).pub = k /\ LastBlock[Min(pl.logs)] = Reg(k)
  BY <1>2, <1>4, <1>5
<1> HIDE DEF p
<1>7. /\ \A l : l # RegListener => Pending(l)' = Pending(l)
      /\ blk' \in BlockThread /\ blk'.pc = "run"
      /\ \A y \in blk.plan : y.lst # RegListener => y \in blk'.plan
      /\ \A i \in pl.logs \ {Min(pl.logs)} :
            \E x \in blk'.plan : x.lst = RegListener /\ i \in x.logs
  BY <1>1, <1>2, <1>3, CalledPlan
<1>8. /\ \A q : Pending(PastListener(q))' = Pending(PastListener(q))
      /\ \A c : Pending(ClientListener(c))' = Pending(ClientListener(c))
  BY <1>7, ListenerKinds
<1>9. /\ DOMAIN past' = DOMAIN past \cup {k}
      /\ \A q \in DOMAIN past : past'[q] = past[q]
      /\ k \notin DOMAIN past => past'[k] = <<>>
  BY <1>6
<1>10. \A q : Stored(q)' = Stored(q)
  <2> SUFFICES ASSUME NEW q PROVE Stored(q)' = Stored(q)
    OBVIOUS
  <2>1. Range(<<>>) = {}
    BY DEF Range
  <2>2. CASE q \in DOMAIN past
    BY <1>8, <1>9, <2>2 DEF Stored
  <2>3. CASE q \notin DOMAIN past /\ q = k
    BY <1>8, <1>9, <2>1, <2>3 DEF Stored
  <2>4. CASE q \notin DOMAIN past /\ q # k
    BY <1>8, <1>9, <2>4 DEF Stored
  <2>. QED
    BY <2>2, <2>3, <2>4
<1>11. /\ \A q : PastListener(q) \in listeners' <=> PastListener(q) \in listeners \/ q = k
       /\ \A c : ClientListener(c) \in listeners' <=> ClientListener(c) \in listeners
       /\ DeployListener \in listeners' <=> DeployListener \in listeners
       /\ RegListener \in listeners' <=> RegListener \in listeners
  BY <1>6, ListenerKinds
<1>12. ~MonitorFree
  BY <1>2 DEF MonitorFree
<1>13. PlanOK' /\ ~MonitorFree'
  BY <1>2, <1>11, <1>12, PlanCalled
<1>14. /\ \A n \in Nat : ClaimOK(n) => ClaimOK(n)'
       /\ LaterEventsStored' /\ LastBlock' = LastBlock
       /\ \A n, q : (DeployedIn(n)' <=> DeployedIn(n)) /\ (RegisteredIn(q, n)' <=> RegisteredIn(q, n))
  BY <1>2, <1>10, <1>12, <1>13, BlockSteady
<1>15. TypeOK'
  <2>1. listeners' \subseteq Listeners
    BY <1>1, <1>6, ListenersAre DEF TypeOK
  <2>2. <<>> \in Seq(Events) /\ DOMAIN past \subseteq Publishers /\ past \in [DOMAIN past -> Seq(Events)]
    BY <1>1 DEF TypeOK
  <2>3. DOMAIN past' \subseteq Publishers /\ past' \in [DOMAIN past' -> Seq(Events)]
    BY <1>6, <2>2
  <2>. QED
    BY <1>1, <1>2, <1>7, <2>1, <2>3 DEF TypeOK, BlockThread
<1>16. StoreOK'
  <2>1. ASSUME NEW q \in evMgrAddr PROVE PastListener(q) \in listeners'
    <3>1. \/ PastListener(q) \in listeners
          \/ \E x \in blk.plan : x.lst = RegListener /\ LogOf(x).pub = q
      BY <1>1 DEF StoreOK
    <3>2. CASE \E x \in blk.plan : x.lst = RegListener /\ LogOf(x).pub = q
      <4>1. PICK x \in blk.plan : x.lst = RegListener /\ LogOf(x).pub = q
        BY <3>2
      <4>2. x = pl
        BY <1>1, <1>3, <4>1 DEF PlanOK
      <4>. QED
        BY <1>6, <1>11, <4>1, <4>2
    <3>. QED
      BY <1>11, <3>1, <3>2
  <2>2. \A q \in Publishers : PastListener(q) \in listeners' => q \in DOMAIN past'
    BY <1>1, <1>9, <1>11 DEF StoreOK
  <2>3. ASSUME NEW q \in DOMAIN past'
        PROVE  /\ InOrder(past'[q])
               /\ \A e \in Range(past'[q]) :
                     e[1] <= Len(chain) /\ \A f \in Pending(PastListener(q))' : Before(e, f)
    <3>1. CASE q \in DOMAIN past
      BY <1>1, <1>8, <1>9, <3>1 DEF StoreOK
    <3>2. CASE q \notin DOMAIN past
      <4>1. past'[q] = <<>>
        BY <1>9, <3>2
      <4>. QED
        BY <4>1 DEF InOrder, Range
    <3>. QED
      BY <3>1, <3>2
  <2>4. \A q \in DOMAIN past' : InOrder(past[q])'
    BY <2>3 DEF InOrder
  <2>. QED
    BY <1>2, <2>1, <2>2, <2>3, <2>4 DEF StoreOK
<1>17. FollowOK'
  <2>1. \A q \in Publishers : Followed(q)' <=> Followed(q) \/ q = k
    BY <1>11 DEF Followed
  <2>2. ASSUME NEW d \in 1..Len(chain), DeployedIn(d)
        PROVE  \/ RegListener \in listeners'
               \/ d = Len(chain) /\ \E x \in blk'.plan : x.lst = DeployListener
    <3>1. \/ RegListener \in listeners
          \/ d = Len(chain) /\ \E x \in blk.plan : x.lst = DeployListener
      BY <1>1, <2>2 DEF FollowOK
    <3>. QED
      BY <1>7, <1>11, <3>1, ListenerKinds
  <2>3. ASSUME NEW d \in 1..Len(chain), NEW r \in 1..Len(chain), NEW q \in Publishers,
               d < r, DeployedIn(d), RegisteredIn(q, r)
        PROVE  \/ Followed(q)'
               \/ r = Len(chain) /\ \E x \in blk'.plan :
                     x.lst = RegListener /\ \E i \in x.logs : LastBlock[i] = Reg(q)
    <3>1. \/ Followed(q)
          \/ r = Len(chain) /\ \E x \in blk.plan :
                x.lst = RegListener /\ \E i \in x.logs : LastBlock[i] = Reg(q)
      BY <1>1, <2>3 DEF FollowOK
    <3>2. CASE ~Followed(q)
      <4>1. PICK x \in blk.plan : x.lst = RegListener /\ \E i \in x.logs : LastBlock[i] = Reg(q)
        BY <3>1, <3>2
      <4>2. x = pl /\ r = Len(chain)
        BY <1>1, <1>3, <3>1, <3>2, <4>1 DEF PlanOK
      <4>3. PICK i \in pl.logs : LastBlock[i] = Reg(q)
        BY <4>1, <4>2
      <4>4. CASE i = Min(pl.logs)
        <5>1. Reg(q).pub = q /\ Reg(k).pub = k
          BY DEF Reg
        <5>. QED
          BY <1>6, <2>1, <4>3, <4>4, <5>1
      <4>5. CASE i # Min(pl.logs)
        BY <1>7, <4>2, <4>3, <4>5
      <4>. QED
        BY <4>4, <4>5
    <3>. QED
      BY <2>1, <3>2
  <2>4. DeployListener \in listeners' \/ RegListener \in listeners'
    BY <1>1, <1>11 DEF FollowOK
  <2>5. \A d \in 1..Len(chain') : DeployedIn(d)' =>
           \/ RegListener \in listeners'
           \/ d = Len(chain') /\ \E x \in blk'.plan : x.lst = DeployListener
    BY <1>2, <1>14, <2>2
  <2>6. \A d, r \in 1..Len(chain'), q \in Publishers :
           d < r /\ DeployedIn(d)' /\ RegisteredIn(q, r)' =>
              \/ Followed(q)'
              \/ r = Len(chain') /\ \E x \in blk'.plan :
                    x.lst = RegListener /\ \E i \in x.logs : LastBlock'[i] = Reg(q)
    BY <1>2, <1>14, <2>3
  <2>. QED
    BY <2>4, <2>5, <2>6 DEF FollowOK
<1>18. ServiceInv'
  BY <1>13, <1>14, <1>16, <1>17 DEF ServiceInv
<1>19. /\ UNCHANGED <<chain, queue, req, emitters, hb, got>>
       /\ evMgrAddr \subseteq evMgrAddr'
       /\ \A q : Pending(PastListener(q))' \subseteq Pending(PastListener(q))
  BY <1>2, <1>8
<1>. QED
  BY <1>8, <1>10, <1>11, <1>14, <1>15, <1>18, <1>19, ServiceDone

\* The store of a publisher that is listened to is there.
LEMMA NotifyPastStep ==
    ASSUME IndInv, NEW pl \in blk.plan, NotifyPastEventHandler(pl)
    PROVE  IndInv' /\ (CoverInv => CoverInv')
<1>1. TypeOK /\ PlanOK /\ StoreOK /\ FollowOK
  BY InvParts DEF ServiceInv
<1>2. /\ blk.pc = "run" /\ pl.lst[1] = "past"
      /\ blk' = IF pl.lst[2] \in DOMAIN past
                  THEN [blk EXCEPT !.pc = "push", !.cur = {pl.lst}] ELSE Called(pl)
      /\ UNCHANGED <<chainVars, listeners, svcVars, queue, req, emitters, hb, got>>
      /\ chain' = chain /\ lastValidated' = lastValidated /\ past' = past
      /\ queue' = queue /\ listeners' = listeners /\ evMgrAddr' = evMgrAddr
  BY DEF NotifyPastEventHandler, chainVars, svcVars
<1>3. PICK p \in Publishers : pl.lst = PastListener(p)
  <2>1. pl.lst \in Listeners
    BY <1>1, PlanEntry
  <2>. QED
    BY <1>2, <2>1, ListenersAre, ListenerKinds
<1>4. p \in DOMAIN past /\ pl.lst[2] = p
  BY <1>1, <1>2, <1>3, ListenerKinds DEF PlanOK, StoreOK
<1>5. /\ blk' \in BlockThread /\ blk'.pc = "push" /\ blk'.plan = blk.plan
      /\ blk'.cur = {PastListener(p)}
  <2>1. blk \in BlockThread /\ {pl.lst} \in SUBSET Listeners
    BY <1>1, <1>3, ListenersAre DEF TypeOK, BlockThread
  <2>2. blk' = [blk EXCEPT !.pc = "push", !.cur = {pl.lst}]
    BY <1>2, <1>4
  <2>. QED
    BY <1>3, <2>1, <2>2 DEF BlockThread
<1>6. /\ \A l : Pending(l)' = Pending(l)
  BY <1>2, <1>5 DEF Pending
<1>7. \A q : Stored(q)' = Stored(q)
  BY <1>2, <1>6 DEF Stored
<1>8. ~MonitorFree /\ ~MonitorFree'
  BY <1>2, <1>5 DEF MonitorFree
<1>9. /\ \A n \in Nat : ClaimOK(n) => ClaimOK(n)'
      /\ LaterEventsStored' /\ LastBlock' = LastBlock /\ lastValidated' = Len(chain')
  BY <1>2, <1>7, <1>8, BlockSteady
<1>10. TypeOK'
  BY <1>1, <1>2, <1>5 DEF TypeOK, BlockThread
<1>11. PlanOK'
  <2>1. \E q \in DOMAIN past' : blk'.cur = {PastListener(q)}
    BY <1>2, <1>4, <1>5
  <2>. QED
    BY <1>1, <1>2, <1>5, <1>8, <1>9, <2>1 DEF PlanOK
<1>12. StoreOK'
  <2>1. \A q \in evMgrAddr : PastListener(q) \in listeners
    BY <1>1, <1>2 DEF StoreOK
  <2>. QED
    BY <1>1, <1>2, <1>6, <2>1 DEF StoreOK
<1>13. FollowOK'
  BY <1>1, <1>2, <1>5, FollowSteady
<1>14. ServiceInv'
  BY <1>9, <1>11, <1>12, <1>13 DEF ServiceInv
<1>15. /\ UNCHANGED <<chain, queue, req, emitters, hb, got>>
       /\ evMgrAddr \subseteq evMgrAddr'
       /\ \A c : ClientListener(c) \in listeners' <=> ClientListener(c) \in listeners
       /\ \A c : Pending(ClientListener(c))' = Pending(ClientListener(c))
       /\ \A q : Pending(PastListener(q))' \subseteq Pending(PastListener(q))
  BY <1>2, <1>6
<1>. QED
  BY <1>7, <1>9, <1>10, <1>14, <1>15, ServiceDone

\* The event is stored: it was pending, now it is last of the past events.
LEMMA PushStep ==
    ASSUME IndInv, NEW pl \in blk.plan, PushPastEvent(pl)
    PROVE  IndInv' /\ (CoverInv => CoverInv')
<1>1. TypeOK /\ PlanOK /\ StoreOK /\ FollowOK
  BY InvParts DEF ServiceInv
<1>2. /\ blk.pc = "push" /\ Current(pl) /\ blk' = Called(pl)
      /\ past' = [past EXCEPT ![pl.lst[2]] = Append(@, EventOf(pl))]
      /\ UNCHANGED <<chainVars, listeners, evMgrAddr, queue, req, emitters, hb, got>>
      /\ chain' = chain /\ lastValidated' = lastValidated /\ listeners' = listeners
      /\ queue' = queue /\ evMgrAddr' = evMgrAddr
  BY DEF PushPastEvent, chainVars
<1>3. PICK p \in DOMAIN past : blk.cur = {PastListener(p)}
  BY <1>1, <1>2 DEF PlanOK
<1>4. pl.lst = PastListener(p) /\ pl.lst[2] = p /\ p \in Publishers
  BY <1>1, <1>2, <1>3, ListenerKinds DEF Current, TypeOK
<1>5. PICK e \in Events : e = EventOf(pl)
  BY <1>1, PlanEntry
<1>6. /\ e \in Pending(PastListener(p))
      /\ \A f \in Pending(PastListener(p)) \ {e} : Before(e, f)
      /\ Pending(PastListener(p))' = Pending(PastListener(p)) \ {e}
      /\ \A l : l # PastListener(p) => Pending(l)' = Pending(l)
      /\ blk' \in BlockThread /\ blk'.pc = "run"
      /\ \A y \in blk.plan : y.lst # PastListener(p) => y \in blk'.plan
  <2>1. EventOf(pl) \in Pending(pl.lst)
    BY <1>1, PlanEntry
  <2>2. /\ \A f \in Pending(pl.lst) \ {EventOf(pl)} : Before(EventOf(pl), f)
        /\ Pending(pl.lst)' = Pending(pl.lst) \ {EventOf(pl)}
        /\ \A l : l # pl.lst => Pending(l)' = Pending(l)
        /\ blk' \in BlockThread /\ blk'.pc = "run"
        /\ \A y \in blk.plan : y.lst # pl.lst => y \in blk'.plan
    BY <1>1, <1>2, CalledPlan
  <2>. QED
    BY <1>4, <1>5, <2>1, <2>2
<1>7. past \in [DOMAIN past -> Seq(Events)] /\ DOMAIN past \subseteq Publishers
      /\ past[p] \in Seq(Events)
  BY <1>1, <1>3 DEF TypeOK
<1>8. /\ DOMAIN past' = DOMAIN past /\ past'[p] = Append(past[p], e)
      /\ past' \in [DOMAIN past -> Seq(Events)]
      /\ \A q \in DOMAIN past : q # p => past'[q] = past[q]
  BY <1>2, <1>3, <1>4, <1>5, <1>7
<1>9. Range(past'[p]) = Range(past[p]) \cup {e}
  BY <1>7, <1>8, RangeFacts
<1>10. /\ \A q : q # p => Pending(PastListener(q))' = Pending(PastListener(q))
       /\ \A c : Pending(ClientListener(c))' = Pending(ClientListener(c))
  BY <1>6, ListenerKinds
<1>11. \A q : Stored(q)' = Stored(q)
  <2> SUFFICES ASSUME NEW q PROVE Stored(q)' = Stored(q)
    OBVIOUS
  <2>1. CASE q = p
    <3>1. Stored(p)' = Range(past'[p]) \cup Pending(PastListener(p))'
      BY <1>3, <1>8 DEF Stored
    <3>2. Stored(p) = Range(past[p]) \cup Pending(PastListener(p))
      BY <1>3 DEF Stored
    <3>3. Stored(p)' = Stored(p)
      BY <1>6, <1>9, <3>1, <3>2
    <3>. QED
      BY <2>1, <3>3
  <2>2. CASE q # p
    BY <1>8, <1>10, <2>2 DEF Stored
  <2>. QED
    BY <2>1, <2>2
<1>12. ~MonitorFree
  BY <1>2 DEF MonitorFree
<1>13. PlanOK' /\ ~MonitorFree'
  BY <1>2, <1>12, PlanCalled
<1>14. /\ \A n \in Nat : ClaimOK(n) => ClaimOK(n)'
       /\ LaterEventsStored'
  BY <1>2, <1>11, <1>12, <1>13, BlockSteady
<1>15. TypeOK'
  BY <1>1, <1>2, <1>6, <1>7, <1>8 DEF TypeOK, BlockThread
<1>16. StoreOK'
  <2>1. \A q \in evMgrAddr : PastListener(q) \in listeners
    BY <1>1, <1>2 DEF StoreOK
  <2>2. /\ InOrder(past[p])
        /\ \A x \in Range(past[p]) :
              x[1] <= Len(chain) /\ \A f \in Pending(PastListener(p)) : Before(x, f)
    BY <1>1, <1>3 DEF StoreOK
  <2>3. InOrder(Append(past[p], e))
    <3> DEFINE s == past[p]
               t == Append(s, e)
    <3>1. /\ s \in Seq(Events) /\ Len(t) = Len(s) + 1 /\ t[Len(s) + 1] = e /\ Len(s) \in Nat
          /\ \A i \in 1..Len(s) : t[i] = s[i] /\ s[i] \in Range(s)
      BY <1>7 DEF Range
    <3>2. InOrder(s) /\ \A x \in Range(s) : Before(x, e)
      BY <1>6, <2>2
    <3> HIDE DEF s, t
    <3>3. ASSUME NEW i \in 1..Len(t), NEW j \in 1..Len(t), i < j PROVE Before(t[i], t[j])
      <4>1. i \in 1..Len(s) /\ t[i] = s[i]
        BY <3>1, <3>3
      <4>2. CASE j = Len(s) + 1
        BY <3>1, <3>2, <4>1, <4>2
      <4>3. CASE j # Len(s) + 1
        BY <3>1, <3>2, <3>3, <4>1, <4>3 DEF InOrder
      <4>. QED
        BY <4>2, <4>3
    <3>4. InOrder(t)
      BY <3>3 DEF InOrder
    <3>. QED
      BY <3>4 DEF s, t
  <2>4. e[1] = Len(chain) /\ Len(chain) \in Nat
    BY <1>1, <1>6, PendingPlanned DEF TypeOK
  <2>5. ASSUME NEW q \in DOMAIN past'
        PROVE  /\ InOrder(past'[q])
               /\ \A x \in Range(past'[q]) :
                     x[1] <= Len(chain) /\ \A f \in Pending(PastListener(q))' : Before(x, f)
    <3>1. CASE q = p
      <4>1. InOrder(past'[p])
        BY <1>8, <2>3
      <4>2. \A x \in Range(past'[p]) :
               x[1] <= Len(chain) /\ \A f \in Pending(PastListener(p))' : Before(x, f)
        BY <1>6, <1>9, <2>2, <2>4
      <4>. QED
        BY <3>1, <4>1, <4>2
    <3>2. CASE q # p
      BY <1>1, <1>8, <1>10, <3>2 DEF StoreOK
    <3>. QED
      BY <3>1, <3>2
  <2>6. \A q \in DOMAIN past' : InOrder(past[q])'
    BY <2>5 DEF InOrder
  <2>7. \A q \in Publishers : PastListener(q) \in listeners' => q \in DOMAIN past'
    BY <1>1, <1>2, <1>8 DEF StoreOK
  <2>. QED
    BY <1>2, <2>1, <2>5, <2>6, <2>7 DEF StoreOK
<1>17. FollowOK'
  <2>1. \A y \in blk.plan : y.lst \in {DeployListener, RegListener} => y \in blk'.plan
    BY <1>6, ListenerKinds
  <2>. QED
    BY <1>1, <1>2, <2>1, FollowSteady
<1>18. ServiceInv'
  BY <1>13, <1>14, <1>16, <1>17 DEF ServiceInv
<1>19. /\ UNCHANGED <<chain, queue, req, emitters, hb, got>>
       /\ evMgrAddr \subseteq evMgrAddr'
       /\ \A c : ClientListener(c) \in listeners' <=> ClientListener(c) \in listeners
       /\ \A q : Pending(PastListener(q))' \subseteq Pending(PastListener(q))
  <2>1. \A q : Pending(PastListener(q))' \subseteq Pending(PastListener(q))
    <3> TAKE q
    <3>1. CASE q = p
      BY <1>6, <3>1
    <3>2. CASE q # p
      BY <1>10, <3>2
    <3>. QED
      BY <3>1, <3>2
  <2>. QED
    BY <1>2, <2>1
<1>. QED
  BY <1>10, <1>11, <1>14, <1>15, <1>18, <1>19, ServiceDone

\* A queued event comes last of what is promised.
LEMMA PromisedGrows ==
    ASSUME NEW s \in Seq(Events), NEW q \in Seq(Events), NEW e \in Events
    PROVE  s \o Append(q, e) = Append(s \o q, e)
  OBVIOUS

\* The event is queued for a client: it was pending, now it is last of what is promised.
LEMMA NotifyStep ==
    ASSUME IndInv, NEW pl \in blk.plan, NotifyEventHandler(pl)
    PROVE  IndInv' /\ (CoverInv => CoverInv')
<1>1. TypeOK /\ PlanOK /\ StoreOK /\ FollowOK
  BY InvParts DEF ServiceInv
<1>2. /\ blk.pc = "run" /\ pl.lst[1] = "client" /\ blk' = Called(pl)
      /\ queue' = [queue EXCEPT ![pl.lst[2]] = Append(@, EventOf(pl))]
      /\ UNCHANGED <<chainVars, listeners, svcVars, req, emitters, hb, got>>
      /\ chain' = chain /\ lastValidated' = lastValidated /\ listeners' = listeners
      /\ past' = past /\ evMgrAddr' = evMgrAddr /\ req' = req /\ got' = got /\ hb' = hb
  BY DEF NotifyEventHandler, Enqueued, chainVars, svcVars
<1>3. PICK c \in Clients : pl.lst = ClientListener(c)
  <2>1. pl.lst \in Listeners
    BY <1>1, PlanEntry
  <2>. QED
    BY <1>2, <2>1, ListenersAre, ListenerKinds
<1>4. pl.lst[2] = c /\ ClientInv(c)
  BY <1>3, ListenerKinds, InvParts
<1>5. PICK e \in Events : e = EventOf(pl)
  BY <1>1, PlanEntry
<1>6. /\ e \in Pending(ClientListener(c))
      /\ \A f \in Pending(ClientListener(c)) \ {e} : Before(e, f)
      /\ Pending(ClientListener(c))' = Pending(ClientListener(c)) \ {e}
      /\ \A l : l # ClientListener(c) => Pending(l)' = Pending(l)
      /\ blk' \in BlockThread /\ blk'.pc = "run"
      /\ \A y \in blk.plan : y.lst # ClientListener(c) => y \in blk'.plan
  <2>1. EventOf(pl) \in Pending(pl.lst)
    BY <1>1, PlanEntry
  <2>2. /\ \A f \in Pending(pl.lst) \ {EventOf(pl)} : Before(EventOf(pl), f)
        /\ Pending(pl.lst)' = Pending(pl.lst) \ {EventOf(pl)}
        /\ \A l : l # pl.lst => Pending(l)' = Pending(l)
        /\ blk' \in BlockThread /\ blk'.pc = "run"
        /\ \A y \in blk.plan : y.lst # pl.lst => y \in blk'.plan
    BY <1>1, <1>2, CalledPlan
  <2>. QED
    BY <1>3, <1>5, <2>1, <2>2
<1>7. queue \in [Clients -> Seq(Events)] /\ queue[c] \in Seq(Events)
  BY <1>1 DEF TypeOK
<1>8. /\ queue' \in [Clients -> Seq(Events)] /\ queue'[c] = Append(queue[c], e)
      /\ \A d \in Clients \ {c} : queue'[d] = queue[d]
  BY <1>2, <1>4, <1>5, <1>7
<1>9. Range(queue'[c]) = Range(queue[c]) \cup {e}
  BY <1>7, <1>8, RangeFacts
<1>10. /\ \A p : Pending(PastListener(p))' = Pending(PastListener(p))
       /\ \A d \in Clients \ {c} : Pending(ClientListener(d))' = Pending(ClientListener(d))
  BY <1>6, ListenerKinds
<1>11. \A p : Stored(p)' = Stored(p)
  BY <1>2, <1>10 DEF Stored
<1>12. ~MonitorFree
  BY <1>2 DEF MonitorFree
<1>13. PlanOK' /\ ~MonitorFree'
  BY <1>2, <1>12, PlanCalled
<1>14. /\ \A n \in Nat : ClaimOK(n) => ClaimOK(n)'
       /\ LaterEventsStored'
  BY <1>2, <1>11, <1>12, <1>13, BlockSteady
<1>15. TypeOK'
  BY <1>1, <1>2, <1>6, <1>8 DEF TypeOK, BlockThread
<1>16. StoreOK'
  <2>1. \A q \in evMgrAddr : PastListener(q) \in listeners
    BY <1>1, <1>2 DEF StoreOK
  <2>. QED
    BY <1>1, <1>2, <1>10, <2>1 DEF StoreOK
<1>17. FollowOK'
  <2>1. \A y \in blk.plan : y.lst \in {DeployListener, RegListener} => y \in blk'.plan
    BY <1>6, ListenerKinds
  <2>. QED
    BY <1>1, <1>2, <2>1, FollowSteady
<1>18. ServiceInv'
  BY <1>13, <1>14, <1>16, <1>17 DEF ServiceInv
<1>19. InFlight(c)' = InFlight(c) /\ (Sending(c)' <=> Sending(c))
  BY <1>2 DEF InFlight, Sending
<1>20. Promised(c) \in Seq(Events) /\ Promised(c)' = Append(Promised(c), e)
  <2> DEFINE s == (got[c].events \o req[c].past) \o InFlight(c)
             q == queue[c]
  <2>1. s \in Seq(Events) /\ q \in Seq(Events) /\ Promised(c) \in Seq(Events)
    <3>1. /\ InFlight(c) \in Seq(Events) /\ queue[c] \in Seq(Events) /\ Promised(c) \in Seq(Events)
          /\ got[c].events \in Seq(Events) /\ req[c].past \in Seq(Events)
      BY <1>1, StoredEvents
    <3>. QED
      BY <3>1
  <2>2. Promised(c) = s \o q
    BY Zenon DEF Promised
  <2>3. Promised(c)' = s \o Append(q, e)
    BY <1>2, <1>8, <1>19, Zenon DEF Promised
  <2> HIDE DEF s, q
  <2>4. s \o Append(q, e) = Append(s \o q, e)
    BY <2>1, PromisedGrows
  <2>. QED
    BY <2>1, <2>2, <2>3, <2>4
<1>21. Range(Promised(c)') = Range(Promised(c)) \cup {e}
  <2>1. PICK s \in Seq(Events) : s = Promised(c)
    BY <1>20
  <2>2. Range(Append(s, e)) = Range(s) \cup {e}
    BY RangeFacts
  <2>. QED
    BY <1>20, <2>1, <2>2
<1>22. req[c].pc \notin {"none", "refused"}
  BY <1>4, <1>6 DEF ClientInv, RequestOK
<1>23. (Live(c)' <=> Live(c)) /\ (Unread(c)' <=> Unread(c)) /\ ((c \in Subscribed)' <=> c \in Subscribed)
  BY <1>2 DEF Live, Unread, Subscribed
<1>24. RequestOK(c)'
  BY <1>2, <1>4, <1>22, <1>23 DEF RequestOK, ClientInv
<1>25. Stored(req[c].pub)' = Stored(req[c].pub)
       /\ Pending(PastListener(req[c].pub))' = Pending(PastListener(req[c].pub))
  <2>1. PICK p : p = req[c].pub /\ p = req'[c].pub
    BY <1>2
  <2>2. Stored(req[c].pub)' = Stored(p)' /\ Pending(PastListener(req[c].pub))' = Pending(PastListener(p))'
    BY <2>1, StoredNext
  <2>. QED
    BY <1>10, <1>11, <2>1, <2>2
<1>26. FlowOK(c)'
  <2> SUFFICES ASSUME Live(c) PROVE FlowOK(c)'
    BY <1>23 DEF FlowOK
  <2>1. PICK m \in 0..Len(Promised(c)) :
           /\ TwoRuns(Promised(c), m, Pending(ClientListener(c)))
           /\ Unread(c) => m = 0
    BY <1>4 DEF ClientInv, FlowOK
  <2>2. TwoRuns(Promised(c)', m, Pending(ClientListener(c))')
    <3>1. PICK s \in Seq(Events) : s = Promised(c)
      BY <1>20
    <3>2. PICK later \in SUBSET Events : later = Pending(ClientListener(c))
      BY <1>1, StoredEvents
    <3>3. TwoRuns(Append(s, e), m, later \ {e})
      BY <1>6, <2>1, <3>1, <3>2, RunsGrow
    <3>. QED
      BY <1>6, <1>20, <3>1, <3>2, <3>3
  <2>3. m \in 0..Len(Promised(c)')
    BY <1>20
  <2>4. \A x \in Range(Promised(c)') : x[1] <= Len(chain)
    <3>1. e[1] = Len(chain) /\ Len(chain) \in Nat
      <4>1. e[1] = Len(chain)
        BY <1>1, <1>6, PendingPlanned
      <4>2. Len(chain) \in Nat
        BY <1>1 DEF TypeOK
      <4>. QED
        BY <4>1, <4>2
    <3>2. \A x \in Range(Promised(c)) : x[1] <= Len(chain)
      BY <1>4 DEF ClientInv, FlowOK
    <3>. QED
      BY <1>21, <3>1, <3>2
  <2>5. Unread(c) => Range(queue'[c]) \cup Pending(ClientListener(c))' \subseteq Stored(req[c].pub)
    <3>1. Unread(c) => Range(queue[c]) \cup Pending(ClientListener(c)) \subseteq Stored(req[c].pub)
      BY <1>4 DEF ClientInv, FlowOK
    <3>. QED
      BY <1>6, <1>9, <3>1
  <2>. QED
    BY <1>2, <1>23, <1>25, <2>1, <2>2, <2>3, <2>4, <2>5 DEF FlowOK
<1>27. OrderOK(c)' /\ ClaimOK(req[c].blk)' /\ ToldOK(c)'
  <2>1. OrderOK(c) /\ ClaimOK(req[c].blk) /\ ToldOK(c)
    BY <1>4 DEF ClientInv
  <2>2. OrderOK(c)'
    BY <1>2, <2>1 DEF OrderOK
  <2>3. ClaimOK(req[c].blk)' /\ ToldOK(c)'
    BY <1>2, <1>12, <1>13, <2>1 DEF ClaimOK, ToldOK
  <2>. QED
    BY <2>2, <2>3
<1>28. ClientInv(c)'
  BY <1>24, <1>26, <1>27 DEF ClientInv
<1>29. ASSUME CoverInv PROVE CoverOK(c)'
  <2>1. CoverOK(c)
    BY <1>29 DEF CoverInv, CoverOK
  <2>2. /\ Range(queue'[c]) \cup Pending(ClientListener(c))'
              = Range(queue[c]) \cup Pending(ClientListener(c))
        /\ Range(Promised(c)') \cup Pending(ClientListener(c))'
              = Range(Promised(c)) \cup Pending(ClientListener(c))
    BY <1>6, <1>9, <1>21
  <2>3. Covered(c)'
    BY <1>2, <1>23, <1>25, <2>1, <2>2 DEF CoverOK, Covered
  <2>4. Caught(c)'
    BY <1>2, <1>9, <1>19, <1>23, <1>25, <2>1 DEF CoverOK, Caught
  <2>. QED
    BY <1>2, <2>1, <2>3, <2>4 DEF CoverOK
<1>30. /\ UNCHANGED <<req, emitters, hb, got>> /\ {c} \in SUBSET Clients
       /\ evMgrAddr \subseteq evMgrAddr'
       /\ \A d \in Clients : ClientListener(d) \in listeners' <=> ClientListener(d) \in listeners
       /\ \A d \in Clients \ {c} : queue'[d] = queue[d]
                                   /\ Pending(ClientListener(d))' = Pending(ClientListener(d))
       /\ \A p : Pending(PastListener(p))' \subseteq Pending(PastListener(p))
       /\ \A d \in {c} : ClientInv(d)'
  BY <1>2, <1>8, <1>10, <1>28
<1>. QED
  BY <1>2, <1>11, <1>14, <1>15, <1>18, <1>29, <1>30, BlockDone

\* A callback keeps the invariant.
LEMMA CallbackKeeps ==
    ASSUME IndInv, Callback
    PROVE  IndInv' /\ (CoverInv => CoverInv')
  BY DeployStep, RegEventStep, RegCreateStep, NotifyPastStep, PushStep, NotifyStep, Zenon
     DEF Callback
-----------------------------------------------------------------------------
(***************************************************************************)
(* The start of a block.                                                   *)
(***************************************************************************)
\* What a new block plans: for each listener the logs that match it.
LEMMA NewPlan ==
    ASSUME IndInv, NEW b \in Blocks, AppendBlock(b)
    PROVE  /\ b \in Seq(Logs) /\ chain \in Seq(Seq(Logs)) /\ Len(chain) \in Nat
           /\ chain' = Append(chain, b) /\ Len(chain') = Len(chain) + 1
           /\ chain'[Len(chain) + 1] = b /\ \A n \in 1..Len(chain) : chain'[n] = chain[n]
           /\ LastBlock' = b /\ lastValidated' = Len(chain) + 1 /\ lastValidated = Len(chain)
           /\ blk.pc = "idle" /\ blk.plan = {} /\ blk'.pc = "run" /\ blk'.cur = {}
           /\ \A x : x \in blk'.plan <=>
                 \E l \in listeners : /\ x = [lst |-> l, logs |-> SearchEvents(l, b)]
                                      /\ SearchEvents(l, b) # {}
           /\ \A l : Pending(l) = {}
           /\ \A l \in listeners : Pending(l)' = {<<Len(chain) + 1, i>> : i \in SearchEvents(l, b)}
           /\ \A l : l \notin listeners => Pending(l)' = {}
           /\ UNCHANGED <<listeners, evMgrAddr, past, queue, req, emitters, hb, got>>
<1>1. TypeOK /\ PlanOK
  BY InvParts DEF ServiceInv
<1>2. /\ blk.pc = "idle" /\ lastValidated' = Len(chain) + 1 /\ chain' = Append(chain, b)
      /\ blk' = [pc |-> "run", plan |-> GenCallbackPlan(b), cur |-> {}]
      /\ UNCHANGED <<listeners, svcVars, queue, req, emitters, hb, got>>
  BY DEF AppendBlock
<1>3. b \in Seq(Logs) /\ chain \in Seq(Seq(Logs)) /\ Len(chain) \in Nat
  BY <1>1, BrokerAssumption DEF TypeOK
<1>4. /\ Len(chain') = Len(chain) + 1
      /\ chain'[Len(chain) + 1] = b /\ \A n \in 1..Len(chain) : chain'[n] = chain[n]
  BY <1>2, <1>3
<1>5. LastBlock' = b
  BY <1>4 DEF LastBlock
<1>6. blk.plan = {} /\ lastValidated = Len(chain)
  BY <1>1, <1>2 DEF PlanOK, MonitorFree
<1>7. blk'.pc = "run" /\ blk'.cur = {} /\ blk'.plan = GenCallbackPlan(b)
  BY <1>2
<1>8. \A x : x \in blk'.plan <=>
         \E l \in listeners : /\ x = [lst |-> l, logs |-> SearchEvents(l, b)]
                              /\ SearchEvents(l, b) # {}
  BY <1>7 DEF GenCallbackPlan
<1>9. \A l : Pending(l) = {}
  BY <1>6 DEF Pending
<1>10. \A l : Pending(l)' = UNION {{<<Len(chain) + 1, i>> : i \in x.logs} :
                                      x \in {y \in blk'.plan : y.lst = l}}
  BY <1>4 DEF Pending
<1>11. ASSUME NEW l \in listeners
       PROVE  Pending(l)' = {<<Len(chain) + 1, i>> : i \in SearchEvents(l, b)}
  <2>1. CASE SearchEvents(l, b) = {}
    <3>1. {y \in blk'.plan : y.lst = l} = {}
      BY <1>8, <2>1
    <3>. QED
      BY <1>10, <2>1, <3>1
  <2>2. CASE SearchEvents(l, b) # {}
    <3>1. {y \in blk'.plan : y.lst = l} = {[lst |-> l, logs |-> SearchEvents(l, b)]}
      BY <1>8, <2>2
    <3> DEFINE r == [lst |-> l, logs |-> SearchEvents(l, b)]
    <3>2. r.logs = SearchEvents(l, b)
      OBVIOUS
    <3> HIDE DEF r
    <3>3. {y \in blk'.plan : y.lst = l} = {r}
      BY <3>1 DEF r
    <3>. QED
      BY <1>10, <3>2, <3>3
  <2>. QED
    BY <2>1, <2>2
<1>12. ASSUME NEW l, l \notin listeners PROVE Pending(l)' = {}
  <2>1. {y \in blk'.plan : y.lst = l} = {}
    BY <1>8, <1>12
  <2>. QED
    BY <1>10, <2>1
<1>13. UNCHANGED <<listeners, evMgrAddr, past, queue, req, emitters, hb, got>>
  BY <1>2 DEF svcVars
<1>. QED
  BY <1>2, <1>3, <1>4, <1>5, <1>6, <1>7, <1>8, <1>9, <1>11, <1>12, <1>13

\* What the listeners match.
LEMMA SearchFacts ==
    ASSUME NEW b \in Seq(Logs)
    PROVE  /\ \A l : SearchEvents(l, b) \subseteq 1..Len(b)
           /\ \A i \in 1..Len(b) : i \in SearchEvents(DeployListener, b) <=> b[i] = Deploy
           /\ \A i \in 1..Len(b) :
                 i \in SearchEvents(RegListener, b) <=> \E p \in Publishers : b[i] = Reg(p)
           /\ \A p : \A i \in 1..Len(b) :
                 i \in SearchEvents(PastListener(p), b) <=> b[i] = Notify(p)
           /\ \A c : \A i \in 1..Len(b) :
                 i \in SearchEvents(ClientListener(c), b) <=> b[i] = Notify(req[c].pub)
<1>1. \A i \in 1..Len(b) : \/ b[i] = Deploy
                           \/ \E p \in Publishers : b[i] = Reg(p)
                           \/ \E p \in Publishers : b[i] = Notify(p)
  BY DEF Logs
<1>2. Deploy.type = "deploy" /\ \A p : Reg(p).type = "reg" /\ Notify(p).type = "notify"
  BY DEF Deploy, Reg, Notify
<1>3. \A i \in 1..Len(b) : b[i].type = "deploy" <=> b[i] = Deploy
  BY <1>1, <1>2
<1>4. \A i \in 1..Len(b) : b[i].type = "reg" <=> \E p \in Publishers : b[i] = Reg(p)
  BY <1>1, <1>2
<1>5. DeployListener # RegListener
  BY ListenerKinds
<1>6. \A log : /\ Matches(DeployListener, log) <=> log.type = "deploy"
               /\ Matches(RegListener, log) <=> log.type = "reg"
  <2> TAKE log
  <2>1. DeployListener[1] # "past" /\ RegListener[1] # "past"
    BY ListenerKinds
  <2>. QED
    BY <1>5, <2>1 DEF Matches
<1>7. \A p, log : Matches(PastListener(p), log) <=> log = Notify(p)
  <2> TAKE p, log
  <2>1. PastListener(p) # DeployListener /\ PastListener(p) # RegListener
        /\ PastListener(p)[1] = "past" /\ PastListener(p)[2] = p
    BY ListenerKinds
  <2>. QED
    BY <2>1 DEF Matches
<1>8. \A c, log : Matches(ClientListener(c), log) <=> log = Notify(req[c].pub)
  <2> TAKE c, log
  <2>1. ClientListener(c) # DeployListener /\ ClientListener(c) # RegListener
        /\ ClientListener(c)[1] = "client" /\ ClientListener(c)[2] = c
    BY ListenerKinds
  <2>. QED
    BY <2>1 DEF Matches
<1>. QED
  BY <1>3, <1>4, <1>6, <1>7, <1>8 DEF SearchEvents

\* The service after a new block was planned.
LEMMA AppendService ==
    ASSUME IndInv, NEW b \in Blocks, AppendBlock(b)
    PROVE  /\ TypeOK' /\ ServiceInv' /\ ~MonitorFree'
           /\ \A p : Stored(p) \subseteq Stored(p)'
           /\ \A p \in evMgrAddr : PastListener(p) \in listeners
           /\ \A p : PastListener(p) \in listeners =>
                 /\ Stored(p)' = Stored(p) \cup Pending(PastListener(p))'
                 /\ \A c \in Clients : ClientListener(c) \in listeners /\ req[c].pub = p =>
                       Pending(ClientListener(c))' = Pending(PastListener(p))'
           /\ \A l, e : e \in Pending(l)' => e \in Events /\ e[1] = Len(chain) + 1
<1>1. TypeOK /\ PlanOK /\ StoreOK /\ FollowOK /\ LaterEventsStored
  BY InvParts DEF ServiceInv
<1>2. /\ b \in Seq(Logs) /\ chain \in Seq(Seq(Logs)) /\ Len(chain) \in Nat
      /\ chain' = Append(chain, b) /\ Len(chain') = Len(chain) + 1
      /\ chain'[Len(chain) + 1] = b /\ \A n \in 1..Len(chain) : chain'[n] = chain[n]
      /\ LastBlock' = b /\ lastValidated' = Len(chain) + 1 /\ lastValidated = Len(chain)
      /\ blk.pc = "idle" /\ blk.plan = {} /\ blk'.pc = "run" /\ blk'.cur = {}
  BY NewPlan
<1>3. \A x : x \in blk'.plan <=>
         \E l \in listeners : /\ x = [lst |-> l, logs |-> SearchEvents(l, b)]
                              /\ SearchEvents(l, b) # {}
  BY NewPlan
<1>4. /\ \A l : Pending(l) = {}
      /\ \A l \in listeners : Pending(l)' = {<<Len(chain) + 1, i>> : i \in SearchEvents(l, b)}
      /\ \A l : l \notin listeners => Pending(l)' = {}
  BY NewPlan
<1>5. /\ listeners' = listeners /\ evMgrAddr' = evMgrAddr /\ past' = past /\ queue' = queue
      /\ req' = req /\ emitters' = emitters /\ hb' = hb /\ got' = got
  BY NewPlan
<1>6. /\ \A l : SearchEvents(l, b) \subseteq 1..Len(b)
      /\ \A i \in 1..Len(b) : i \in SearchEvents(DeployListener, b) <=> b[i] = Deploy
      /\ \A i \in 1..Len(b) :
            i \in SearchEvents(RegListener, b) <=> \E p \in Publishers : b[i] = Reg(p)
      /\ \A p : \A i \in 1..Len(b) :
            i \in SearchEvents(PastListener(p), b) <=> b[i] = Notify(p)
      /\ \A c : \A i \in 1..Len(b) :
            i \in SearchEvents(ClientListener(c), b) <=> b[i] = Notify(req[c].pub)
  BY <1>2, SearchFacts
<1>7. Len(b) \in Nat
  BY <1>2
<1>8. ~MonitorFree'
  BY <1>2 DEF MonitorFree
<1>9. TypeOK'
  <2>1. blk' \in BlockThread
    <3>1. \A x \in blk'.plan : x \in [lst : Listeners, logs : SUBSET (Nat \ {0})]
      <4> TAKE x \in blk'.plan
      <4>1. PICK l \in listeners : x = [lst |-> l, logs |-> SearchEvents(l, b)]
        BY <1>3
      <4>2. l \in Listeners /\ SearchEvents(l, b) \in SUBSET (Nat \ {0})
        BY <1>1, <1>6, <1>7 DEF TypeOK
      <4>. QED
        BY <4>1, <4>2
    <3>2. blk' = [pc |-> "run", plan |-> GenCallbackPlan(b), cur |-> {}]
      BY DEF AppendBlock
    <3>3. blk' = [pc |-> "run", plan |-> blk'.plan, cur |-> {}]
      BY <3>2
    <3>. QED
      BY <3>1, <3>3 DEF BlockThread
  <2>2. chain' \in Seq(Seq(Logs)) /\ lastValidated' \in Nat
    BY <1>2
  <2>. QED
    BY <1>1, <1>5, <2>1, <2>2 DEF TypeOK, BlockThread
<1>10. PlanOK'
  <2>1. \A x, y \in blk'.plan : x.lst = y.lst => x = y
    BY <1>3
  <2>2. ASSUME NEW x \in blk'.plan
        PROVE  /\ Len(chain') > 0 /\ x.logs # {} /\ x.logs \subseteq 1..Len(b)
               /\ x.lst = RegListener => \A i \in x.logs : \E p \in Publishers : b[i] = Reg(p)
               /\ x.lst[1] = "past" => x.lst \in listeners
    <3>1. PICK l \in listeners : x = [lst |-> l, logs |-> SearchEvents(l, b)]
                                 /\ SearchEvents(l, b) # {}
      BY <1>3
    <3>2. x.lst = l /\ x.logs = SearchEvents(l, b)
      BY <3>1
    <3>3. x.logs \subseteq 1..Len(b) /\ Len(chain') > 0
      BY <1>2, <1>6, <3>2
    <3>4. x.lst = RegListener => \A i \in x.logs : \E p \in Publishers : b[i] = Reg(p)
      BY <1>6, <3>2, <3>3
    <3>. QED
      BY <3>1, <3>2, <3>3, <3>4
  <2>3. blk'.pc # "store" /\ blk'.pc # "push" /\ blk'.pc # "stopped"
    BY <1>2
  <2>4. lastValidated' = Len(chain')
    BY <1>2
  <2>. QED
    BY <1>2, <1>5, <1>8, <2>1, <2>2, <2>3, <2>4 DEF PlanOK
<1>11. \A p \in evMgrAddr : PastListener(p) \in listeners
  BY <1>1, <1>2 DEF StoreOK
<1>12. \A l, e : e \in Pending(l)' => e \in Events /\ e[1] = Len(chain) + 1
  <2> SUFFICES ASSUME NEW l, NEW e \in Pending(l)' PROVE e \in Events /\ e[1] = Len(chain) + 1
    OBVIOUS
  <2>1. l \in listeners
    BY <1>4
  <2>2. PICK i \in SearchEvents(l, b) : e = <<Len(chain) + 1, i>>
    BY <1>4, <2>1
  <2>3. i \in Nat \ {0} /\ Len(chain) + 1 \in Nat \ {0}
    BY <1>2, <1>6, <1>7
  <2>. QED
    BY <2>2, <2>3 DEF Events
<1>13. StoreOK'
  <2>1. ASSUME NEW p \in DOMAIN past
        PROVE  /\ InOrder(past[p])
               /\ \A e \in Range(past[p]) :
                     e[1] <= Len(chain) + 1 /\ \A f \in Pending(PastListener(p))' : Before(e, f)
    <3>1. InOrder(past[p]) /\ \A e \in Range(past[p]) : e[1] <= Len(chain)
      BY <1>1 DEF StoreOK
    <3>2. \A e \in Range(past[p]) : e \in Events
      BY <1>1 DEF TypeOK, Range
    <3>3. \A e \in Range(past[p]) : e[1] \in Nat
      BY <3>2 DEF Events
    <3>4. ASSUME NEW e \in Range(past[p]), NEW f \in Pending(PastListener(p))' PROVE Before(e, f)
      <4>1. f[1] = Len(chain) + 1 /\ e[1] <= Len(chain) /\ e[1] \in Nat
        BY <1>12, <3>1, <3>3
      <4>. QED
        BY <1>2, <4>1 DEF Before
    <3>. QED
      BY <1>2, <3>1, <3>3, <3>4
  <2>2. \A p \in DOMAIN past' : InOrder(past[p])'
    BY <1>5, <2>1 DEF InOrder
  <2>3. \A p \in Publishers : PastListener(p) \in listeners => p \in DOMAIN past
    BY <1>1 DEF StoreOK
  <2>. QED
    BY <1>2, <1>5, <1>11, <2>1, <2>2, <2>3 DEF StoreOK
<1>14. \A p : Stored(p) = (IF p \in DOMAIN past THEN Range(past[p]) ELSE {})
  BY <1>4 DEF Stored
<1>15. \A p : Stored(p)' = Stored(p) \cup Pending(PastListener(p))'
  BY <1>5, <1>14 DEF Stored
<1>16. ASSUME NEW p, PastListener(p) \in listeners, NEW c \in Clients,
              ClientListener(c) \in listeners, req[c].pub = p
       PROVE  Pending(ClientListener(c))' = Pending(PastListener(p))'
  <2>1. \A i : i \in SearchEvents(ClientListener(c), b) <=> i \in SearchEvents(PastListener(p), b)
    BY <1>6, <1>16
  <2>2. SearchEvents(ClientListener(c), b) = SearchEvents(PastListener(p), b)
    BY <2>1, Zenon
  <2>. QED
    BY <1>4, <1>16, <2>2
<1>17. \A n : n \in 1..Len(chain) =>
          /\ DeployedIn(n)' <=> DeployedIn(n)
          /\ \A p : RegisteredIn(p, n)' <=> RegisteredIn(p, n)
  BY <1>2 DEF DeployedIn, RegisteredIn
<1>18. Range(b) = {b[i] : i \in 1..Len(b)}
  BY <1>2 DEF Range
<1>19. ASSUME NEW d \in 1..Len(chain), DeployedIn(d) PROVE RegListener \in listeners
  BY <1>1, <1>2, <1>19 DEF FollowOK
<1>20. ASSUME NEW d \in 1..Len(chain), NEW r \in 1..Len(chain), NEW p \in Publishers,
              d < r, DeployedIn(d), RegisteredIn(p, r)
       PROVE  PastListener(p) \in listeners
  BY <1>1, <1>2, <1>20 DEF FollowOK, Followed
<1>21. FollowOK'
  <2>1. ASSUME NEW d \in 1..Len(chain'), DeployedIn(d)'
        PROVE  \/ RegListener \in listeners
               \/ d = Len(chain') /\ \E x \in blk'.plan : x.lst = DeployListener
    <3>1. CASE d \in 1..Len(chain)
      BY <1>17, <1>19, <2>1, <3>1
    <3>2. CASE d = Len(chain) + 1 /\ RegListener \notin listeners
      <4>1. Deploy \in Range(b)
        BY <1>2, <2>1, <3>2 DEF DeployedIn
      <4>2. PICK i \in 1..Len(b) : b[i] = Deploy
        BY <1>18, <4>1
      <4>3. i \in SearchEvents(DeployListener, b) /\ DeployListener \in listeners
        BY <1>1, <1>6, <3>2, <4>2 DEF FollowOK
      <4>4. [lst |-> DeployListener, logs |-> SearchEvents(DeployListener, b)] \in blk'.plan
        BY <1>3, <4>3
      <4>. QED
        BY <1>2, <3>2, <4>4
    <3>. QED
      BY <1>2, <3>1, <3>2
  <2>2. ASSUME NEW d \in 1..Len(chain'), NEW r \in 1..Len(chain'), NEW p \in Publishers,
               d < r, DeployedIn(d)', RegisteredIn(p, r)'
        PROVE  \/ PastListener(p) \in listeners
               \/ r = Len(chain') /\ \E x \in blk'.plan :
                     x.lst = RegListener /\ \E i \in x.logs : b[i] = Reg(p)
    <3>1. d \in 1..Len(chain) /\ DeployedIn(d)
      BY <1>2, <1>17, <2>2
    <3>2. CASE r \in 1..Len(chain)
      BY <1>17, <1>20, <2>2, <3>1, <3>2
    <3>3. CASE r = Len(chain) + 1
      <4>1. Reg(p) \in Range(b)
        BY <1>2, <2>2, <3>3 DEF RegisteredIn
      <4>2. PICK i \in 1..Len(b) : b[i] = Reg(p)
        BY <1>18, <4>1
      <4>3. i \in SearchEvents(RegListener, b) /\ RegListener \in listeners
        BY <1>6, <1>19, <3>1, <4>2
      <4>4. [lst |-> RegListener, logs |-> SearchEvents(RegListener, b)] \in blk'.plan
        BY <1>3, <4>3
      <4>. QED
        BY <1>2, <3>3, <4>2, <4>3, <4>4
    <3>. QED
      BY <1>2, <3>2, <3>3
  <2>3. \A p \in Publishers : Followed(p)' <=> PastListener(p) \in listeners
    BY <1>5 DEF Followed
  <2>4. \A d, r \in 1..Len(chain'), p \in Publishers :
           d < r /\ DeployedIn(d)' /\ RegisteredIn(p, r)' =>
              \/ Followed(p)'
              \/ r = Len(chain') /\ \E x \in blk'.plan :
                    x.lst = RegListener /\ \E i \in x.logs : LastBlock'[i] = Reg(p)
    BY <1>2, <2>2, <2>3
  <2>5. \A d \in 1..Len(chain') : DeployedIn(d)' =>
           \/ RegListener \in listeners'
           \/ d = Len(chain') /\ \E x \in blk'.plan : x.lst = DeployListener
    BY <1>5, <2>1
  <2>6. DeployListener \in listeners' \/ RegListener \in listeners'
    BY <1>1, <1>5 DEF FollowOK
  <2>. QED
    BY <2>4, <2>5, <2>6 DEF FollowOK
<1>22. LaterEventsStored'
  <2> SUFFICES ASSUME NEW d \in 1..Len(chain'), NEW r \in 1..Len(chain'), NEW n \in 1..Len(chain'),
                      NEW i \in 1..Len(chain'[n]), d < r, r < n, chain'[n][i].type = "notify",
                      Deploy \in Range(chain'[d]), Reg(chain'[n][i].pub) \in Range(chain'[r])
               PROVE  (<<n, i>> \in Stored(chain[n][i].pub))'
    BY DEF LaterEventsStored
  <2>1. /\ d \in 1..Len(chain) /\ r \in 1..Len(chain) /\ chain'[d] = chain[d] /\ chain'[r] = chain[r]
    BY <1>2
  <2>2. PICK p : p = chain'[n][i].pub
    OBVIOUS
  <2>3. <<n, i>> \in Stored(p)'
    <3>1. CASE n \in 1..Len(chain)
      <4>1. chain'[n] = chain[n]
        BY <1>2, <3>1
      <4>2. <<n, i>> \in Stored(chain[n][i].pub)
        BY <1>1, <2>1, <3>1, <4>1 DEF LaterEventsStored
      <4>3. <<n, i>> \in Stored(p)
        BY <2>2, <4>1, <4>2
      <4>. QED
        BY <1>15, <4>3
    <3>2. CASE n = Len(chain) + 1
      <4>1. chain'[n] = b /\ i \in 1..Len(b) /\ b[i].type = "notify" /\ b[i].pub = p
        BY <1>2, <2>2, <3>2
      <4>2. b[i] \in Logs
        BY <1>2, <4>1
      <4>3. PICK k \in Publishers : b[i] = Notify(k)
        BY <4>1, <4>2 DEF Logs, Deploy, Reg
      <4>4. k = p
        BY <4>1, <4>3 DEF Notify
      <4>5. PastListener(p) \in listeners
        <5>1. DeployedIn(d) /\ RegisteredIn(p, r)
          BY <2>1, <2>2 DEF DeployedIn, RegisteredIn
        <5>. QED
          BY <1>20, <2>1, <4>4, <5>1
      <4>6. <<n, i>> \in Pending(PastListener(p))'
        BY <1>4, <1>6, <3>2, <4>1, <4>3, <4>4, <4>5
      <4>. QED
        BY <1>15, <4>6
    <3>. QED
      BY <1>2, <3>1, <3>2
  <2>. QED
    BY <2>2, <2>3 DEF Stored, Pending, PastListener
<1>23. ServiceInv'
  BY <1>10, <1>13, <1>21, <1>22 DEF ServiceInv
<1>. QED
  BY <1>8, <1>9, <1>11, <1>12, <1>15, <1>16, <1>23

\* What was promised before a block is earlier than what the block plans.
LEMMA PlannedLater ==
    ASSUME NEW n \in Nat, NEW s \in Seq(Events), \A e \in Range(s) : e[1] <= n,
           NEW later \in SUBSET Events, \A e \in later : e[1] = n + 1
    PROVE  \A e \in later : \A f \in Range(s) : Before(f, e)
<1> SUFFICES ASSUME NEW e \in later, NEW f \in Range(s) PROVE Before(f, e)
  OBVIOUS
<1>1. f \in Events /\ f[1] <= n /\ e[1] = n + 1
  BY DEF Range
<1>2. f[1] \in Nat
  BY <1>1 DEF Events
<1>. QED
  BY <1>1, <1>2 DEF Before

\* A client while a new block is planned.
LEMMA AppendClient ==
    ASSUME IndInv, NEW b \in Blocks, AppendBlock(b), NEW c \in Clients
    PROVE  ClientInv(c)'
<1>1. TypeOK /\ PlanOK /\ ClientInv(c)
  BY InvParts DEF ServiceInv
<1>2. /\ Len(chain) \in Nat /\ Len(chain') = Len(chain) + 1 /\ lastValidated = Len(chain)
      /\ lastValidated' = Len(chain) + 1 /\ \A l : Pending(l) = {}
      /\ \A l : l \notin listeners => Pending(l)' = {}
      /\ listeners' = listeners /\ evMgrAddr' = evMgrAddr /\ queue' = queue
      /\ req' = req /\ hb' = hb /\ got' = got
  BY NewPlan
<1>3. /\ TypeOK' /\ ServiceInv' /\ ~MonitorFree'
      /\ \A p : Stored(p) \subseteq Stored(p)'
      /\ \A p \in evMgrAddr : PastListener(p) \in listeners
      /\ \A p : PastListener(p) \in listeners =>
            /\ Stored(p)' = Stored(p) \cup Pending(PastListener(p))'
            /\ ClientListener(c) \in listeners /\ req[c].pub = p =>
                  Pending(ClientListener(c))' = Pending(PastListener(p))'
      /\ \A l, e : e \in Pending(l)' => e \in Events /\ e[1] = Len(chain) + 1
  BY AppendService
<1>4. \A n \in Nat : ClaimOK(n) => ClaimOK(n)'
  BY <1>2, <1>3 DEF ClaimOK
<1>5. ClaimOK(req[c].blk)' /\ ToldOK(c)'
  <2>1. PICK n \in Nat, k \in Nat, j \in Nat :
           /\ n = req[c].blk /\ n = req'[c].blk /\ k = got[c].claim /\ k = got'[c].claim
           /\ j = got[c].prevClaim /\ j = got'[c].prevClaim
    BY <1>1, <1>2 DEF TypeOK
  <2>2. ClaimOK(n)' /\ ClaimOK(k)' /\ ClaimOK(j)'
    BY <1>1, <1>4, <2>1 DEF ClientInv, ToldOK
  <2>. QED
    BY <2>1, <2>2 DEF ClaimOK, ToldOK
<1>6. (Live(c)' <=> Live(c)) /\ (Unread(c)' <=> Unread(c))
  BY <1>2 DEF Live, Unread
<1>7. RequestOK(c) /\ FlowOK(c) /\ OrderOK(c)
  BY <1>1 DEF ClientInv
<1>8. RequestOK(c)'
  <2>1. req[c].pc \in {"none", "refused"} => Pending(ClientListener(c))' = {}
    BY <1>2, <1>7 DEF RequestOK
  <2>. QED
    BY <1>2, <1>6, <1>7, <2>1 DEF RequestOK, NoReply
<1>9. OrderOK(c)'
  BY <1>2, <1>7 DEF OrderOK
<1>10. Promised(c)' = Promised(c) /\ Promised(c) \in Seq(Events)
  BY <1>1, <1>2, StoredEvents DEF Promised, InFlight
<1>11. FlowOK(c)'
  <2> SUFFICES ASSUME Live(c) PROVE FlowOK(c)'
    BY <1>6 DEF FlowOK
  <2>1. PICK p : p = req[c].pub /\ p = req'[c].pub
    BY <1>2
  <2>2. p \in evMgrAddr /\ ClientListener(c) \in listeners
    BY <1>7, <2>1 DEF RequestOK
  <2>3. /\ Stored(p) \subseteq Stored(p)' /\ Pending(PastListener(p))' \subseteq Stored(p)'
        /\ Pending(ClientListener(c))' = Pending(PastListener(p))'
    BY <1>3, <2>1, <2>2
  <2>4. \A e \in Range(Promised(c)) : e[1] <= Len(chain)
    BY <1>7 DEF FlowOK
  <2>5. \A e \in Range(Promised(c)') : e[1] <= Len(chain')
    <3>1. \A e \in Range(Promised(c)) : e \in Events
      BY <1>10 DEF Range
    <3>2. \A e \in Range(Promised(c)) : e[1] \in Nat
      BY <3>1 DEF Events
    <3>. QED
      BY <1>2, <1>10, <2>4, <3>2
  <2>6. Unread(c)' => (Range(queue[c]) \cup Pending(ClientListener(c)) \subseteq Stored(req[c].pub))'
    <3>1. Unread(c) => Range(queue[c]) \subseteq Stored(p)
      BY <1>7, <2>1 DEF FlowOK
    <3>2. Stored(req[c].pub)' = Stored(p)'
      BY <2>1, StoredNext
    <3>. QED
      BY <1>2, <1>6, <2>3, <3>1, <3>2
  <2>7. PICK m \in 0..Len(Promised(c)) :
           TwoRuns(Promised(c), m, Pending(ClientListener(c))) /\ (Unread(c) => m = 0)
    BY <1>7 DEF FlowOK
  <2>8. TwoRuns(Promised(c), m, Pending(ClientListener(c))')
    <3>1. PICK s \in Seq(Events) : s = Promised(c)
      BY <1>10
    <3>2. PICK later \in SUBSET Events : later = Pending(ClientListener(c))'
      BY <1>3
    <3>3. \A e \in later : e[1] = Len(chain) + 1
      BY <1>3, <3>2
    <3>4. \A e \in later : \A f \in Range(s) : Before(f, e)
      BY <1>2, <2>4, <3>1, <3>3, PlannedLater
    <3>5. TwoRuns(s, m, later)
      BY <2>7, <3>1, <3>4, RunsPlan
    <3>. QED
      BY <3>1, <3>2, <3>5
  <2>9. TwoRuns(Promised(c)', m, Pending(ClientListener(c))') /\ m \in 0..Len(Promised(c)')
    BY <1>10, <2>7, <2>8
  <2>. QED
    BY <1>6, <2>5, <2>6, <2>7, <2>9 DEF FlowOK
<1>. QED
  BY <1>5, <1>8, <1>9, <1>11 DEF ClientInv

\* Its cover.
LEMMA AppendCover ==
    ASSUME IndInv, NEW b \in Blocks, AppendBlock(b), NEW c \in Clients, CoverOK(c)
    PROVE  CoverOK(c)'
<1>1. TypeOK /\ PlanOK /\ RequestOK(c) /\ ToldOK(c)
  BY InvParts DEF ServiceInv, ClientInv
<1>2. /\ Len(chain) \in Nat /\ lastValidated = Len(chain) /\ \A l : Pending(l) = {}
      /\ listeners' = listeners /\ evMgrAddr' = evMgrAddr /\ queue' = queue
      /\ req' = req /\ hb' = hb /\ got' = got
  BY NewPlan
<1>3. /\ \A p \in evMgrAddr : PastListener(p) \in listeners
      /\ \A p : PastListener(p) \in listeners =>
            /\ Stored(p)' = Stored(p) \cup Pending(PastListener(p))'
            /\ ClientListener(c) \in listeners /\ req[c].pub = p =>
                  Pending(ClientListener(c))' = Pending(PastListener(p))'
      /\ \A l, e : e \in Pending(l)' => e[1] = Len(chain) + 1
  BY AppendService
<1>4. CASE ~Live(c)
  BY <1>2, <1>4 DEF CoverOK, Covered, Caught, Live, Subscribed
<1>5. CASE Live(c)
  <2>1. PICK p : p = req[c].pub /\ p = req'[c].pub
    BY <1>2
  <2>2. p \in evMgrAddr /\ ClientListener(c) \in listeners
    BY <1>1, <1>5, <2>1 DEF RequestOK
  <2>3. /\ Stored(req[c].pub)' = Stored(p) \cup Pending(ClientListener(c))'
        /\ Pending(PastListener(req[c].pub))' = Pending(ClientListener(c))'
        /\ Stored(req[c].pub) = Stored(p)
    <3>1. /\ Stored(req[c].pub)' = Stored(p)'
          /\ Pending(PastListener(req[c].pub))' = Pending(PastListener(p))'
      BY <2>1, StoredNext
    <3>2. /\ Stored(p)' = Stored(p) \cup Pending(PastListener(p))'
          /\ Pending(ClientListener(c))' = Pending(PastListener(p))'
      BY <1>3, <2>1, <2>2
    <3>. QED
      BY <2>1, <3>1, <3>2
  <2>4. /\ Promised(c)' = Promised(c) /\ ((c \in Subscribed)' <=> c \in Subscribed)
        /\ InFlight(c)' = InFlight(c) /\ (Sending(c)' <=> Sending(c))
    BY <1>2 DEF Promised, Subscribed, InFlight, Sending
  <2>5. Covered(c)'
    <3>1. Pending(ClientListener(c)) = {}
      BY <1>2
    <3>. QED
      BY <1>2, <2>3, <2>4, <3>1 DEF CoverOK, Covered
  <2>6. \A e \in Pending(ClientListener(c))' :
           ~(e[1] <= got[c].claim) /\ ~(e[1] <= got[c].prevClaim)
    <3>1. /\ got[c].claim <= Len(chain) /\ got[c].prevClaim <= Len(chain)
          /\ got[c].claim \in Nat /\ got[c].prevClaim \in Nat
      BY <1>1, <1>2 DEF ToldOK, ClaimOK, TypeOK
    <3>. QED
      BY <1>2, <1>3, <3>1
  <2>7. Caught(c)'
    BY <1>2, <2>3, <2>4, <2>6 DEF CoverOK, Caught
  <2>. QED
    BY <1>2, <2>5, <2>7 DEF CoverOK
<1>. QED
  BY <1>4, <1>5

\* A new block keeps the invariant.
LEMMA AppendKeeps ==
    ASSUME IndInv, NEW b \in Blocks, AppendBlock(b)
    PROVE  IndInv' /\ (CoverInv => CoverInv')
<1>1. TypeOK /\ EmittersOK /\ ClaimOK(hb.blk)
  BY InvParts
<1>2. /\ Len(chain) \in Nat /\ Len(chain') = Len(chain) + 1 /\ lastValidated = Len(chain)
      /\ lastValidated' = Len(chain) + 1
      /\ req' = req /\ hb' = hb /\ emitters' = emitters
  BY NewPlan
<1>3. TypeOK' /\ ServiceInv' /\ ~MonitorFree'
  BY AppendService
<1>4. EmittersOK'
  BY <1>1, <1>2 DEF EmittersOK
<1>5. ClaimOK(hb.blk)'
  <2>1. hb.blk \in Nat /\ hb'.blk = hb.blk
    BY <1>1, <1>2 DEF TypeOK
  <2>. QED
    BY <1>1, <1>2, <1>3, <2>1 DEF ClaimOK
<1>6. IndInv'
  BY <1>3, <1>4, <1>5, AppendClient, InvPartsNext
<1>7. ASSUME CoverInv PROVE CoverInv'
  <2>1. \A c \in Clients : CoverOK(c)'
    BY <1>7, AppendCover DEF CoverInv, CoverOK
  <2>. QED
    BY <2>1 DEF CoverInv, CoverOK
<1>. QED
  BY <1>6, <1>7
-----------------------------------------------------------------------------
(***************************************************************************)
(* The theorems.                                                           *)
(***************************************************************************)
\* Nothing is listened to but the deployment when the broker starts.
LEMMA InitHolds == Init => IndInv /\ CoverInv
<1> SUFFICES ASSUME Init PROVE IndInv /\ CoverInv
  OBVIOUS
<1>1. /\ chain = <<>> /\ lastValidated = 0
      /\ blk = [pc |-> "idle", plan |-> {}, cur |-> {}]
      /\ listeners = {DeployListener} /\ evMgrAddr = {} /\ past = <<>>
      /\ queue = [c \in Clients |-> <<>>] /\ req = [c \in Clients |-> NoReply]
      /\ emitters = <<>>
      /\ hb = [pc |-> "idle", todo |-> <<>>, kept |-> <<>>, out |-> <<>>, blk |-> 0]
      /\ got = [c \in Clients |-> [events |-> <<>>, claim |-> 0, prevClaim |-> 0]]
  BY DEF Init
<1>2. \A S : <<>> \in Seq(S) /\ Len(<<>>) = 0 /\ DOMAIN <<>> = {}
  OBVIOUS
<1>3. DOMAIN past = {} /\ past \in [DOMAIN past -> Seq(Events)]
  <2>1. DOMAIN past = {}
    BY <1>1, <1>2
  <2>2. past = [i \in {} |-> <<>>]
    BY <1>1
  <2>. QED
    BY <2>1, <2>2
<1>4. \A c \in Clients :
         /\ queue[c] = <<>> /\ req[c] = NoReply
         /\ got[c] = [events |-> <<>>, claim |-> 0, prevClaim |-> 0]
  BY <1>1
<1>5. NoReply \in [pc : {"none", "refused", "reads", "replied", "active", "failed"},
                   pub : Publishers \cup {"none"}, todo : Seq({"blk", "past"}),
                   blk : Nat, past : Seq(Events)]
  BY <1>2 DEF NoReply
<1>6. TypeOK
  <2>1. chain \in Seq(Seq(Logs)) /\ lastValidated \in Nat /\ emitters \in Seq(Clients)
    BY <1>1, <1>2
  <2>2. queue \in [Clients -> Seq(Events)]
    BY <1>1, <1>2
  <2>3. req \in [Clients ->
                  [pc : {"none", "refused", "reads", "replied", "active", "failed"},
                   pub : Publishers \cup {"none"}, todo : Seq({"blk", "past"}),
                   blk : Nat, past : Seq(Events)]]
    BY <1>1, <1>5
  <2>4. hb \in [pc : {"idle", "emit", "drained", "send"}, todo : Seq(Clients),
               kept : Seq(Clients), out : Seq(Events), blk : Nat]
    BY <1>1, <1>2
  <2>5. got \in [Clients -> [events : Seq(Events), claim : Nat, prevClaim : Nat]]
    BY <1>1, <1>2
  <2>6. blk \in [pc : {"idle", "run", "store", "push", "stopped"},
                plan : SUBSET [lst : Listeners, logs : SUBSET (Nat \ {0})],
                cur : SUBSET Listeners]
    BY <1>1
  <2>7. listeners \subseteq Listeners
    BY <1>1 DEF Listeners
  <2>8. evMgrAddr \subseteq Publishers /\ DOMAIN past \subseteq Publishers
    BY <1>1, <1>3
  <2>. QED
    BY <1>3, <2>1, <2>2, <2>3, <2>4, <2>5, <2>6, <2>7, <2>8 DEF TypeOK
<1>7. \A l : Pending(l) = {}
  BY <1>1 DEF Pending
<1>8. /\ DeployListener # RegListener /\ \A p : PastListener(p) # DeployListener
      /\ \A c : ClientListener(c) # DeployListener
  BY ListenerKinds DEF DeployListener, RegListener, PastListener, ClientListener
<1>9. PlanOK
  BY <1>1 DEF PlanOK, MonitorFree
<1>10. StoreOK
  BY <1>1, <1>3, <1>8 DEF StoreOK
<1>11. FollowOK /\ LaterEventsStored
  <2>1. \A n : n \notin 1..Len(chain)
    BY <1>1
  <2>. QED
    BY <1>1, <2>1 DEF FollowOK, LaterEventsStored
<1>12. EmittersOK
  <2>1. emitters = <<>> /\ hb.kept = <<>> /\ hb.todo = <<>> /\ hb.pc = "idle"
    BY <1>1
  <2>2. Range(<<>>) = {} /\ IsInjective(<<>>)
    BY <1>2 DEF Range, IsInjective
  <2>. QED
    BY <2>1, <2>2 DEF EmittersOK
<1>13. ClaimOK(0) /\ hb.blk = 0
  BY <1>1 DEF ClaimOK, MonitorFree
<1>14. ASSUME NEW c \in Clients PROVE ClientInv(c) /\ CoverOK(c)
  <2>1. /\ req[c].pc = "none" /\ req[c].blk = 0 /\ req[c].past = <<>> /\ req[c] = NoReply
        /\ got[c].events = <<>> /\ got[c].claim = 0 /\ got[c].prevClaim = 0
        /\ got[c] = [events |-> <<>>, claim |-> 0, prevClaim |-> 0] /\ queue[c] = <<>>
    BY <1>4 DEF NoReply
  <2>2. ~Live(c) /\ ~Unread(c) /\ c \notin Subscribed
    BY <2>1 DEF Live, Unread, Subscribed
  <2>3. RequestOK(c)
    BY <1>1, <1>7, <1>8, <2>1, <2>2 DEF RequestOK
  <2>4. FlowOK(c)
    BY <2>2 DEF FlowOK
  <2>5. OrderOK(c)
    BY <2>1 DEF OrderOK
  <2>6. ClaimOK(req[c].blk) /\ ToldOK(c)
    BY <1>13, <2>1 DEF ToldOK
  <2>7. CoverOK(c)
    BY <2>1, <2>2 DEF CoverOK, Covered, Caught
  <2>. QED
    BY <2>3, <2>4, <2>5, <2>6, <2>7 DEF ClientInv
<1>15. IndInv
  BY <1>6, <1>9, <1>10, <1>11, <1>12, <1>13, <1>14, InvParts DEF ServiceInv
<1>16. CoverInv
  BY <1>14 DEF CoverOK, CoverInv
<1>. QED
  BY <1>15, <1>16

\* Nothing changes.
LEMMA StutterKeeps ==
    ASSUME IndInv, UNCHANGED vars
    PROVE  IndInv' /\ (CoverInv => CoverInv')
<1>1. UNCHANGED <<chain, lastValidated, blk, listeners, evMgrAddr, past, queue, req,
                  emitters, hb, got>>
  BY DEF vars
<1>2. Touches({})
  BY <1>1 DEF Touches, chainVars, svcVars, InFlight, Sending
<1>3. TypeOK' /\ EmittersOK' /\ ClaimOK(hb.blk)'
  <2>1. TypeOK /\ EmittersOK /\ ClaimOK(hb.blk)
    BY InvParts
  <2>. QED
    BY <1>1, <2>1 DEF TypeOK, EmittersOK, ClaimOK, MonitorFree
<1>. QED
  BY <1>2, <1>3, TouchesOnly

\* Every step keeps the invariant, and the cover when the block number is read
\* first.
LEMMA NextKeeps ==
    ASSUME IndInv, [Next]_vars
    PROVE  IndInv' /\ (LeftToRight /\ CoverInv => CoverInv')
<1>1. CASE \E b \in Blocks : AppendBlock(b)
  BY <1>1, AppendKeeps
<1>2. CASE AppendBlockThrows
  BY <1>2, BlockEnds
<1>3. CASE Callback
  BY <1>3, CallbackKeeps
<1>4. CASE AppendBlockReturns
  BY <1>4, BlockEnds
<1>5. CASE \E c \in Clients : Request(c)
  BY <1>5, RequestKeeps
<1>6. CASE Heartbeat
  BY <1>6, HeartbeatKeeps
<1>7. CASE UNCHANGED vars
  BY <1>7, StutterKeeps
<1>. QED
  BY <1>1, <1>2, <1>3, <1>4, <1>5, <1>6, <1>7 DEF Next

\* The broker's threads keep its plan, its listeners, the stored events and what
\* each subscriber is promised consistent, however they interleave.
THEOREM AlwaysIndInv == Spec => []IndInv
<1>1. Init => IndInv
  BY InitHolds
<1>2. IndInv /\ [Next]_vars => IndInv'
  BY NextKeeps
<1>. QED
  BY <1>1, <1>2, PTL DEF Spec

\* Whatever the order the reply's arguments are evaluated in, no unseen event is
\* delivered after a later one.
THEOREM EventsNeverReordered == Spec => []NeverReordered
<1>1. IndInv => NeverReordered
  BY DEF IndInv
<1>. QED
  BY <1>1, AlwaysIndInv, PTL

\* An event is delivered with the past events and through the listener, and never
\* a third time.
THEOREM EventsAtMostTwice == Spec => []AtMostTwice
<1>1. IndInv => AtMostTwice
  BY DEF IndInv
<1>. QED
  BY <1>1, AlwaysIndInv, PTL

\* The listeners that the deployment and registration handlers add are in time for
\* the blocks after these.
THEOREM LaterEventsAlwaysStored == Spec => []LaterEventsStored
<1>1. IndInv => LaterEventsStored
  BY DEF IndInv
<1>. QED
  BY <1>1, AlwaysIndInv, PTL

\* The cover, when SubReq reads the block number before the past events.
LEMMA AlwaysCovered == ASSUME LeftToRight PROVE Spec => [](IndInv /\ CoverInv)
<1>1. Init => IndInv /\ CoverInv
  BY InitHolds
<1>2. IndInv /\ CoverInv /\ [Next]_vars => (IndInv /\ CoverInv)'
  BY NextKeeps
<1>. QED
  BY <1>1, <1>2, PTL DEF Spec

\* When the block number is read first no event falls between the reply's past
\* events and the listener's queue.
THEOREM NoEventEverMissed == ASSUME LeftToRight PROVE Spec => []NoEventMissed
<1>1. ASSUME IndInv, CoverInv PROVE NoEventMissed
  <2>1. TypeOK /\ PlanOK /\ \A c \in Clients : RequestOK(c)
    BY <1>1 DEF IndInv
  <2> SUFFICES ASSUME NEW c \in Subscribed
               PROVE  Stored(req[c].pub) \subseteq
                         Range(got[c].events) \cup Range(InFlight(c)) \cup Range(queue[c])
                           \cup Pending(ClientListener(c))
    BY DEF NoEventMissed
  <2>2. c \in Clients /\ req[c].pc \in {"replied", "active"}
    BY DEF Subscribed
  <2>3. req[c].past = <<>> /\ Covered(c)
    BY <1>1, <2>1, <2>2 DEF RequestOK, CoverInv
  <2>4. Stored(req[c].pub) \subseteq Range(Promised(c)) \cup Pending(ClientListener(c))
    BY <2>3 DEF Covered
  <2>5. Range(Promised(c)) = ((Range(got[c].events) \cup Range(req[c].past))
                                \cup Range(InFlight(c))) \cup Range(queue[c])
    <3>1. PICK g, r, f, q \in Seq(Events) :
             g = got[c].events /\ r = req[c].past /\ f = InFlight(c) /\ q = queue[c]
      BY <2>1, <2>2, StoredEvents
    <3>2. Range(((g \o r) \o f) \o q) = ((Range(g) \cup Range(r)) \cup Range(f)) \cup Range(q)
      BY PromisedRange
    <3>. QED
      BY <3>1, <3>2 DEF Promised
  <2>6. Range(<<>>) = {}
    BY DEF Range
  <2>. QED
    BY <2>3, <2>4, <2>5, <2>6
<1>. QED
  BY <1>1, AlwaysCovered, PTL

\* And what a client is told of one message it has with the next: every stored
\* event up to the block number of the message before the last has arrived.
THEOREM AlwaysCompleteUpToPreviousClaim ==
    ASSUME LeftToRight PROVE Spec => []CompleteUpToPreviousClaim
<1>1. ASSUME IndInv, CoverInv PROVE CompleteUpToPreviousClaim
  BY <1>1 DEF CoverInv, Caught, CompleteUpToPreviousClaim, Subscribed
<1>. QED
  BY <1>1, AlwaysCovered, PTL
==============================================================================
