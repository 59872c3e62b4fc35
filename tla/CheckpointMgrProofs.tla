------------------------- MODULE CheckpointMgrProofs -------------------------
(***************************************************************************)
(* Proofs about CheckpointMgr for every checkpoint size from two, every     *)
(* first block and every chain length.                                      *)
(***************************************************************************)
EXTENDS CheckpointMgr, TLAPS

Records == [curr : Seq(Nat), cand : Seq(Nat), last : Nat,
            lastIsCandidate : BOOLEAN]

\* The n headers of s are the ones that follow block b.
RunFrom(s, b, n) == Len(s) = n /\ \A i \in 1..n : s[i] = b + i

(***************************************************************************)
(* The inductive invariant of a manager k whose latest checkpoint ends at  *)
(* block b; first says that there has been none.  Where the newest header  *)
(* of the window is kept is what changes between the three cases.          *)
(***************************************************************************)
BootShape(k, b, first) ==
    /\ Len(k.cand) < ChkptSize /\ RunFrom(k.cand, b, Len(k.cand))
    /\ first => k.curr = <<>>
    /\ ~first => RunFrom(k.curr, b - ChkptSize, ChkptSize)

CandidateShape(k, b) ==
    /\ Len(k.cand) + 1 < ChkptSize /\ RunFrom(k.cand, b, Len(k.cand))
    /\ k.last = b + Len(k.cand) + 1
    /\ RunFrom(k.curr, b - ChkptSize, ChkptSize)

FreshShape(k, b) ==
    /\ k.cand = <<>> /\ k.last = b
    /\ RunFrom(k.curr, b - ChkptSize, ChkptSize - 1)

Shape(k, b, first) ==
    /\ k.last = None => BootShape(k, b, first)
    /\ k.last # None => /\ ~first
                        /\ k.lastIsCandidate => CandidateShape(k, b)
                        /\ ~k.lastIsCandidate => FreshShape(k, b)

NoneYet == secState.checkpointIter = 0

Base ==
    /\ Checkpoint \in Nat
    /\ NoneYet => Checkpoint = StartBlk - 1
    /\ ~NoneYet => Checkpoint >= StartBlk - 1 + ChkptSize

Inv == TypeOK /\ Base /\ Shape(chkpt, Checkpoint, NoneYet)

USE CheckpointAssumption

\* A run of headers covers an interval of block numbers.
LEMMA RunRange ==
    ASSUME NEW s \in Seq(Nat), NEW b \in Int, NEW n \in Nat, RunFrom(s, b, n)
    PROVE  {s[i] : i \in 1..Len(s)} = (b + 1)..(b + n)
  <1>1. Len(s) = n /\ \A i \in 1..n : s[i] = b + i
    BY DEF RunFrom
  <1>2. ASSUME NEW x \in (b + 1)..(b + n) PROVE x \in {s[i] : i \in 1..n}
    <2>1. x - b \in 1..n /\ s[x - b] = b + (x - b)
      BY <1>1, <1>2
    <2>2. s[x - b] = x
      BY <2>1
    <2> QED BY <2>1, <2>2
  <1>3. ASSUME NEW x \in {s[i] : i \in 1..n} PROVE x \in (b + 1)..(b + n)
    <2>1. PICK i \in 1..n : x = s[i]
      BY <1>3
    <2> QED BY <1>1, <2>1
  <1> QED BY <1>1, <1>2, <1>3

\* Appending the next header prolongs a run.
LEMMA RunGrows ==
    ASSUME NEW s \in Seq(Nat), NEW b \in Int, NEW n \in Nat, RunFrom(s, b, n),
           NEW x \in Nat, x = b + n + 1
    PROVE  /\ Append(s, x) \in Seq(Nat) /\ Len(Append(s, x)) = n + 1
           /\ RunFrom(Append(s, x), b, n + 1)
  <1>1. Len(s) = n /\ \A i \in 1..n : s[i] = b + i
    BY DEF RunFrom
  <1>2. Append(s, x) \in Seq(Nat) /\ Len(Append(s, x)) = n + 1
    BY <1>1
  <1>3. ASSUME NEW i \in 1..(n + 1) PROVE Append(s, x)[i] = b + i
    <2>1. CASE i \in 1..n
      BY <1>1, <2>1
    <2>2. CASE i = n + 1
      <3>1. Append(s, x)[n + 1] = x
        BY <1>1
      <3>2. b + i = x
        BY <2>2
      <3> QED BY <2>2, <3>1, <3>2, Zenon
    <2>3. i \in 1..n \/ i = n + 1
      OBVIOUS
    <2> QED BY <2>1, <2>2, <2>3
  <1> QED BY <1>2, <1>3 DEF RunFrom

(***************************************************************************)
(* What a well-shaped manager shows of itself.                             *)
(***************************************************************************)
LEMMA Views ==
    ASSUME NEW k \in Records, NEW b \in Nat, NEW first \in BOOLEAN,
           Shape(k, b, first),
           first => b = StartBlk - 1,
           ~first => b >= StartBlk - 1 + ChkptSize
    PROVE  /\ GetNumOfCandidates(k) \in Nat /\ GetNumOfCandidates(k) < ChkptSize
           /\ IterateCurrWindow(k) = IF first THEN {} ELSE (b - ChkptSize + 1)..b
           /\ (k.curr = <<>>) <=> first
           /\ ~first => RangeEnd(k) = b
           /\ (IF IsEmpty(k) THEN StartBlk - 1 ELSE GetLastHeader(k))
                = b + GetNumOfCandidates(k)
  <1>0. /\ k.curr \in Seq(Nat) /\ k.cand \in Seq(Nat) /\ k.last \in Nat
        /\ Len(k.curr) \in Nat /\ Len(k.cand) \in Nat
    BY DEF Records
  <1>4. b - ChkptSize \in Int /\ ChkptSize - 1 \in Nat /\ ChkptSize \in Nat
    OBVIOUS
  <1>1. CASE k.last = None
    <2>1. BootShape(k, b, first)
      BY <1>1 DEF Shape
    <2>2. GetNumOfCandidates(k) = Len(k.cand)
      BY <1>0, <1>1 DEF GetNumOfCandidates
    <2>3. IterateCurrWindow(k) = {k.curr[i] : i \in 1..Len(k.curr)}
      BY <1>1 DEF IterateCurrWindow
    <2>4. CASE first
      <3>1. k.curr = <<>> /\ b = StartBlk - 1
        BY <2>1, <2>4 DEF BootShape
      <3>2. IterateCurrWindow(k) = {}
        BY <2>3, <3>1
      <3>3. (IF IsEmpty(k) THEN StartBlk - 1 ELSE GetLastHeader(k)) = b + Len(k.cand)
        BY <1>0, <1>1, <2>1, <3>1 DEF IsEmpty, GetLastHeader, BootShape, RunFrom
      <3> QED BY <1>0, <2>1, <2>2, <2>4, <3>1, <3>2, <3>3 DEF BootShape
    <2>5. CASE ~first
      <3>1. RunFrom(k.curr, b - ChkptSize, ChkptSize) /\ b >= StartBlk - 1 + ChkptSize
        BY <2>1, <2>5 DEF BootShape
      <3>2. IterateCurrWindow(k) = (b - ChkptSize + 1)..b
        <4>1. {k.curr[i] : i \in 1..Len(k.curr)}
                = (b - ChkptSize + 1)..(b - ChkptSize + ChkptSize)
          BY <1>0, <1>4, <3>1, RunRange, ZenonT(40)
        <4> QED BY <2>3, <4>1
      <3>3. k.curr # <<>> /\ RangeEnd(k) = b
        BY <1>0, <3>1 DEF RunFrom, RangeEnd
      <3>4. (IF IsEmpty(k) THEN StartBlk - 1 ELSE GetLastHeader(k)) = b + Len(k.cand)
        <4>1. ~IsEmpty(k)
          BY <3>3 DEF IsEmpty
        <4>2. CASE k.cand = <<>>
          <5>1. GetLastHeader(k) = k.curr[Len(k.curr)] /\ Len(k.cand) = 0
            BY <1>1, <4>2 DEF GetLastHeader
          <5>2. k.curr[ChkptSize] = b /\ Len(k.curr) = ChkptSize
            BY <3>1 DEF RunFrom
          <5> QED BY <4>1, <5>1, <5>2
        <4>3. CASE k.cand # <<>>
          <5>1. GetLastHeader(k) = k.cand[Len(k.cand)] /\ Len(k.cand) > 0
            BY <1>0, <1>1, <4>3 DEF GetLastHeader
          <5>2. \A i \in 1..Len(k.cand) : k.cand[i] = b + i
            BY <2>1 DEF BootShape, RunFrom
          <5>3. Len(k.cand) \in 1..Len(k.cand)
            BY <1>0, <5>1
          <5> QED BY <4>1, <5>1, <5>2, <5>3
        <4> QED BY <4>2, <4>3
      <3> QED BY <1>0, <2>1, <2>2, <2>5, <3>2, <3>3, <3>4 DEF BootShape
    <2> QED BY <2>4, <2>5
  <1>2. CASE k.last # None /\ k.lastIsCandidate
    <2>1. CandidateShape(k, b) /\ ~first
      BY <1>2 DEF Shape
    <2>2. GetNumOfCandidates(k) = Len(k.cand) + 1
      BY <1>0, <1>2 DEF GetNumOfCandidates
    <2>3. IterateCurrWindow(k) = {k.curr[i] : i \in 1..Len(k.curr)}
      BY <1>2 DEF IterateCurrWindow
    <2>4. IterateCurrWindow(k) = (b - ChkptSize + 1)..b
      <3>1. {k.curr[i] : i \in 1..Len(k.curr)}
              = (b - ChkptSize + 1)..(b - ChkptSize + ChkptSize)
        BY <1>0, <1>4, <2>1, RunRange, ZenonT(40) DEF CandidateShape
      <3> QED BY <2>3, <3>1
    <2>5. k.curr # <<>> /\ RangeEnd(k) = b
      BY <1>0, <2>1 DEF CandidateShape, RunFrom, RangeEnd
    <2>6. ~IsEmpty(k) /\ GetLastHeader(k) = b + Len(k.cand) + 1
      BY <1>0, <1>2, <2>1 DEF IsEmpty, GetLastHeader, CandidateShape
    <2>7. Len(k.cand) + 1 < ChkptSize
      BY <2>1 DEF CandidateShape
    <2>8. b + Len(k.cand) + 1 = b + (Len(k.cand) + 1)
      BY <1>0
    <2> QED BY <1>0, <2>1, <2>2, <2>4, <2>5, <2>6, <2>7, <2>8
  <1>3. CASE k.last # None /\ ~k.lastIsCandidate
    <2>1. FreshShape(k, b) /\ ~first
      BY <1>3 DEF Shape
    <2>2. GetNumOfCandidates(k) = 0
      BY <1>0, <1>3, <2>1 DEF GetNumOfCandidates, FreshShape
    <2>3. IterateCurrWindow(k) = {k.curr[i] : i \in 1..Len(k.curr)} \cup {k.last}
      BY <1>3 DEF IterateCurrWindow
    <2>4. IterateCurrWindow(k) = (b - ChkptSize + 1)..b
      <3>1. {k.curr[i] : i \in 1..Len(k.curr)}
              = (b - ChkptSize + 1)..(b - ChkptSize + (ChkptSize - 1))
        BY <1>0, <1>4, <2>1, RunRange, ZenonT(40) DEF FreshShape
      <3>2. k.last = b
        BY <2>1 DEF FreshShape
      <3>3. (b - ChkptSize + 1)..(b - ChkptSize + (ChkptSize - 1)) \cup {b}
              = (b - ChkptSize + 1)..b
        OBVIOUS
      <3> QED BY <2>3, <3>1, <3>2, <3>3
    <2>5. k.curr # <<>> /\ RangeEnd(k) = b
      BY <1>0, <2>1 DEF FreshShape, RunFrom, RangeEnd
    <2>6. ~IsEmpty(k) /\ GetLastHeader(k) = b
      BY <1>0, <1>3, <2>1 DEF IsEmpty, GetLastHeader, FreshShape
    <2> QED BY <1>0, <2>1, <2>2, <2>4, <2>5, <2>6
  <1> QED BY <1>1, <1>2, <1>3

-----------------------------------------------------------------------------
(***************************************************************************)
(* The three operations keep the shape.  A completed window moves the       *)
(* checkpoint to the new header h, which is ChkptSize blocks further.       *)
(***************************************************************************)
Kept(k, after, b, first, h) ==
    /\ after \in Records
    /\ HeaderCompletes(k) => h = b + ChkptSize /\ Shape(after, h, FALSE)
    /\ ~HeaderCompletes(k) => Shape(after, b, first)

\* AddHeader, the operation of bootstrap, keeps the shape of the windows.
LEMMA AddHeaderKeeps ==
    ASSUME NEW k \in Records, NEW b \in Nat, NEW first \in BOOLEAN, NEW h \in Nat,
           Shape(k, b, first), k.last = None, h = b + GetNumOfCandidates(k) + 1
    PROVE  Kept(k, AfterAddHeader(k, h), b, first, h)
  <1> DEFINE added == [k EXCEPT !.cand = Append(k.cand, h)]
             n == Len(k.cand)
  <1>1. /\ k.curr \in Seq(Nat) /\ k.cand \in Seq(Nat) /\ n \in Nat
        /\ k.lastIsCandidate \in BOOLEAN /\ BootShape(k, b, first)
    BY DEF Records, Shape
  <1>2. GetNumOfCandidates(k) = n /\ h = b + n + 1
    BY <1>1 DEF GetNumOfCandidates
  <1>9. /\ Append(k.cand, h) \in Seq(Nat) /\ Len(Append(k.cand, h)) = n + 1
        /\ RunFrom(Append(k.cand, h), b, n + 1)
    BY <1>1, <1>2, RunGrows DEF BootShape
  <1>3. /\ added \in Records /\ added.curr = k.curr
        /\ added.cand = Append(k.cand, h) /\ added.last = None
        /\ added.lastIsCandidate = k.lastIsCandidate
    BY <1>9 DEF Records
  <1>4. RunFrom(added.cand, b, n + 1) /\ Len(added.cand) = n + 1
    BY <1>3, <1>9
  <1>10. AfterAddHeader(k, h) =
            IF Completes(GetNumOfCandidates(added))
              THEN [added EXCEPT !.curr = added.cand, !.cand = <<>>] ELSE added
    BY DEF AfterAddHeader
  <1> HIDE DEF added
  <1>5. GetNumOfCandidates(added) = n + 1
    <2>1. GetNumOfCandidates(added) = Len(added.cand) + 0
      BY <1>3 DEF GetNumOfCandidates
    <2> QED BY <1>1, <1>4, <2>1
  <1>6. HeaderCompletes(k) <=> n + 1 >= ChkptSize
    BY <1>2 DEF HeaderCompletes, Completes
  <1>7. CASE n + 1 >= ChkptSize
    <2> DEFINE r == [added EXCEPT !.curr = added.cand, !.cand = <<>>]
    <2>1. AfterAddHeader(k, h) = r
      BY <1>5, <1>7, <1>10 DEF Completes
    <2>2. /\ r \in Records /\ r.curr = added.cand /\ r.cand = <<>>
          /\ r.last = None
      <3>1. added.cand \in Seq(Nat) /\ <<>> \in Seq(Nat)
        BY <1>3, <1>9
      <3> QED BY <1>3, <3>1 DEF Records
    <2>3. n + 1 = ChkptSize
      BY <1>1, <1>7 DEF BootShape
    <2>4. h = b + ChkptSize /\ h - ChkptSize = b
      BY <1>2, <2>3
    <2>5. RunFrom(r.curr, h - ChkptSize, ChkptSize)
      BY <1>4, <2>2, <2>3, <2>4, Zenon
    <2>6. BootShape(r, h, FALSE)
      BY <2>2, <2>5 DEF BootShape, RunFrom
    <2> HIDE DEF r
    <2>7. Shape(r, h, FALSE)
      BY <2>2, <2>6 DEF Shape
    <2> QED BY <1>6, <1>7, <2>1, <2>2, <2>4, <2>7, Zenon DEF Kept
  <1>8. CASE ~(n + 1 >= ChkptSize)
    <2>1. AfterAddHeader(k, h) = added
      BY <1>5, <1>8, <1>10 DEF Completes
    <2>2. BootShape(added, b, first)
      BY <1>1, <1>3, <1>4, <1>8 DEF BootShape
    <2> HIDE DEF added
    <2>3. Shape(added, b, first)
      BY <1>3, <2>2 DEF Shape
    <2> QED BY <1>3, <1>6, <1>8, <2>1, <2>3, Zenon DEF Kept
  <1> QED BY <1>7, <1>8

\* AddNode, the operation of runtime, keeps the shape of the windows.
LEMMA AddNodeKeeps ==
    ASSUME NEW k \in Records, NEW b \in Nat, NEW first \in BOOLEAN, NEW h \in Nat,
           Shape(k, b, first), k.last # None, h = b + GetNumOfCandidates(k) + 1
    PROVE  Kept(k, AfterAddNode(k, h), b, first, h)
  <1> DEFINE n == Len(k.cand)
  <1>1. /\ k.curr \in Seq(Nat) /\ k.cand \in Seq(Nat) /\ n \in Nat
        /\ k.last \in Nat /\ k.lastIsCandidate \in BOOLEAN /\ ~first
    BY DEF Records, Shape
  <1>2. CASE k.lastIsCandidate
    <2>1. CandidateShape(k, b) /\ GetNumOfCandidates(k) = n + 1 /\ h = b + n + 2
      BY <1>1, <1>2 DEF Shape, GetNumOfCandidates
    <2>2. HeaderCompletes(k) <=> n + 2 >= ChkptSize
      BY <1>1, <2>1 DEF HeaderCompletes, Completes
    <2>3. /\ RunFrom(Append(k.cand, k.last), b, n + 1)
          /\ Append(k.cand, k.last) \in Seq(Nat)
          /\ Len(Append(k.cand, k.last)) = n + 1
      BY <1>1, <2>1, RunGrows DEF CandidateShape
    <2>4. CASE n + 2 >= ChkptSize
      <3> DEFINE r == [curr |-> Append(k.cand, k.last), cand |-> <<>>, last |-> h,
                       lastIsCandidate |-> FALSE]
      <3>1. AfterAddNode(k, h) = r
        BY <2>2, <2>4 DEF AfterAddNode, HeaderCompletes
      <3>2. r \in Records
        BY <2>3 DEF Records
      <3>3. h = b + ChkptSize /\ h - ChkptSize = b /\ n + 1 = ChkptSize - 1
        <4>1. n + 1 < ChkptSize
          BY <2>1 DEF CandidateShape
        <4>2. n + 2 = ChkptSize
          BY <1>1, <2>4, <4>1
        <4>3. h = b + n + 2
          BY <2>1
        <4>4. h = b + ChkptSize
          <5>1. b + n + 2 = b + (n + 2)
            BY <1>1
          <5> QED BY <4>2, <4>3, <5>1, Zenon
        <4>5. h - ChkptSize = b
          BY <4>4
        <4>6. n + 1 = ChkptSize - 1
          BY <1>1, <4>2
        <4> QED BY <4>4, <4>5, <4>6, Zenon
      <3>4. RunFrom(r.curr, h - ChkptSize, ChkptSize - 1)
        BY <2>3, <3>3
      <3>5. FreshShape(r, h) /\ r.last # None /\ ~r.lastIsCandidate
        BY <1>1, <2>1, <3>4 DEF FreshShape, None
      <3> HIDE DEF r
      <3>6. Shape(r, h, FALSE)
        BY <3>5 DEF Shape
      <3> QED BY <2>2, <2>4, <3>1, <3>2, <3>3, <3>6, Zenon DEF Kept
    <2>5. CASE ~(n + 2 >= ChkptSize)
      <3> DEFINE m == [k EXCEPT !.cand = Append(k.cand, k.last)]
                 r == [m EXCEPT !.last = h, !.lastIsCandidate = TRUE]
      <3>1. AfterAddNode(k, h) = r
        BY <1>2, <2>2, <2>5 DEF AfterAddNode, HeaderCompletes, Retired
      <3>2. /\ r \in Records /\ r.curr = k.curr /\ r.last = h
            /\ r.cand = Append(k.cand, k.last) /\ r.lastIsCandidate
        BY <1>1, <2>3 DEF Records
      <3>3. Len(r.cand) = n + 1
        BY <2>3, <3>2
      <3> HIDE DEF r
      <3>4. CandidateShape(r, b) /\ r.last # None
        BY <1>1, <2>1, <2>3, <2>5, <3>2, <3>3 DEF CandidateShape, None
      <3>5. Shape(r, b, first)
        BY <1>1, <3>2, <3>4 DEF Shape
      <3> QED BY <2>2, <2>5, <3>1, <3>2, <3>5, Zenon DEF Kept
    <2> QED BY <2>4, <2>5
  <1>3. CASE ~k.lastIsCandidate
    <2>1. FreshShape(k, b) /\ GetNumOfCandidates(k) = 0 /\ h = b + 1 /\ n = 0
      BY <1>1, <1>3 DEF Shape, GetNumOfCandidates, FreshShape
    <2>2. ~HeaderCompletes(k)
      BY <2>1 DEF HeaderCompletes, Completes
    <2> DEFINE m == [k EXCEPT !.curr = Append(k.curr, k.last)]
               r == [m EXCEPT !.last = h, !.lastIsCandidate = TRUE]
    <2>3. AfterAddNode(k, h) = r
      BY <1>3, <2>2 DEF AfterAddNode, HeaderCompletes, Retired
    <2>8. /\ b - ChkptSize \in Int /\ ChkptSize - 1 \in Nat
          /\ k.last = (b - ChkptSize) + (ChkptSize - 1) + 1
          /\ RunFrom(k.curr, b - ChkptSize, ChkptSize - 1)
      BY <2>1 DEF FreshShape
    <2>9. /\ Append(k.curr, k.last) \in Seq(Nat)
          /\ RunFrom(Append(k.curr, k.last), b - ChkptSize, (ChkptSize - 1) + 1)
      <3>1. \A e \in Int : \A j \in Nat :
                (RunFrom(k.curr, e, j) /\ k.last = e + j + 1) =>
                    /\ Append(k.curr, k.last) \in Seq(Nat)
                    /\ RunFrom(Append(k.curr, k.last), e, j + 1)
        BY <1>1, RunGrows
      <3> QED BY <2>8, <3>1, Zenon
    <2>10. (ChkptSize - 1) + 1 = ChkptSize
      OBVIOUS
    <2>4. /\ r \in Records /\ r.cand = <<>> /\ r.last = h
          /\ r.curr = Append(k.curr, k.last) /\ r.lastIsCandidate
      BY <1>1, <2>1, <2>9 DEF Records, FreshShape
    <2>5. RunFrom(r.curr, b - ChkptSize, ChkptSize)
      BY <2>4, <2>9, <2>10, Zenon
    <2> HIDE DEF r
    <2>6. CandidateShape(r, b) /\ r.last # None
      <3>1. Len(r.cand) = 0 /\ RunFrom(r.cand, b, 0) /\ Len(r.cand) + 1 < ChkptSize
        BY <2>4 DEF RunFrom
      <3>2. r.last = b + Len(r.cand) + 1 /\ r.last # None
        BY <2>1, <2>4, <3>1 DEF None
      <3> QED BY <2>5, <3>1, <3>2, Zenon DEF CandidateShape
    <2>7. Shape(r, b, first)
      BY <1>1, <2>4, <2>6 DEF Shape
    <2> QED BY <2>2, <2>3, <2>4, <2>7, Zenon DEF Kept
  <1> QED BY <1>1, <1>2, <1>3

\* EndBootstrapPhase moves the newest header into the last node.
LEMMA EndBootstrapKeeps ==
    ASSUME NEW k \in Records, NEW b \in Nat, NEW first \in BOOLEAN,
           Shape(k, b, first), k.last = None, k.cand = <<>>, k.curr # <<>>,
           ~first => b >= StartBlk - 1 + ChkptSize
    PROVE  AfterEndBootstrap(k) \in Records /\ Shape(AfterEndBootstrap(k), b, first)
  <1> DEFINE r == AfterEndBootstrap(k)
  <1>1. /\ k.curr \in Seq(Nat) /\ ~first
        /\ RunFrom(k.curr, b - ChkptSize, ChkptSize)
    BY DEF Records, Shape, BootShape
  <1>2. Len(k.curr) = ChkptSize /\ k.curr[ChkptSize] = b /\ b # None
    <2>1. b >= ChkptSize
      BY <1>1
    <2>2. k.curr[ChkptSize] = b - ChkptSize + ChkptSize /\ Len(k.curr) = ChkptSize
      BY <1>1 DEF RunFrom
    <2> QED BY <2>1, <2>2 DEF None
  <1>3. [i \in 1..(ChkptSize - 1) |-> k.curr[i]] \in Seq(Nat)
    <2>1. \A i \in 1..(ChkptSize - 1) : k.curr[i] \in Nat
      BY <1>1, <1>2
    <2> QED BY <2>1
  <1>4. /\ r \in Records /\ r.cand = <<>> /\ r.last = b /\ ~r.lastIsCandidate
        /\ r.curr = [i \in 1..(ChkptSize - 1) |-> k.curr[i]]
    BY <1>2, <1>3 DEF Records, AfterEndBootstrap
  <1>5. RunFrom(r.curr, b - ChkptSize, ChkptSize - 1)
    BY <1>1, <1>3, <1>4 DEF RunFrom
  <1> HIDE DEF r
  <1>6. FreshShape(r, b)
    BY <1>4, <1>5 DEF FreshShape
  <1>7. Shape(r, b, first)
    BY <1>1, <1>2, <1>4, <1>6 DEF Shape
  <1> QED BY <1>4, <1>7 DEF r

-----------------------------------------------------------------------------
\* An empty manager satisfies the invariant.
LEMMA InitInv == Init => Inv
  <1> SUFFICES ASSUME Init PROVE Inv
    OBVIOUS
  <1>1. /\ chkpt.curr = <<>> /\ chkpt.cand = <<>> /\ chkpt.last = None
        /\ Checkpoint = StartBlk - 1 /\ NoneYet
    BY DEF Init, EmptyChkpt, Checkpoint, NoneYet
  <1>2. TypeOK
    BY DEF Init, EmptyChkpt, TypeOK, None
  <1>3. Base
    BY <1>1 DEF Base
  <1>4. BootShape(chkpt, Checkpoint, NoneYet)
    BY <1>1 DEF BootShape, RunFrom
  <1>5. Shape(chkpt, Checkpoint, NoneYet)
    BY <1>1, <1>4 DEF Shape
  <1> QED BY <1>2, <1>3, <1>5 DEF Inv

\* The next header is the one after the checkpoint and the candidates.
LEMMA NextBlkFollows ==
    ASSUME Inv
    PROVE  /\ chkpt \in Records /\ Checkpoint \in Nat
           /\ GetNumOfCandidates(chkpt) \in Nat
           /\ GetNumOfCandidates(chkpt) < ChkptSize
           /\ NextBlk \in Nat /\ NextBlk = Checkpoint + GetNumOfCandidates(chkpt) + 1
           /\ IterateCurrWindow(chkpt) \subseteq Nat
           /\ IterateCurrWindow(chkpt) =
                IF NoneYet THEN {} ELSE (Checkpoint - ChkptSize + 1)..Checkpoint
           /\ (chkpt.curr = <<>>) <=> NoneYet
           /\ ~NoneYet => RangeEnd(chkpt) = Checkpoint
           /\ (IF IsEmpty(chkpt) THEN StartBlk - 1 ELSE GetLastHeader(chkpt))
                = Checkpoint + GetNumOfCandidates(chkpt)
  <1>1. /\ chkpt \in Records /\ Checkpoint \in Nat /\ NoneYet \in BOOLEAN
        /\ Shape(chkpt, Checkpoint, NoneYet)
        /\ NoneYet => Checkpoint = StartBlk - 1
        /\ ~NoneYet => Checkpoint >= StartBlk - 1 + ChkptSize
    BY DEF Inv, TypeOK, Base, Records, NoneYet
  <1> DEFINE c == Checkpoint
             f == NoneYet
  <1>2. /\ GetNumOfCandidates(chkpt) \in Nat /\ GetNumOfCandidates(chkpt) < ChkptSize
        /\ IterateCurrWindow(chkpt) = IF f THEN {} ELSE (c - ChkptSize + 1)..c
        /\ (chkpt.curr = <<>>) <=> f
        /\ ~f => RangeEnd(chkpt) = c
        /\ (IF IsEmpty(chkpt) THEN StartBlk - 1 ELSE GetLastHeader(chkpt))
             = c + GetNumOfCandidates(chkpt)
    <2> HIDE DEF c, f
    <2>1. c \in Nat /\ f \in BOOLEAN /\ Shape(chkpt, c, f)
      BY <1>1 DEF c, f
    <2>2. (f => c = StartBlk - 1) /\ (~f => c >= StartBlk - 1 + ChkptSize)
      BY <1>1 DEF c, f
    <2> QED BY <1>1, <2>1, <2>2, Views
  <1>3. IterateCurrWindow(chkpt) \subseteq Nat
    BY <1>1, <1>2
  <1>4. NextBlk = (IF IsEmpty(chkpt) THEN StartBlk - 1 ELSE GetLastHeader(chkpt)) + 1
    BY DEF NextBlk
  <1>5. NextBlk \in Nat /\ NextBlk = Checkpoint + GetNumOfCandidates(chkpt) + 1
    BY <1>1, <1>2, <1>4
  <1> QED BY <1>1, <1>2, <1>3, <1>5

\* Whatever the operation did with it, the added header is the newest.
LEMMA AddHeaderLast ==
    ASSUME NEW k \in Records, NEW h \in Nat, k.last = None
    PROVE  ~IsEmpty(AfterAddHeader(k, h)) /\ GetLastHeader(AfterAddHeader(k, h)) = h
  <1> DEFINE added == [k EXCEPT !.cand = Append(k.cand, h)]
             moved == [added EXCEPT !.curr = added.cand, !.cand = <<>>]
             s == Append(k.cand, h)
  <1>1. k.cand \in Seq(Nat) /\ k.curr \in Seq(Nat)
    BY DEF Records
  <1>2. s # <<>> /\ s[Len(s)] = h
    BY <1>1
  <1>3. AfterAddHeader(k, h) = moved \/ AfterAddHeader(k, h) = added
    BY DEF AfterAddHeader
  <1>4. added.cand = s /\ added.last = None
    BY DEF Records
  <1>5. moved.cand = <<>> /\ moved.curr = s /\ moved.last = None
    BY DEF Records
  <1> HIDE DEF added, moved, s
  <1>6. ~IsEmpty(added) /\ GetLastHeader(added) = h
    BY <1>2, <1>4 DEF IsEmpty, GetLastHeader
  <1>7. ~IsEmpty(moved) /\ GetLastHeader(moved) = h
    BY <1>2, <1>5 DEF IsEmpty, GetLastHeader
  <1> QED BY <1>3, <1>6, <1>7

\* The same for a header that becomes the last node.
LEMMA AddNodeLast ==
    ASSUME NEW k \in Records, NEW h \in Nat, h # None
    PROVE  ~IsEmpty(AfterAddNode(k, h)) /\ GetLastHeader(AfterAddNode(k, h)) = h
  <1>1. AfterAddNode(k, h).last = h
    BY DEF AfterAddNode, Retired, Records
  <1> QED BY <1>1 DEF IsEmpty, GetLastHeader

\* Both ways of adding a header: the invariant is kept, the header becomes the
\* newest, and the checkpoint moves to it exactly when the window completes.
Moves ==
    /\ ~IsEmpty(chkpt)' /\ GetLastHeader(chkpt)' = NextBlk
    /\ IF HeaderCompletes(chkpt)
         THEN Checkpoint' = NextBlk /\ NextBlk = Checkpoint + ChkptSize /\ ~NoneYet'
         ELSE Checkpoint' = Checkpoint /\ (NoneYet' <=> NoneYet)

\* The completion callback moves the security state exactly when the window moved.
LEMMA FinishKeeps ==
    ASSUME Inv, NEW after,
           Kept(chkpt, after, Checkpoint, NoneYet, NextBlk),
           ~IsEmpty(after), GetLastHeader(after) = NextBlk,
           Finish(HeaderCompletes(chkpt), after)
    PROVE  Inv' /\ Moves
  <1>1. chkpt' = after /\ after \in Records
    BY DEF Finish, Kept
  <1>2. /\ NextBlk \in Nat /\ Checkpoint \in Nat
        /\ secState \in [checkpointNum : Nat, checkpointIter : Nat]
        /\ minDiff \subseteq Nat
    BY NextBlkFollows DEF Inv, TypeOK
  <1>3. ~IsEmpty(chkpt)' /\ GetLastHeader(chkpt)' = NextBlk
    BY <1>1 DEF IsEmpty, GetLastHeader
  <1>4. CASE HeaderCompletes(chkpt)
    <2>1. /\ secState' = [checkpointNum |-> NextBlk,
                          checkpointIter |-> secState.checkpointIter + 1]
          /\ minDiff' = OnChkptUpd(after)
          /\ NextBlk = Checkpoint + ChkptSize /\ Shape(after, NextBlk, FALSE)
      BY <1>4 DEF Finish, OnCheckpointComplete, CompletedState, Kept
    <2>2. Checkpoint' = NextBlk /\ NoneYet' = FALSE
      BY <1>2, <2>1 DEF Checkpoint, NoneYet
    <2>3. NextBlk >= StartBlk - 1 + ChkptSize
      BY <1>2, <2>1 DEF Inv, Base
    <2>4. IterateCurrWindow(after) = (NextBlk - ChkptSize + 1)..NextBlk
      <3> DEFINE h == NextBlk
                 f == FALSE
      <3>1. h \in Nat /\ f \in BOOLEAN /\ ~f /\ Shape(after, h, f)
              /\ h >= StartBlk - 1 + ChkptSize
        BY <1>2, <2>1, <2>3
      <3> HIDE DEF h, f
      <3>2. IterateCurrWindow(after) = IF f THEN {} ELSE (h - ChkptSize + 1)..h
        BY <1>1, <3>1, Views
      <3> QED BY <3>2 DEF f, h
    <2>5. minDiff' \subseteq Nat
      BY <1>2, <2>1, <2>3, <2>4 DEF OnChkptUpd
    <2>6. TypeOK'
      BY <1>1, <1>2, <2>1, <2>5 DEF TypeOK, Records
    <2>7. Base'
      BY <1>2, <2>2, <2>3 DEF Base
    <2>8. Shape(chkpt, Checkpoint, NoneYet)'
      BY <1>1, <2>1, <2>2 DEF Shape, BootShape, CandidateShape, FreshShape, RunFrom
    <2> QED BY <1>3, <1>4, <2>1, <2>2, <2>6, <2>7, <2>8 DEF Inv, Moves
  <1>5. CASE ~HeaderCompletes(chkpt)
    <2>1. /\ UNCHANGED <<secState, minDiff>> /\ Shape(after, Checkpoint, NoneYet)
      BY <1>5 DEF Finish, Kept
    <2>2. Checkpoint' = Checkpoint /\ NoneYet' = NoneYet
      BY <2>1 DEF Checkpoint, NoneYet
    <2>3. TypeOK'
      BY <1>1, <1>2, <2>1 DEF TypeOK, Records
    <2>4. Base'
      BY <2>2 DEF Base, Inv
    <2>5. Shape(chkpt, Checkpoint, NoneYet)'
      BY <1>1, <2>1, <2>2 DEF Shape, BootShape, CandidateShape, FreshShape, RunFrom
    <2> QED BY <1>3, <1>5, <2>2, <2>3, <2>4, <2>5 DEF Inv, Moves
  <1> QED BY <1>4, <1>5

\* One added header is one arrival at the abstract window.
LEMMA AddMoves ==
    ASSUME Inv, AddHeader \/ AddNode
    PROVE  Inv' /\ Moves
  <1>1. /\ chkpt \in Records /\ Checkpoint \in Nat /\ NextBlk \in Nat
        /\ NextBlk = Checkpoint + GetNumOfCandidates(chkpt) + 1
        /\ GetNumOfCandidates(chkpt) \in Nat
        /\ Shape(chkpt, Checkpoint, NoneYet) /\ NoneYet \in BOOLEAN
    BY NextBlkFollows DEF Inv, NoneYet
  <1> DEFINE c == Checkpoint
             f == NoneYet
             h == NextBlk
  <1>2. /\ c \in Nat /\ f \in BOOLEAN /\ h \in Nat /\ Shape(chkpt, c, f)
        /\ h = c + GetNumOfCandidates(chkpt) + 1
    BY <1>1
  <1>3. h # None
    BY <1>1 DEF None
  <1>4. CASE AddHeader
    <2>1. /\ chkpt.last = None
          /\ Finish(HeaderCompletes(chkpt), AfterAddHeader(chkpt, h))
      BY <1>4 DEF AddHeader
    <2> HIDE DEF c, f, h
    <2>2. Kept(chkpt, AfterAddHeader(chkpt, h), c, f, h)
      BY <1>1, <1>2, <2>1, AddHeaderKeeps
    <2>3. ~IsEmpty(AfterAddHeader(chkpt, h)) /\ GetLastHeader(AfterAddHeader(chkpt, h)) = h
      BY <1>1, <1>2, <2>1, AddHeaderLast
    <2> QED BY <2>1, <2>2, <2>3, FinishKeeps, Zenon DEF c, f, h
  <1>5. CASE AddNode
    <2>1. /\ chkpt.last # None
          /\ Finish(HeaderCompletes(chkpt), AfterAddNode(chkpt, h))
      BY <1>5 DEF AddNode
    <2> HIDE DEF c, f, h
    <2>2. Kept(chkpt, AfterAddNode(chkpt, h), c, f, h)
      BY <1>1, <1>2, <2>1, AddNodeKeeps
    <2>3. ~IsEmpty(AfterAddNode(chkpt, h)) /\ GetLastHeader(AfterAddNode(chkpt, h)) = h
      BY <1>1, <1>2, <1>3, AddNodeLast
    <2> QED BY <2>1, <2>2, <2>3, FinishKeeps, Zenon DEF c, f, h
  <1> QED BY <1>4, <1>5

\* The end of bootstrap keeps the invariant and does not show in the abstract window.
LEMMA EndBootstrapInv ==
    ASSUME Inv, EndBootstrapPhase
    PROVE  Inv' /\ Checkpoint' = Checkpoint /\ NoneYet' = NoneYet
  <1>1. /\ chkpt \in Records /\ Checkpoint \in Nat /\ NoneYet \in BOOLEAN
        /\ Shape(chkpt, Checkpoint, NoneYet)
        /\ ~NoneYet => Checkpoint >= StartBlk - 1 + ChkptSize
    BY NextBlkFollows DEF Inv, NoneYet, Base
  <1>2. /\ chkpt.last = None /\ chkpt.cand = <<>> /\ chkpt.curr # <<>>
        /\ chkpt' = AfterEndBootstrap(chkpt) /\ UNCHANGED <<secState, minDiff>>
    BY DEF EndBootstrapPhase
  <1>3. Checkpoint' = Checkpoint /\ NoneYet' = NoneYet
    BY <1>2 DEF Checkpoint, NoneYet
  <1> DEFINE c == Checkpoint
             f == NoneYet
             r == AfterEndBootstrap(chkpt)
  <1>4. r \in Records /\ Shape(r, c, f)
    <2>1. /\ c \in Nat /\ f \in BOOLEAN /\ Shape(chkpt, c, f)
          /\ ~f => c >= StartBlk - 1 + ChkptSize
      BY <1>1
    <2> HIDE DEF c, f
    <2> QED BY <1>1, <1>2, <2>1, EndBootstrapKeeps
  <1>5. Shape(chkpt, Checkpoint, NoneYet)'
    BY <1>2, <1>3, <1>4 DEF Shape, BootShape, CandidateShape, FreshShape, RunFrom
  <1>6. TypeOK'
    BY <1>2, <1>4 DEF TypeOK, Records, Inv
  <1>7. Base'
    BY <1>3 DEF Base, Inv
  <1> QED BY <1>3, <1>5, <1>6, <1>7 DEF Inv

\* Every step keeps the invariant.
LEMMA NextInv == Inv /\ [Next]_vars => Inv'
  <1> SUFFICES ASSUME Inv, [Next]_vars PROVE Inv'
    OBVIOUS
  <1>1. CASE AddHeader \/ AddNode
    BY <1>1, AddMoves
  <1>2. CASE EndBootstrapPhase
    BY <1>2, EndBootstrapInv
  <1>3. CASE UNCHANGED vars
    BY <1>3 DEF vars, Inv, TypeOK, Base, Shape, BootShape, CandidateShape,
                FreshShape, RunFrom, Checkpoint, NoneYet
  <1> QED BY <1>1, <1>2, <1>3 DEF Next

\* The manager's state always has the shape above.
LEMMA InvAlways == Spec => []Inv
  BY InitInv, NextInv, PTL DEF Spec
-----------------------------------------------------------------------------
\* CheckpointMgr's windows and the security state keep their types.
THEOREM TypeCorrect == Spec => []TypeOK
  <1>1. Inv => TypeOK
    BY DEF Inv
  <1> QED BY <1>1, InvAlways, PTL

\* The current window, wherever AddHeader, EndBootstrapPhase and AddNode keep
\* its headers, always holds the ChkptSize headers up to the checkpoint.
THEOREM WindowAlwaysLatest == Spec => []WindowIsLatestCheckpoint
  <1>1. Inv => WindowIsLatestCheckpoint
    BY NextBlkFollows DEF WindowIsLatestCheckpoint
  <1> QED BY <1>1, InvAlways, PTL

\* GetCheckpointBlkNumRange, computed from the first header only, always ends
\* at the checkpoint.
THEOREM RangeAlwaysAtCheckpoint == Spec => []RangeEndsAtCheckpoint
  <1>1. Inv => RangeEndsAtCheckpoint
    BY NextBlkFollows DEF RangeEndsAtCheckpoint
  <1> QED BY <1>1, InvAlways, PTL

\* The candidates are always the headers after the checkpoint, in order, and
\* fewer than a window.
THEOREM CandidatesAlwaysFollow == Spec => []CandidatesFollow
  <1>1. ASSUME Inv PROVE CandidatesFollow
    <2>1. /\ chkpt \in Records /\ Checkpoint \in Nat
          /\ GetNumOfCandidates(chkpt) < ChkptSize
      BY <1>1, NextBlkFollows
    <2>2. chkpt.cand \in Seq(Nat) /\ Len(chkpt.cand) \in Nat
      BY <2>1 DEF Records
    <2>3. CASE chkpt.last = None
      <3>1. BootShape(chkpt, Checkpoint, NoneYet)
        BY <1>1, <2>3 DEF Inv, Shape
      <3> QED BY <2>1, <2>3, <3>1 DEF BootShape, RunFrom, CandidatesFollow
    <2>4. CASE chkpt.last # None /\ chkpt.lastIsCandidate
      <3>1. CandidateShape(chkpt, Checkpoint)
        BY <1>1, <2>4 DEF Inv, Shape
      <3>2. GetNumOfCandidates(chkpt) = Len(chkpt.cand) + 1
        BY <2>4 DEF GetNumOfCandidates
      <3>3. chkpt.last = Checkpoint + GetNumOfCandidates(chkpt)
        BY <2>1, <2>2, <3>1, <3>2 DEF CandidateShape
      <3> QED BY <2>1, <3>1, <3>3 DEF CandidateShape, RunFrom, CandidatesFollow
    <2>5. CASE chkpt.last # None /\ ~chkpt.lastIsCandidate
      <3>1. FreshShape(chkpt, Checkpoint)
        BY <1>1, <2>5 DEF Inv, Shape
      <3>2. GetNumOfCandidates(chkpt) = 0
        BY <2>5, <3>1 DEF GetNumOfCandidates, FreshShape
      <3> QED BY <2>1, <3>1, <3>2 DEF FreshShape, CandidatesFollow
    <2> QED BY <2>3, <2>4, <2>5
  <1> QED BY <1>1, InvAlways, PTL

\* checkpointIter counts the completed windows.
THEOREM IterAlwaysCounts == Spec => []IterCountsWindows
  <1>1. Init => IterCountsWindows
    BY DEF Init, IterCountsWindows, Checkpoint
  <1>2. ASSUME Inv, IterCountsWindows, [Next]_vars PROVE IterCountsWindows'
    <2>0. secState.checkpointIter \in Nat /\ Checkpoint \in Nat
      BY <1>2 DEF Inv, TypeOK, Base
    <2>1. CASE AddHeader \/ AddNode
      <3>1. Moves
        BY <1>2, <2>1, AddMoves
      <3>2. CASE HeaderCompletes(chkpt)
        <4>1. Checkpoint' = Checkpoint + ChkptSize
          BY <3>1, <3>2 DEF Moves
        <4>2. secState'.checkpointIter = secState.checkpointIter + 1
          BY <2>1, <3>2 DEF AddHeader, AddNode, Finish, OnCheckpointComplete,
                            CompletedState
        <4>3. ChkptSize * (secState.checkpointIter + 1)
                = ChkptSize * secState.checkpointIter + ChkptSize
          BY <2>0
        <4>4. Checkpoint = StartBlk - 1 + ChkptSize * secState.checkpointIter
          BY <1>2 DEF IterCountsWindows
        <4>5. ChkptSize * secState.checkpointIter \in Nat
          BY <2>0
        <4> QED BY <2>0, <4>1, <4>2, <4>3, <4>4, <4>5 DEF IterCountsWindows
      <3>3. CASE ~HeaderCompletes(chkpt)
        <4>1. Checkpoint' = Checkpoint /\ secState' = secState
          BY <2>1, <3>1, <3>3 DEF Moves, AddHeader, AddNode, Finish
        <4> QED BY <1>2, <4>1 DEF IterCountsWindows
      <3> QED BY <3>2, <3>3
    <2>2. CASE EndBootstrapPhase \/ UNCHANGED vars
      <3>1. secState' = secState
        BY <2>2 DEF EndBootstrapPhase, vars
      <3> QED BY <1>2, <3>1 DEF IterCountsWindows, Checkpoint
    <2> QED BY <1>2, <2>1, <2>2 DEF Next
  <1> QED BY <1>1, <1>2, InvAlways, PTL DEF Spec

Window ==
    IterateCurrWindow(chkpt) =
        IF NoneYet THEN {} ELSE (Checkpoint - ChkptSize + 1)..Checkpoint

\* The invariant determines the current window.
LEMMA WindowView == Inv => Window
  BY NextBlkFollows DEF Window

\* The manager implements CheckpointWindow: headers arrive one by one and every
\* ChkptSize of them become the window; ending the bootstrap phase, which moves
\* a header out of the window into the last node, does not show.
THEOREM ManagerImplementsWindow == Spec => ImplementsWindow
  <1> DEFINE newest == IF IsEmpty(chkpt) THEN StartBlk - 1 ELSE GetLastHeader(chkpt)
             win == IterateCurrWindow(chkpt)
  <1>1. Init => Abstract!Init
    <2> SUFFICES ASSUME Init PROVE Abstract!Init
      OBVIOUS
    <2>1. Inv /\ NoneYet /\ Checkpoint = StartBlk - 1 /\ IsEmpty(chkpt)
      BY InitInv DEF Init, EmptyChkpt, NoneYet, Checkpoint, IsEmpty
    <2>2. win = {}
      BY <2>1, NextBlkFollows
    <2> QED BY <2>1, <2>2 DEF Abstract!Init
  <1>2. ASSUME Inv, [Next]_vars
        PROVE  [Abstract!Arrive]_<<newest, win, Checkpoint>>
    <2>1. /\ newest = Checkpoint + GetNumOfCandidates(chkpt)
          /\ win = IF NoneYet THEN {} ELSE (Checkpoint - ChkptSize + 1)..Checkpoint
          /\ GetNumOfCandidates(chkpt) \in Nat /\ Checkpoint \in Nat
          /\ GetNumOfCandidates(chkpt) < ChkptSize
          /\ NextBlk = Checkpoint + GetNumOfCandidates(chkpt) + 1
      BY <1>2, NextBlkFollows
    <2>2. Inv'
      BY <1>2, NextInv
    <2>3. win' = IF NoneYet' THEN {} ELSE (Checkpoint' - ChkptSize + 1)..Checkpoint'
      <3>1. Window'
        BY <2>2, WindowView, PTL
      <3> QED BY <3>1 DEF Window
    <2>4. CASE AddHeader \/ AddNode
      <3>1. Moves
        BY <1>2, <2>4, AddMoves
      <3>2. newest' = NextBlk /\ newest' = newest + 1
        BY <2>1, <3>1 DEF Moves
      <3>3. HeaderCompletes(chkpt) <=> newest + 1 = Checkpoint + ChkptSize
        BY <2>1 DEF HeaderCompletes, Completes
      <3>4. CASE HeaderCompletes(chkpt)
        <4>1. Checkpoint' = NextBlk /\ NextBlk = Checkpoint + ChkptSize /\ ~NoneYet'
          BY <3>1, <3>4 DEF Moves
        <4>2. win' = (Checkpoint + 1)..(newest + 1)
          BY <2>1, <2>3, <3>2, <4>1
        <4> HIDE DEF win, newest
        <4> QED BY <3>2, <3>3, <3>4, <4>1, <4>2 DEF Abstract!Arrive, win, newest
      <3>5. CASE ~HeaderCompletes(chkpt)
        <4>1. Checkpoint' = Checkpoint /\ win' = win
          BY <2>1, <2>3, <3>1, <3>5 DEF Moves
        <4> QED BY <3>2, <3>3, <3>5, <4>1 DEF Abstract!Arrive
      <3> QED BY <3>4, <3>5
    <2>5. CASE EndBootstrapPhase
      <3>1. Checkpoint' = Checkpoint /\ NoneYet' = NoneYet
        BY <1>2, <2>5, EndBootstrapInv
      <3>2. win' = win
        BY <2>1, <2>3, <3>1
      <3>3. /\ newest = chkpt.curr[Len(chkpt.curr)]
            /\ chkpt'.last = chkpt.curr[Len(chkpt.curr)]
        BY <1>2, <2>5 DEF EndBootstrapPhase, AfterEndBootstrap, IsEmpty,
                          GetLastHeader, Inv, TypeOK
      <3>4. chkpt'.last # None
        <4>1. ~NoneYet
          BY <1>2, <2>5, NextBlkFollows DEF EndBootstrapPhase
        <4>2. Checkpoint >= ChkptSize
          BY <1>2, <2>1, <4>1 DEF Inv, Base
        <4> QED BY <2>1, <3>3, <4>2 DEF None
      <3>5. newest' = newest
        BY <3>3, <3>4 DEF IsEmpty, GetLastHeader
      <3> QED BY <3>1, <3>2, <3>5
    <2>6. CASE UNCHANGED vars
      BY <2>6 DEF vars, IsEmpty, GetLastHeader, IterateCurrWindow, Checkpoint
    <2> QED BY <1>2, <2>4, <2>5, <2>6 DEF Next
  <1> QED BY <1>1, <1>2, InvAlways, PTL DEF Spec, ImplementsWindow, Abstract!Spec
-----------------------------------------------------------------------------
(***************************************************************************)
(* The minimum difficulty.                                                 *)
(***************************************************************************)
\* Division by its defining inequalities.
LEMMA DivUnique ==
    ASSUME NEW a \in Nat, NEW s \in Nat \ {0}, NEW q \in Nat, s * q <= a, a < s * q + s
    PROVE  a \div s = q
  <1> DEFINE d == a \div s
  <1>1. d \in Int /\ s * d <= a /\ a < s * d + s
    OBVIOUS
  <1> HIDE DEF d
  <1>2. CASE d < q
    <2>1. d + 1 <= q
      BY <1>1, <1>2
    <2>2. s * (d + 1) <= s * q
      BY <1>1, <2>1
    <2>3. s * (d + 1) = s * d + s
      BY <1>1
    <2> QED BY <1>1, <2>2, <2>3
  <1>3. CASE q < d
    <2>1. q + 1 <= d
      BY <1>1, <1>3
    <2>2. s * (q + 1) <= s * d
      BY <1>1, <2>1
    <2>3. s * (q + 1) = s * q + s
      BY <1>1
    <2> QED BY <1>1, <2>2, <2>3
  <1> QED BY <1>1, <1>2, <1>3 DEF d

RangeView == ~NoneYet => RangeEnd(chkpt) = Checkpoint

\* The invariant determines the range by which the difficulty checker is chosen.
LEMMA RangeFromInv == Inv => RangeView
  BY NextBlkFollows DEF RangeView

\* The last whole window of proof-of-work blocks.
PoWWindow ==
    LET k == (ParisBlk - StartBlk) \div ChkptSize
        end == StartBlk - 1 + k * ChkptSize
    IN IF ParisBlk < StartBlk \/ k = 0 THEN {} ELSE (end - ChkptSize + 1)..end

\* When the next checkpoint is past the merge, the current window is that one.
LEMMA LastPoWWindow ==
    ASSUME Inv, IterCountsWindows, Checkpoint < ParisBlk, ParisBlk <= Checkpoint + ChkptSize
    PROVE  IterateCurrWindow(chkpt) = PoWWindow
  <1> DEFINE n == secState.checkpointIter
             p == ChkptSize * n
  <1>1. /\ n \in Nat /\ Checkpoint \in Nat /\ Checkpoint = StartBlk - 1 + p
        /\ IterateCurrWindow(chkpt) =
             IF n = 0 THEN {} ELSE (Checkpoint - ChkptSize + 1)..Checkpoint
    BY NextBlkFollows DEF Inv, TypeOK, IterCountsWindows, NoneYet
  <1>2. p \in Nat /\ n * ChkptSize = p
    BY <1>1
  <1>3. /\ ParisBlk - StartBlk \in Nat /\ p <= ParisBlk - StartBlk
        /\ ParisBlk - StartBlk < p + ChkptSize
    <2> HIDE DEF p
    <2> QED BY <1>1, <1>2
  <1>4. (ParisBlk - StartBlk) \div ChkptSize = n
    <2> DEFINE a == ParisBlk - StartBlk
    <2>1. a \in Nat /\ ChkptSize * n <= a /\ a < ChkptSize * n + ChkptSize /\ ChkptSize \in Nat \ {0}
      BY <1>3
    <2> HIDE DEF a, n
    <2>2. a \div ChkptSize = n
      BY <1>1, <2>1, DivUnique
    <2> QED BY <2>2 DEF a
  <1>5. StartBlk - 1 + n * ChkptSize = Checkpoint /\ ~(ParisBlk < StartBlk)
    BY <1>1, <1>2, <1>3
  <1> HIDE DEF n
  <1> QED BY <1>1, <1>4, <1>5 DEF PoWWindow

\* The median that the proof-of-work checker compares with always comes from the
\* latest whole window of proof-of-work blocks, although OnChkptUpd chooses the
\* checker by the window's range alone.
THEOREM MinDiffAlwaysLatestPoW == Spec => []MinDiffFromLatestPoW
  <1>1. Init => MinDiffFromLatestPoW
    <2> SUFFICES ASSUME Init PROVE MinDiffFromLatestPoW
      OBVIOUS
    <2>1. minDiff = {} /\ Checkpoint = StartBlk - 1 /\ IterateCurrWindow(chkpt) = {}
      BY DEF Init, EmptyChkpt, Checkpoint, IterateCurrWindow
    <2>2. CASE Checkpoint < ParisBlk
      BY <2>1, <2>2 DEF MinDiffFromLatestPoW
    <2>3. CASE ~(Checkpoint < ParisBlk)
      <3>1. ParisBlk < StartBlk
        BY <2>1, <2>3
      <3> QED BY <2>1, <2>3, <3>1 DEF MinDiffFromLatestPoW
    <2> QED BY <2>2, <2>3
  <1>2. MinDiffFromLatestPoW <=>
          minDiff = IF Checkpoint < ParisBlk THEN IterateCurrWindow(chkpt) ELSE PoWWindow
    BY DEF MinDiffFromLatestPoW, PoWWindow
  <1>9. MinDiffFromLatestPoW' <=>
          minDiff' = IF Checkpoint' < ParisBlk THEN IterateCurrWindow(chkpt') ELSE PoWWindow
    BY DEF MinDiffFromLatestPoW, PoWWindow
  <1>3. ASSUME Inv, IterCountsWindows, MinDiffFromLatestPoW, [Next]_vars
        PROVE  MinDiffFromLatestPoW'
    <2>0. Inv' /\ Window' /\ RangeView' /\ Checkpoint \in Nat
      <3>1. Inv'
        BY <1>3, NextInv
      <3>2. Window'
        BY <3>1, WindowView, PTL
      <3>3. RangeView'
        BY <3>1, RangeFromInv, PTL
      <3> QED BY <1>3, <3>1, <3>2, <3>3 DEF Inv, Base
    <2>1. minDiff = IF Checkpoint < ParisBlk THEN IterateCurrWindow(chkpt) ELSE PoWWindow
      BY <1>2, <1>3
    <2>2. CASE UNCHANGED vars
      <3>1. minDiff' = minDiff /\ Checkpoint' = Checkpoint /\ chkpt' = chkpt
        BY <2>2 DEF vars, Checkpoint
      <3> QED BY <1>9, <2>1, <3>1
    <2>3. CASE EndBootstrapPhase
      <3>1. minDiff' = minDiff /\ Checkpoint' = Checkpoint /\ NoneYet' = NoneYet
        BY <1>3, <2>3, EndBootstrapInv DEF EndBootstrapPhase
      <3>2. IterateCurrWindow(chkpt') = IterateCurrWindow(chkpt)
        BY <1>3, <2>0, <3>1, NextBlkFollows DEF Window
      <3> QED BY <1>9, <2>1, <3>1, <3>2
    <2>4. CASE AddHeader \/ AddNode
      <3>1. Moves
        BY <1>3, <2>4, AddMoves
      <3>2. CASE ~HeaderCompletes(chkpt)
        <4>1. minDiff' = minDiff /\ Checkpoint' = Checkpoint /\ (NoneYet' <=> NoneYet)
          BY <2>4, <3>1, <3>2 DEF Moves, AddHeader, AddNode, Finish
        <4>2. IterateCurrWindow(chkpt') = IterateCurrWindow(chkpt)
          BY <1>3, <2>0, <4>1, NextBlkFollows DEF Window
        <4> QED BY <1>9, <2>1, <4>1, <4>2
      <3>3. CASE HeaderCompletes(chkpt)
        <4>1. Checkpoint' = Checkpoint + ChkptSize /\ ~NoneYet'
          BY <3>1, <3>3 DEF Moves
        <4>2. minDiff' = IF RangeEnd(chkpt') >= ParisBlk THEN minDiff ELSE IterateCurrWindow(chkpt')
          BY <2>4, <3>3 DEF AddHeader, AddNode, Finish, OnCheckpointComplete, OnChkptUpd
        <4>3. RangeEnd(chkpt') = Checkpoint'
          BY <2>0, <4>1 DEF RangeView
        <4>4. CASE Checkpoint' < ParisBlk
          BY <1>9, <2>0, <4>1, <4>2, <4>3, <4>4
        <4>5. CASE ~(Checkpoint' < ParisBlk)
          <5>1. minDiff' = minDiff
            BY <2>0, <4>1, <4>2, <4>3, <4>5
          <5>2. CASE Checkpoint < ParisBlk
            <6>1. IterateCurrWindow(chkpt) = PoWWindow
              BY <1>3, <2>0, <4>1, <4>5, <5>2, LastPoWWindow
            <6> QED BY <1>9, <2>1, <4>5, <5>1, <5>2, <6>1
          <5>3. CASE ~(Checkpoint < ParisBlk)
            BY <1>9, <2>1, <4>5, <5>1, <5>3
          <5> QED BY <5>2, <5>3
        <4> QED BY <4>4, <4>5
      <3> QED BY <3>2, <3>3
    <2> QED BY <1>3, <2>2, <2>3, <2>4 DEF Next
  <1> QED BY <1>1, <1>3, InvAlways, IterAlwaysCounts, PTL DEF Spec
=============================================================================
