----------------------------- MODULE StreamProofs -----------------------------
(***************************************************************************)
(* Proofs about a stream, for every value of the constants: what push and  *)
(* pop do to a waiting list that is sorted; the inductive invariant        *)
(* StreamInv, which says what the waiting list looks like between two      *)
(* messages; that the next message goes out at once; and, while            *)
(* identifiers do not wrap, that a stream implements OrderedDelivery,      *)
(* whatever is lost, repeated, reordered or given up, that what it loses   *)
(* was passed over, and that what it holds waits for one still missing,    *)
(* not too long, and is counted right.                                     *)
(*                                                                         *)
(* HeadNotReady alone is not inductive: that pop leaves a gap at the head  *)
(* needs the list to be sorted with exactly its identifiers in idsMap, and *)
(* that 0 is never held.                                                   *)
(***************************************************************************)
EXTENDS Stream, FiniteSetTheorems, SequenceTheorems, WellFoundedInduction, TLAPS

-----------------------------------------------------------------------------
(* The waiting list *)

(* A non-empty set of naturals has a least element, and Min returns it. *)
LEMMA MinIsLeast ==
  ASSUME NEW S \in SUBSET Nat, S # {}
  PROVE  /\ Min(S) \in S
         /\ \A n \in S : Min(S) <= n
<1>1. \E x \in S : \A y \in S : ~(<<y, x>> \in OpToRel(<, Nat))
  BY NatLessThanWellFounded, WFMin
<1>2. PICK x \in S : \A y \in S : <<y, x>> \notin OpToRel(<, Nat)
  BY <1>1
<1>3. ASSUME NEW y \in S
      PROVE  x <= y
  <2>1. x \in Nat /\ y \in Nat
    OBVIOUS
  <2>2. y < x => <<y, x>> \in OpToRel(<, Nat)
    BY <2>1 DEF OpToRel
  <2>3. ~(y < x)
    BY <1>2, <2>2
  <2>4. QED
    BY <2>1, <2>3
<1>4. QED
  BY <1>3 DEF Min

(* The elements of a sequence with one inserted. *)
LEMMA InsertAtProperties ==
  ASSUME NEW S, NEW s \in Seq(S), NEW p \in 1 .. Len(s) + 1, NEW e \in S
  PROVE  /\ InsertAt(s, p, e) \in Seq(S)
         /\ Len(InsertAt(s, p, e)) = Len(s) + 1
         /\ \A i \in 1 .. Len(s) + 1 :
              InsertAt(s, p, e)[i] = IF i < p THEN s[i]
                                     ELSE IF i = p THEN e ELSE s[i - 1]
<1> DEFINE pre == SubSeq(s, 1, p - 1)
           post == SubSeq(s, p, Len(s))
<1>0. Len(s) \in Nat /\ p \in Int /\ p - 1 \in Int /\ \A i \in 1 .. Len(s) : s[i] \in S
  OBVIOUS
<1>1. /\ pre \in Seq(S) /\ Len(pre) = p - 1
      /\ \A i \in 1 .. p - 1 : pre[i] = s[i]
  BY <1>0, SubSeqProperties
<1>2. /\ post \in Seq(S) /\ Len(post) = Len(s) - p + 1
      /\ \A i \in 1 .. Len(s) - p + 1 : post[i] = s[p + i - 1]
  BY <1>0, SubSeqProperties
<1>3. <<e>> \in Seq(S) /\ Len(<<e>>) = 1 /\ <<e>>[1] = e
  OBVIOUS
<1> HIDE DEF pre, post
<1>4. /\ pre \o <<e>> \in Seq(S) /\ Len(pre \o <<e>>) = p
      /\ \A i \in 1 .. p : (pre \o <<e>>)[i] = IF i < p THEN s[i] ELSE e
  BY <1>0, <1>1, <1>3, ConcatProperties
<1>5. /\ (pre \o <<e>>) \o post \in Seq(S)
      /\ Len((pre \o <<e>>) \o post) = Len(s) + 1
      /\ \A i \in 1 .. Len(s) + 1 :
           ((pre \o <<e>>) \o post)[i] =
             IF i <= p THEN (pre \o <<e>>)[i] ELSE post[i - p]
  BY <1>0, <1>2, <1>4, ConcatProperties
<1>6. InsertAt(s, p, e) = (pre \o <<e>>) \o post
  BY DEF InsertAt, pre, post
<1>7. \A i \in 1 .. Len(s) + 1 :
        ((pre \o <<e>>) \o post)[i] = IF i < p THEN s[i]
                                      ELSE IF i = p THEN e ELSE s[i - 1]
  BY <1>0, <1>2, <1>4, <1>5
<1>8. QED
  BY <1>5, <1>6, <1>7

(* Identifiers, their successors and their distances are uint32. *)
LEMMA IdentifierType ==
  /\ \A m \in Messages : ID(m) \in Uint32
  /\ \A x \in Uint32 : Succ(x) \in Uint32
BY WaitingListAssumption DEF ID, Messages, Uint32, Succ

(* push puts a new identifier where it belongs in a sorted list, and finds a *)
(* place for it: the search by uint32 distance is a search by identifier.    *)
LEMMA PositionIsSorted ==
  ASSUME NEW w, w.data \in Seq(Messages), Sorted(w.data), NEW m \in Messages,
         \A i \in 1 .. Len(w.data) : ID(w.data[i]) # ID(m)
  PROVE  /\ ~PushFails(w, m)
         /\ Position(w, m) \in 1 .. Len(w.data) + 1
         /\ \A i \in 1 .. Len(w.data) :
              IF i < Position(w, m) THEN ID(w.data[i]) < ID(m)
                                    ELSE ID(w.data[i]) > ID(m)
<1> DEFINE L == Len(w.data)
           id(i) == ID(w.data[i])
<1>1. L \in Nat /\ (w.data = <<>> <=> L = 0) /\ ID(m) \in Uint32
      /\ \A i \in 1 .. L : id(i) \in Uint32
  BY IdentifierType
<1>2. \A i, j \in 1 .. L : i < j => id(i) < id(j)
  BY DEF Sorted
<1>3. MaxUint32 \in Nat /\ Uint32 = 0 .. MaxUint32
  BY WaitingListAssumption DEF Uint32
<1>4. CASE AfterLast(w, m)
  <2>1. Position(w, m) = L + 1 /\ ~PushFails(w, m)
    BY <1>4 DEF Position, PushFails
  <2>2. \A i \in 1 .. L : id(i) < ID(m)
    BY <1>1, <1>2, <1>3, <1>4 DEF AfterLast
  <2>3. QED
    BY <1>1, <2>1, <2>2
<1>5. CASE ~AfterLast(w, m) /\ BeforeFirst(w, m)
  <2>1. Position(w, m) = 1 /\ ~PushFails(w, m)
    BY <1>5 DEF Position, PushFails
  <2>2. \A i \in 1 .. L : id(i) > ID(m)
    <3>1. L > 0
      BY <1>1, <1>5 DEF AfterLast
    <3>2. id(1) > ID(m)
      BY <1>5 DEF BeforeFirst
    <3>3. QED
      BY <1>1, <1>2, <1>3, <3>1, <3>2
  <2>3. QED
    BY <1>1, <1>3, <2>1, <2>2
<1>6. CASE ~AfterLast(w, m) /\ ~BeforeFirst(w, m)
  <2> DEFINE B == {i \in 1 .. L : id(i) > ID(m)}
             b == Min(B)
  <2>1. L > 0 /\ ~(id(1) > ID(m)) /\ ~(id(L) < ID(m))
    BY <1>1, <1>6 DEF AfterLast, BeforeFirst
  <2>2. L \in B /\ 1 \notin B /\ B \in SUBSET Nat
    BY <1>1, <1>3, <2>1
  <2>3. b \in B /\ \A i \in B : b <= i
    <3> HIDE DEF B
    <3> QED
      BY <2>2, MinIsLeast
  <2> HIDE DEF b
  <2>4. b \in 2 .. L /\ id(b) > ID(m)
    BY <2>2, <2>3
  <2>5. \A i \in 1 .. L : IF i < b THEN id(i) < ID(m) ELSE id(i) > ID(m)
    <3>1. ASSUME NEW i \in 1 .. L, i < b
          PROVE  id(i) < ID(m)
      BY <1>1, <1>3, <2>3, <2>4, <3>1
    <3>2. ASSUME NEW i \in 1 .. L, ~(i < b)
          PROVE  id(i) > ID(m)
      BY <1>1, <1>2, <1>3, <2>4, <3>2
    <3>3. QED
      BY <3>1, <3>2
  <2>6. Grows(w, m, b)
    <3>1. id(b) > ID(m) /\ id(b - 1) < ID(m) /\ b - 1 \in 1 .. L /\ b # 1
      BY <2>4, <2>5
    <3>2. /\ Minus(ID(m), id(b)) = ID(m) - id(b) + MaxUint32 + 1
          /\ Minus(ID(m), id(b - 1)) = ID(m) - id(b - 1)
      <4>1. id(b) \in Nat /\ id(b - 1) \in Nat /\ ID(m) \in Nat /\ MaxUint32 \in Nat
        BY <1>1, <1>3, <2>4, <3>1
      <4> HIDE DEF id
      <4>2. QED
        BY <3>1, <4>1 DEF Minus
    <3>3. ID(m) - id(b) + MaxUint32 + 1 > ID(m) - id(b - 1)
      BY <1>1, <1>3, <2>4, <3>1
    <3>4. QED
      BY <3>1, <3>2, <3>3 DEF Grows
  <2>7. ASSUME NEW i \in 1 .. L, i < b
        PROVE  ~Grows(w, m, i)
    <3>1. Minus(ID(m), id(i)) = ID(m) - id(i)
      BY <1>1, <1>3, <2>5, <2>7 DEF Minus
    <3>2. CASE i = 1
      BY <1>1, <1>3, <3>1, <3>2 DEF Grows
    <3>3. CASE i # 1
      <4>1. i - 1 \in 1 .. L /\ i - 1 < b /\ id(i - 1) < id(i)
        BY <1>1, <1>2, <2>4, <2>7, <3>3
      <4>2. Minus(ID(m), id(i - 1)) = ID(m) - id(i - 1)
        BY <1>1, <1>3, <2>5, <4>1 DEF Minus
      <4>3. ~(ID(m) - id(i) > ID(m) - id(i - 1))
        BY <1>1, <1>3, <4>1
      <4>4. QED
        BY <3>1, <3>3, <4>2, <4>3 DEF Grows
    <3>4. QED
      BY <3>2, <3>3
  <2>8. b \in Growths(w, m) /\ Growths(w, m) \in SUBSET Nat
        /\ \A i \in Growths(w, m) : b <= i
    BY <1>1, <2>4, <2>6, <2>7 DEF Growths
  <2>9. Min(Growths(w, m)) = b
    <3>1. /\ Min(Growths(w, m)) \in Growths(w, m)
          /\ \A i \in Growths(w, m) : Min(Growths(w, m)) <= i
      BY <2>8, MinIsLeast
    <3>2. QED
      BY <2>8, <3>1
  <2>10. Position(w, m) = b /\ ~PushFails(w, m)
    BY <1>6, <2>8, <2>9 DEF Position, PushFails
  <2>11. QED
    BY <1>1, <2>4, <2>5, <2>10
<1>7. QED
  BY <1>4, <1>5, <1>6

(* pop takes the longest run of consecutive identifiers at the head. *)
LEMMA RunLengthProperties ==
  ASSUME NEW w, w.data \in Seq(Messages), w.data # <<>>
  PROVE  /\ RunLength(w) \in 1 .. Len(w.data)
         /\ \/ RunLength(w) = Len(w.data)
            \/ ID(w.data[RunLength(w) + 1]) # Succ(ID(w.data[RunLength(w)]))
         /\ \A j \in 1 .. Len(w.data) :
              j < RunLength(w) => ID(w.data[j + 1]) = Succ(ID(w.data[j]))
<1> DEFINE Ends == {k \in 1 .. Len(w.data) :
                      k = Len(w.data) \/ ID(w.data[k + 1]) # Succ(ID(w.data[k]))}
<1>1. Len(w.data) \in Nat \ {0}
  OBVIOUS
<1>2. Len(w.data) \in Ends /\ Ends \in SUBSET Nat
  BY <1>1
<1>3. RunLength(w) = Min(Ends)
  BY DEF RunLength
<1>4. Min(Ends) \in Ends /\ \A k \in Ends : Min(Ends) <= k
  <2> HIDE DEF Ends
  <2> QED
    BY <1>2, MinIsLeast
<1>5. \A j \in 1 .. Len(w.data) : j < Min(Ends) => j \notin Ends
  <2> DEFINE k == Min(Ends)
  <2>1. k \in Nat /\ \A j \in Ends : j \in Nat /\ k <= j
    <3> HIDE DEF Ends
    <3> QED
      BY <1>2, <1>4
  <2> HIDE DEF k, Ends
  <2>2. \A j \in 1 .. Len(w.data) : j < k => j \notin Ends
    BY <1>1, <2>1
  <2>3. QED
    BY <2>2 DEF k
<1>6. QED
  BY <1>1, <1>3, <1>4, <1>5

-----------------------------------------------------------------------------
(* The stream *)

WLType(w) ==
  /\ w = [lastID |-> w.lastID, firstSent |-> w.firstSent, data |-> w.data,
          dataSize |-> w.dataSize, firstMessageTs |-> w.firstMessageTs,
          idsMap |-> w.idsMap]
  /\ w.lastID \in Uint32
  /\ w.firstSent \in BOOLEAN
  /\ w.data \in Seq(Messages)

\* sorted, idsMap exact, and nothing has identifier 0
WLSorted(w) ==
  /\ Sorted(w.data)
  /\ w.idsMap = {ID(w.data[i]) : i \in 1 .. Len(w.data)}
  /\ \A i \in 1 .. Len(w.data) : ID(w.data[i]) # 0

\* the head does not follow the last message sent; before the first, lastID is 0
WLGap(w) ==
  /\ w.data # <<>> => ID(w.data[1]) # Succ(w.lastID)
  /\ ~w.firstSent => w.lastID = 0

WLInv(w) == WLType(w) /\ WLSorted(w) /\ WLGap(w)

StreamInv == WLInv(wl) /\ ~fatal

-----------------------------------------------------------------------------
(***************************************************************************)
(* The fields of the list after each of its operations.  dataSize and      *)
(* firstMessageTs play no part in StreamInv; they come last.               *)
(***************************************************************************)

LEMMA SendFields ==
  ASSUME NEW w, WLType(w), NEW m \in Messages
  PROVE  /\ WLType(Send(w, m))
         /\ Send(w, m).lastID = ID(m) /\ Send(w, m).firstSent = TRUE
         /\ Send(w, m).data = w.data /\ Send(w, m).idsMap = w.idsMap
<1> DEFINE v == Send(w, m)
<1>1. v = [w EXCEPT !.lastID = ID(m), !.firstSent = TRUE]
  BY DEF Send
<1> HIDE DEF v
<1>2. /\ v.lastID = ID(m) /\ v.firstSent = TRUE /\ v.data = w.data
      /\ v.idsMap = w.idsMap
  BY <1>1 DEF WLType
<1>3. v = [lastID |-> v.lastID, firstSent |-> v.firstSent, data |-> v.data,
           dataSize |-> v.dataSize, firstMessageTs |-> v.firstMessageTs,
           idsMap |-> v.idsMap]
  BY <1>1 DEF WLType
<1>4. ID(m) \in Uint32
  BY IdentifierType
<1>5. WLType(v)
  BY <1>2, <1>3, <1>4 DEF WLType
<1>6. QED
  BY <1>2, <1>5 DEF v

LEMMA PushFields ==
  ASSUME NEW w, WLType(w), NEW m, NEW t
  PROVE  /\ Push(w, m, t).lastID = w.lastID
         /\ Push(w, m, t).firstSent = w.firstSent
         /\ Push(w, m, t).data = InsertAt(w.data, Position(w, m), m)
         /\ Push(w, m, t).idsMap = w.idsMap \union {ID(m)}
         /\ Push(w, m, t).data \in Seq(Messages) => WLType(Push(w, m, t))
<1> DEFINE u == Push(w, m, t)
           p == Position(w, m)
<1>1. u = [w EXCEPT !.dataSize = @ + PayloadLength[m],
                    !.data = InsertAt(@, p, m),
                    !.idsMap = @ \union {ID(m)},
                    !.firstMessageTs = IF w.data = <<>> THEN t ELSE @]
  BY DEF Push
<1> HIDE DEF u, p
<1>2. u.lastID = w.lastID /\ u.firstSent = w.firstSent
  BY <1>1 DEF WLType
<1>3. u.data = InsertAt(w.data, p, m)
  BY <1>1 DEF WLType
<1>4. u.idsMap = w.idsMap \union {ID(m)}
  BY <1>1 DEF WLType
<1>5. u = [lastID |-> u.lastID, firstSent |-> u.firstSent, data |-> u.data,
           dataSize |-> u.dataSize, firstMessageTs |-> u.firstMessageTs,
           idsMap |-> u.idsMap]
  BY <1>1 DEF WLType
<1>6. u.data \in Seq(Messages) => WLType(u)
  BY <1>2, <1>5 DEF WLType
<1>7. QED
  BY <1>2, <1>3, <1>4, <1>6 DEF u, p

(* What popped the run at the head: the run, and the rest of the list. *)
LEMMA PopRunFields ==
  ASSUME NEW w, WLType(w), w.data # <<>>
  PROVE  /\ PopRun(w).lastID = ID(w.data[RunLength(w)])
         /\ PopRun(w).firstSent = TRUE
         /\ PopRun(w).idsMap = w.idsMap \ {ID(x) : x \in ToSet(Run(w))}
         /\ RunLength(w) \in 1 .. Len(w.data)
         /\ Run(w) \in Seq(Messages) /\ Len(Run(w)) = RunLength(w)
         /\ \A i \in 1 .. RunLength(w) : Run(w)[i] = w.data[i]
         /\ PopRun(w).data \in Seq(Messages)
         /\ Len(PopRun(w).data) = Len(w.data) - RunLength(w)
         /\ \A i \in 1 .. Len(w.data) - RunLength(w) :
              PopRun(w).data[i] = w.data[RunLength(w) + i]
         /\ WLType(PopRun(w))
<1> DEFINE L == Len(w.data)
           k == RunLength(w)
           rest == SubSeq(w.data, k + 1, L)
           run == Run(w)
           u == PopRun(w)
           popped == ToSet(Run(w))
<1>1. w.data \in Seq(Messages) /\ L \in Nat
  BY DEF WLType
<1>2. k \in 1 .. L
  BY <1>1, RunLengthProperties
<1>3. u = [w EXCEPT !.lastID = ID(w.data[k]),
                    !.firstSent = TRUE,
                    !.data = SubSeq(@, k + 1, Len(@)),
                    !.idsMap = @ \ {ID(x) : x \in popped},
                    !.dataSize = @ - SizeOf(popped),
                    !.firstMessageTs = IF k = Len(w.data) THEN 0 ELSE @]
  BY DEF PopRun
<1>4. run = SubSeq(w.data, 1, k)
  BY DEF Run
<1> HIDE DEF u, k, popped, run
<1>5. u.idsMap = w.idsMap \ {ID(x) : x \in popped}
  BY <1>3 DEF WLType
<1>6. u.lastID = ID(w.data[k]) /\ u.firstSent = TRUE /\ u.data = rest
  BY <1>3 DEF WLType
<1>7. u = [lastID |-> u.lastID, firstSent |-> u.firstSent, data |-> u.data,
           dataSize |-> u.dataSize, firstMessageTs |-> u.firstMessageTs,
           idsMap |-> u.idsMap]
  BY <1>3 DEF WLType
<1>8. /\ rest \in Seq(Messages) /\ Len(rest) = L - k
      /\ \A i \in 1 .. L - k : rest[i] = w.data[k + i]
  <2>1. \A i \in k + 1 .. L : w.data[i] \in Messages
    BY <1>1, <1>2
  <2>2. k + 1 \in Int /\ L \in Int
    BY <1>1, <1>2
  <2>3. QED
    BY <1>1, <1>2, <2>1, <2>2, SubSeqProperties
<1>9. /\ run \in Seq(Messages) /\ Len(run) = k
      /\ \A i \in 1 .. k : run[i] = w.data[i]
  BY <1>1, <1>2, <1>4, SubSeqProperties
<1> HIDE DEF rest
<1>10. WLType(u)
  <2>1. w.data[k] \in Messages
    BY <1>1, <1>2
  <2>2. u.lastID \in Uint32 /\ u.firstSent \in BOOLEAN /\ u.data \in Seq(Messages)
    BY <1>6, <1>8, <2>1, IdentifierType
  <2>3. QED
    BY <1>7, <2>2 DEF WLType
<1>11. QED
  BY <1>2, <1>5, <1>6, <1>8, <1>9, <1>10 DEF u, k, run, popped

LEMMA ResetFields ==
  ASSUME NEW w, WLType(w)
  PROVE  /\ Reset(w).lastID = (IF w.data = <<>> THEN w.lastID
                                ELSE ID(w.data[Len(w.data)]))
         /\ Reset(w).firstSent = (w.firstSent \/ w.data # <<>>)
         /\ Reset(w).data = <<>> /\ Reset(w).idsMap = {}
         /\ WLType(Reset(w))
<1> DEFINE u == Reset(w)
<1>1. u = [w EXCEPT !.lastID = IF w.data = <<>> THEN @ ELSE ID(w.data[Len(w.data)]),
                    !.firstSent = @ \/ w.data # <<>>,
                    !.data = <<>>,
                    !.idsMap = {},
                    !.dataSize = 0]
  BY DEF Reset
<1> HIDE DEF u
<1>2. u.lastID = (IF w.data = <<>> THEN w.lastID ELSE ID(w.data[Len(w.data)]))
  BY <1>1 DEF WLType
<1>3. u.firstSent = (w.firstSent \/ w.data # <<>>)
  BY <1>1, Zenon DEF WLType
<1>4. u.data = <<>> /\ u.idsMap = {}
  BY <1>1 DEF WLType
<1>5. u = [lastID |-> u.lastID, firstSent |-> u.firstSent, data |-> u.data,
           dataSize |-> u.dataSize, firstMessageTs |-> u.firstMessageTs,
           idsMap |-> u.idsMap]
  BY <1>1 DEF WLType
<1>6. u.lastID \in Uint32
  <2>1. CASE w.data = <<>>
    BY <1>2, <2>1 DEF WLType
  <2>2. CASE w.data # <<>>
    <3>1. w.data[Len(w.data)] \in Messages
      BY <2>2 DEF WLType
    <3>2. QED
      BY <1>2, <2>2, <3>1, IdentifierType
  <2>3. QED
    BY <2>1, <2>2
<1>7. WLType(u)
  <2>1. u.firstSent \in BOOLEAN /\ u.data \in Seq(Messages)
    BY <1>3, <1>4 DEF WLType
  <2>2. QED
    BY <1>5, <1>6, <2>1 DEF WLType
<1>8. QED
  BY <1>2, <1>3, <1>4, <1>7 DEF u

-----------------------------------------------------------------------------
(* The steps of the loop on the waiting list *)

(* A list that satisfies the invariant never has its head ready. *)
LEMMA HeadWaits ==
  ASSUME NEW w, WLInv(w)
  PROVE  ~CanPop(w)
<1>1. CASE w.data = <<>>
  BY <1>1 DEF CanPop
<1>2. CASE w.data # <<>>
  <2>1. 1 \in 1 .. Len(w.data)
    BY <1>2 DEF WLInv, WLType
  <2>2. QED
    BY <1>2, <2>1 DEF CanPop, WLInv, WLSorted, WLGap
<1>3. QED
  BY <1>1, <1>2

(* send, then pop(nil): the rest of the list is still sorted, and its head *)
(* does not follow the last message sent.                                  *)
LEMMA SendAndPop ==
  ASSUME NEW w, WLType(w), WLSorted(w), NEW m \in Messages
  PROVE  WLInv(Popped(Send(w, m)))
<1> DEFINE v == Send(w, m)
<1>1. /\ WLType(v) /\ WLSorted(v) /\ v.firstSent /\ v.data = w.data
  <2>1. /\ WLType(v) /\ v.firstSent = TRUE
        /\ v.data = w.data /\ v.idsMap = w.idsMap
    BY SendFields
  <2> HIDE DEF v
  <2>2. QED
    BY <2>1 DEF WLSorted
<1> SUFFICES WLInv(Popped(v))
  OBVIOUS
<1> HIDE DEF v
<1>2. CASE ~CanPop(v)
  <2>1. v.data # <<>> => ID(v.data[1]) # Succ(v.lastID)
    BY <1>2 DEF CanPop
  <2>2. QED
    BY <1>1, <1>2, <2>1 DEF WLInv, WLGap, Popped
<1>3. CASE CanPop(v)
  <2> DEFINE L == Len(v.data)
             k == RunLength(v)
             u == PopRun(v)
             rest == u.data
  <2>1. v.data \in Seq(Messages) /\ v.data # <<>> /\ L \in Nat
    BY <1>1, <1>3 DEF CanPop, WLType
  <2>2. /\ k \in 1 .. L
        /\ k = L \/ ID(v.data[k + 1]) # Succ(ID(v.data[k]))
    BY <2>1, RunLengthProperties
  <2>3. /\ u.lastID = ID(v.data[k]) /\ u.firstSent = TRUE /\ WLType(u)
        /\ u.idsMap = v.idsMap \ {ID(x) : x \in ToSet(Run(v))}
    BY <1>1, <2>1, PopRunFields
  <2>4. /\ rest \in Seq(Messages) /\ Len(rest) = L - k
        /\ \A i \in 1 .. L - k : rest[i] = v.data[k + i]
    BY <1>1, <2>1, PopRunFields
  <2>5. ToSet(Run(v)) = {v.data[i] : i \in 1 .. k}
    <3>1. /\ Run(v) \in Seq(Messages) /\ Len(Run(v)) = k
          /\ \A i \in 1 .. k : Run(v)[i] = v.data[i]
      BY <1>1, <2>1, PopRunFields
    <3>2. QED
      BY <2>2, <3>1 DEF ToSet
  <2> HIDE DEF k, rest, u
  <2>7. \A i, j \in 1 .. L : i < j => ID(v.data[i]) < ID(v.data[j])
    BY <1>1 DEF WLSorted, Sorted
  <2>8. Sorted(rest)
    BY <2>1, <2>2, <2>4, <2>7 DEF Sorted
  <2>9. u.idsMap = {ID(rest[i]) : i \in 1 .. Len(rest)}
    <3>1. u.idsMap = {ID(v.data[i]) : i \in 1 .. L} \ {ID(v.data[i]) : i \in 1 .. k}
      BY <1>1, <2>3, <2>5 DEF WLSorted
    <3>2. \A i \in 1 .. L : ID(v.data[i]) \in Nat
      <4>1. Uint32 \subseteq Nat
        BY WaitingListAssumption DEF Uint32
      <4>2. \A i \in 1 .. L : v.data[i] \in Messages
        BY <2>1
      <4>3. QED
        BY <4>1, <4>2, IdentifierType
    <3>3. ASSUME NEW i \in 1 .. k, NEW j \in k + 1 .. L
          PROVE  ID(v.data[i]) # ID(v.data[j])
      <4>1. i \in 1 .. L /\ j \in 1 .. L /\ i < j
        BY <2>1, <2>2
      <4>2. ID(v.data[i]) < ID(v.data[j])
        BY <2>7, <4>1
      <4>3. QED
        BY <3>2, <4>1, <4>2
    <3>4. {ID(v.data[i]) : i \in 1 .. L} \ {ID(v.data[i]) : i \in 1 .. k}
            = {ID(v.data[i]) : i \in k + 1 .. L}
      BY <2>1, <2>2, <3>3
    <3>5. {ID(v.data[i]) : i \in k + 1 .. L} = {ID(rest[i]) : i \in 1 .. L - k}
      <4>1. ASSUME NEW i \in k + 1 .. L
            PROVE  i - k \in 1 .. L - k /\ rest[i - k] = v.data[i]
        <5>1. i - k \in 1 .. L - k /\ k + (i - k) = i
          BY <2>1, <2>2
        <5>2. QED
          BY <2>4, <5>1
      <4>2. \A i \in 1 .. L - k : k + i \in k + 1 .. L /\ rest[i] = v.data[k + i]
        BY <2>1, <2>2, <2>4
      <4>3. \A i \in k + 1 .. L : \E j \in 1 .. L - k : ID(v.data[i]) = ID(rest[j])
        BY <4>1
      <4>4. \A i \in 1 .. L - k : \E j \in k + 1 .. L : ID(rest[i]) = ID(v.data[j])
        BY <4>2
      <4>5. QED
        BY <4>3, <4>4
    <3>6. QED
      BY <2>4, <3>1, <3>4, <3>5
  <2>10. \A i \in 1 .. Len(rest) : ID(rest[i]) # 0
    BY <1>1, <2>1, <2>2, <2>4 DEF WLSorted
  <2>11. rest # <<>> => ID(rest[1]) # Succ(u.lastID)
    <3>1. ASSUME rest # <<>>
          PROVE  k # L /\ rest[1] = v.data[k + 1]
      <4>1. Len(rest) # 0
        BY <2>4, <3>1
      <4>2. 1 \in 1 .. L - k
        BY <2>1, <2>2, <2>4, <4>1
      <4>3. QED
        BY <2>1, <2>2, <2>4, <4>2
    <3>2. QED
      BY <2>2, <2>3, <3>1
  <2>12. WLInv(u)
    BY <2>3, <2>8, <2>9, <2>10, <2>11 DEF WLInv, WLSorted, WLGap, rest
  <2>13. QED
    BY <1>3, <2>12 DEF Popped, u
<1>4. QED
  BY <1>2, <1>3

(* push of a message that is not waiting, is not the next one and does not *)
(* have identifier 0 finds its place, adds it and keeps the invariant.     *)
LEMMA PushKeeps ==
  ASSUME NEW w, WLInv(w), NEW m \in Messages, NEW t,
         ~Exists(w, m), ID(m) # 0, ID(m) # Succ(w.lastID)
  PROVE  /\ ~PushFails(w, m)
         /\ WLInv(Push(w, m, t))
         /\ ToSet(Push(w, m, t).data) = ToSet(w.data) \union {m}
<1> DEFINE L == Len(w.data)
           p == Position(w, m)
           u == Push(w, m, t)
<1>1. WLType(w) /\ WLSorted(w) /\ WLGap(w) /\ L \in Nat
  BY DEF WLInv, WLType
<1>2. \A i \in 1 .. L : ID(w.data[i]) # ID(m)
  BY <1>1 DEF WLSorted, Exists
<1>3. /\ ~PushFails(w, m)
      /\ p \in 1 .. L + 1
      /\ \A i \in 1 .. L : IF i < p THEN ID(w.data[i]) < ID(m)
                                    ELSE ID(w.data[i]) > ID(m)
  BY <1>1, <1>2, PositionIsSorted DEF WLType, WLSorted
<1> DEFINE d == InsertAt(w.data, p, m)
<1>4. /\ u.lastID = w.lastID /\ u.firstSent = w.firstSent
      /\ u.data = d
      /\ u.idsMap = w.idsMap \union {ID(m)}
      /\ u.data \in Seq(Messages) => WLType(u)
  BY <1>1, PushFields
<1> HIDE DEF u, p
<1>5. /\ d \in Seq(Messages) /\ Len(d) = L + 1
      /\ \A i \in 1 .. L + 1 :
           d[i] = IF i < p THEN w.data[i] ELSE IF i = p THEN m ELSE w.data[i - 1]
  <2>1. ASSUME NEW s \in Seq(Messages), NEW q \in 1 .. Len(s) + 1
        PROVE  /\ InsertAt(s, q, m) \in Seq(Messages)
               /\ Len(InsertAt(s, q, m)) = Len(s) + 1
               /\ \A i \in 1 .. Len(s) + 1 :
                    InsertAt(s, q, m)[i] = IF i < q THEN s[i]
                                           ELSE IF i = q THEN m ELSE s[i - 1]
    BY InsertAtProperties
  <2>2. w.data \in Seq(Messages) /\ p \in 1 .. Len(w.data) + 1
    BY <1>1, <1>3 DEF WLType
  <2>3. QED
    BY <2>1, <2>2
<1> HIDE DEF d
<1>6. WLType(u)
  BY <1>4, <1>5
<1>7. Sorted(d)
  <2>1. \A i, j \in 1 .. L : i < j => ID(w.data[i]) < ID(w.data[j])
    BY <1>1 DEF WLSorted, Sorted
  <2>2. ASSUME NEW i \in 1 .. L + 1, NEW j \in 1 .. L + 1, i < j
        PROVE  ID(d[i]) < ID(d[j])
    <3>1. CASE j < p
      BY <1>1, <1>3, <1>5, <2>1, <2>2, <3>1
    <3>2. CASE j = p
      BY <1>1, <1>3, <1>5, <2>2, <3>2
    <3>3. CASE i < p /\ p < j
      <4>1. d[i] = w.data[i] /\ d[j] = w.data[j - 1] /\ i \in 1 .. L /\ j - 1 \in 1 .. L
        BY <1>1, <1>3, <1>5, <2>2, <3>3
      <4>2. i < j - 1
        BY <1>1, <1>3, <2>2, <3>3
      <4>3. QED
        BY <2>1, <4>1, <4>2
    <3>4. CASE i = p /\ p < j
      <4>1. d[i] = m /\ d[j] = w.data[j - 1] /\ j - 1 \in 1 .. L /\ ~(j - 1 < p)
        BY <1>1, <1>3, <1>5, <2>2, <3>4
      <4>2. ID(m) < ID(w.data[j - 1])
        <5>1. ID(m) \in Int /\ ID(w.data[j - 1]) \in Int
          BY <1>1, <4>1, IdentifierType, WaitingListAssumption DEF WLType, Uint32
        <5>2. QED
          BY <1>3, <4>1, <5>1
      <4>3. QED
        BY <4>1, <4>2
    <3>5. CASE p < i
      <4>1. d[i] = w.data[i - 1] /\ d[j] = w.data[j - 1]
            /\ i - 1 \in 1 .. L /\ j - 1 \in 1 .. L /\ i - 1 < j - 1
        BY <1>1, <1>3, <1>5, <2>2, <3>5
      <4>2. QED
        BY <2>1, <4>1
    <3>6. QED
      BY <1>3, <2>2, <3>1, <3>2, <3>3, <3>4, <3>5
  <2>3. QED
    BY <1>5, <2>2 DEF Sorted
<1>8. ToSet(d) = ToSet(w.data) \union {m}
      /\ u.idsMap = {ID(d[i]) : i \in 1 .. Len(d)}
  <2>1. ASSUME NEW i \in 1 .. L + 1
        PROVE  d[i] = m \/ \E j \in 1 .. L : d[i] = w.data[j]
    <3>1. CASE i < p
      BY <1>1, <1>3, <1>5, <3>1
    <3>2. CASE i = p
      BY <1>1, <1>3, <1>5, <3>2
    <3>3. CASE i > p
      <4>1. i - 1 \in 1 .. L /\ d[i] = w.data[i - 1]
        BY <1>1, <1>3, <1>5, <3>3
      <4>2. QED
        BY <4>1
    <3>4. QED
      BY <1>3, <3>1, <3>2, <3>3
  <2>2. ASSUME NEW j \in 1 .. L
        PROVE  \E i \in 1 .. L + 1 : d[i] = w.data[j]
    <3>1. CASE j < p
      <4>1. j \in 1 .. L + 1 /\ d[j] = w.data[j]
        BY <1>1, <1>3, <1>5, <3>1
      <4>2. QED
        BY <4>1
    <3>2. CASE ~(j < p)
      <4>1. j + 1 \in 1 .. L + 1 /\ ~(j + 1 < p) /\ j + 1 # p /\ (j + 1) - 1 = j
        BY <1>1, <1>3, <3>2
      <4>2. d[j + 1] = w.data[j]
        BY <1>5, <4>1
      <4>3. QED
        BY <4>1, <4>2
    <3>3. QED
      BY <3>1, <3>2
  <2>3. p \in 1 .. L + 1 /\ d[p] = m
    BY <1>1, <1>3, <1>5
  <2>4. ToSet(d) = ToSet(w.data) \union {m}
    <3>1. DOMAIN d = 1 .. L + 1 /\ DOMAIN w.data = 1 .. L
      BY <1>1, <1>5 DEF WLType
    <3>2. ToSet(d) \subseteq ToSet(w.data) \union {m}
      BY <2>1, <3>1 DEF ToSet
    <3>3. ToSet(w.data) \union {m} \subseteq ToSet(d)
      BY <2>2, <2>3, <3>1 DEF ToSet
    <3>4. QED
      BY <3>2, <3>3
  <2>5. {ID(d[i]) : i \in 1 .. L + 1} = {ID(w.data[i]) : i \in 1 .. L} \union {ID(m)}
    <3>1. \A i \in 1 .. L + 1 : ID(d[i]) = ID(m) \/ \E j \in 1 .. L : ID(d[i]) = ID(w.data[j])
      BY <2>1
    <3>2. \A j \in 1 .. L : \E i \in 1 .. L + 1 : ID(w.data[j]) = ID(d[i])
      BY <2>2
    <3>3. \E i \in 1 .. L + 1 : ID(m) = ID(d[i])
      BY <2>3
    <3>4. QED
      BY <3>1, <3>2, <3>3
  <2>6. QED
    BY <1>1, <1>4, <1>5, <2>4, <2>5 DEF WLSorted
<1>9. \A i \in 1 .. Len(d) : ID(d[i]) # 0
  <2>1. 0 \notin w.idsMap
    BY <1>1 DEF WLSorted
  <2>2. 0 \notin u.idsMap
    BY <1>4, <2>1
  <2>3. QED
    BY <1>8, <2>2
<1>10. WLGap(u)
  <2>1. d[1] = m \/ (w.data # <<>> /\ d[1] = w.data[1])
    <3>1. CASE p = 1
      BY <1>1, <1>5, <3>1
    <3>2. CASE p # 1
      <4>1. 1 < p /\ L # 0 /\ 1 \in 1 .. L + 1
        BY <1>1, <1>3, <3>2
      <4>2. d[1] = w.data[1]
        BY <1>5, <4>1
      <4>3. w.data # <<>>
        BY <4>1
      <4>4. QED
        BY <4>2, <4>3
    <3>3. QED
      BY <3>1, <3>2
  <2>2. ID(d[1]) # Succ(w.lastID)
    BY <1>1, <2>1 DEF WLGap
  <2>3. QED
    BY <1>1, <1>4, <2>2 DEF WLGap
<1>11. WLSorted(u)
  BY <1>4, <1>7, <1>8, <1>9 DEF WLSorted
<1>12. QED
  BY <1>3, <1>4, <1>6, <1>8, <1>10, <1>11 DEF WLInv, u

(* reset leaves an empty list. *)
LEMMA ResetKeeps ==
  ASSUME NEW w, WLInv(w)
  PROVE  WLInv(Reset(w))
<1>1. WLType(w) /\ WLGap(w)
  BY DEF WLInv
<1>2. WLSorted(Reset(w))
  BY <1>1, ResetFields DEF WLSorted, Sorted
<1>3. WLGap(Reset(w))
  BY <1>1, ResetFields DEF WLGap
<1>4. QED
  BY <1>1, <1>2, <1>3, ResetFields DEF WLInv

-----------------------------------------------------------------------------
(* The invariant of the stream *)

(* What Hold holds back has neither identifier 0 nor the next one: those go *)
(* out at once, or are dropped as repetitions.                              *)
LEMMA HeldIdentifier ==
  ASSUME NEW w, WLInv(w), NEW m \in Messages,
         ~IsDuplicate(w, m), ~SentAtOnce(w, m)
  PROVE  ~Exists(w, m) /\ ID(m) # 0 /\ ID(m) # Succ(w.lastID)
<1>1. /\ ~Exists(w, m) /\ ~(w.lastID >= ID(m) /\ w.lastID < MaxUint32)
      /\ ~StartsStream(w, m) /\ ~FollowsLast(w, m)
  BY DEF IsDuplicate, SentAtOnce
<1>2. w.firstSent \in BOOLEAN /\ (~w.firstSent => w.lastID = 0)
  BY DEF WLInv, WLType, WLGap
<1>3. MaxUint32 \in Nat \ {0}
  BY WaitingListAssumption
<1>4. CASE w.firstSent
  BY <1>1, <1>4 DEF FollowsLast
<1>5. CASE ~w.firstSent
  <2>1. w.lastID = 0 /\ Succ(w.lastID) = 1
    BY <1>2, <1>3, <1>5 DEF Succ
  <2>2. ID(m) # 1
    BY <1>1, <1>5 DEF StartsStream
  <2>3. ID(m) # 0
    BY <1>1, <1>3, <2>1
  <2>4. QED
    BY <1>1, <2>1, <2>2, <2>3
<1>6. QED
  BY <1>2, <1>4, <1>5

LEMMA StreamInit == Init => StreamInv
<1> SUFFICES ASSUME Init PROVE StreamInv
  OBVIOUS
<1>1. /\ wl.lastID = 0 /\ wl.firstSent = FALSE /\ wl.data = <<>> /\ wl.idsMap = {}
      /\ wl = [lastID |-> wl.lastID, firstSent |-> wl.firstSent, data |-> wl.data,
               dataSize |-> wl.dataSize, firstMessageTs |-> wl.firstMessageTs,
               idsMap |-> wl.idsMap]
  BY DEF Init, NewWaitingList
<1>2. WLType(wl)
  <2>1. 0 \in Uint32 /\ <<>> \in Seq(Messages)
    BY WaitingListAssumption DEF Uint32
  <2>2. wl.lastID \in Uint32 /\ wl.firstSent \in BOOLEAN /\ wl.data \in Seq(Messages)
    BY <1>1, <2>1
  <2>3. QED
    BY <1>1, <2>2 DEF WLType
<1>3. WLSorted(wl) /\ WLGap(wl)
  BY <1>1 DEF WLSorted, Sorted, WLGap
<1>4. QED
  BY <1>2, <1>3 DEF Init, StreamInv, WLInv

LEMMA StreamStep == StreamInv /\ [Next]_vars => StreamInv'
<1> SUFFICES ASSUME StreamInv, [Next]_vars PROVE StreamInv'
  OBVIOUS
<1>0. WLInv(wl) /\ ~fatal /\ ~CanPop(wl)
  BY HeadWaits DEF StreamInv
<1>1. CASE Emit
  BY <1>0, <1>1 DEF Emit, StreamInv
<1>2. CASE Tick
  BY <1>0, <1>2 DEF Tick, StreamInv
<1>3. ASSUME NEW m \in Messages, Duplicate(m)
      PROVE  StreamInv'
  BY <1>0, <1>3 DEF Duplicate, StreamInv
<1>4. ASSUME NEW m \in Messages, Deliver(m)
      PROVE  StreamInv'
  <2>1. wl' = Popped(Send(wl, m)) /\ fatal' = fatal
    BY <1>0, <1>4 DEF Deliver
  <2>2. WLInv(Popped(Send(wl, m)))
    BY <1>0, SendAndPop DEF WLInv
  <2>3. QED
    BY <1>0, <2>1, <2>2 DEF StreamInv
<1>5. ASSUME NEW m \in Messages, Hold(m)
      PROVE  StreamInv'
  <2> DEFINE w == Push(wl, m, now)
  <2>1. ~Exists(wl, m) /\ ID(m) # 0 /\ ID(m) # Succ(wl.lastID)
    BY <1>0, <1>5, HeldIdentifier DEF Hold
  <2>2. ~PushFails(wl, m) /\ WLInv(w)
    BY <1>0, <2>1, PushKeeps
  <2>3. WLInv(Reset(w))
    BY <2>2, ResetKeeps
  <2>4. (wl' = w \/ wl' = Reset(w)) /\ fatal' = fatal
    BY <1>5, <2>2 DEF Hold
  <2> HIDE DEF w
  <2>5. QED
    BY <1>0, <2>2, <2>3, <2>4 DEF StreamInv
<1>6. CASE UNCHANGED vars
  BY <1>0, <1>6 DEF vars, StreamInv
<1>7. QED
  BY <1>1, <1>2, <1>3, <1>4, <1>5, <1>6 DEF Next

THEOREM StreamInvariant == Spec => []StreamInv
<1>1. QED
  BY StreamInit, StreamStep, PTL DEF Spec

(* push never returns its error, so log.Fatalf (stream.v2.go:110) is never *)
(* reached: for both versions, any sizes and limits, and across the wrap of *)
(* the identifier.                                                          *)
THEOREM StreamNeverFatal == Spec => []NeverFatal
<1>1. StreamInv => NeverFatal
  BY DEF StreamInv, NeverFatal
<1>2. QED
  BY <1>1, StreamInvariant, PTL

(* Between two messages the head of the waiting list is never the one that *)
(* may go: the branch of pop that sends req ahead of the head is not taken. *)
THEOREM StreamHeadNotReady == Spec => []HeadNotReady
<1>1. StreamInv => HeadNotReady
  BY HeadWaits DEF StreamInv, HeadNotReady
<1>2. QED
  BY <1>1, StreamInvariant, PTL

(* The waiting list is sorted by identifier and idsMap holds exactly the *)
(* identifiers in it, so the test for repetitions never misses nor       *)
(* invents one.                                                          *)
THEOREM StreamListConsistent == Spec => []ListConsistent
<1>1. StreamInv => ListConsistent
  <2> SUFFICES ASSUME StreamInv PROVE ListConsistent
    OBVIOUS
  <2>1. /\ Sorted(wl.data) /\ wl.data \in Seq(Messages)
        /\ wl.idsMap = {ID(wl.data[i]) : i \in 1 .. Len(wl.data)}
    BY DEF StreamInv, WLInv, WLType, WLSorted
  <2>2. DOMAIN wl.data = 1 .. Len(wl.data)
    BY <2>1
  <2>3. wl.idsMap = {ID(m) : m \in waiting}
    BY <2>1, <2>2 DEF waiting, ToSet
  <2>4. QED
    BY <2>1, <2>3 DEF ListConsistent
<1>2. QED
  BY <1>1, StreamInvariant, PTL

-----------------------------------------------------------------------------
(* The order of what it delivers *)

\* MaxUint32 itself is out: once it is the last sent, the test for repetitions
\* is off (stream.v2.go:87).
NoWrap == MaxMsg < MaxUint32

\* everything delivered is at most lastID, everything waiting is above it
OrderInv ==
  /\ arrived \subseteq Messages
  /\ delivered \in Seq(Messages)
  /\ OD!Increasing(delivered)
  /\ wl.lastID \in 0 .. MaxMsg
  /\ \A i \in 1 .. Len(delivered) : delivered[i] \in arrived /\ delivered[i] <= wl.lastID
  /\ \A i \in 1 .. Len(wl.data) : wl.data[i] \in arrived /\ wl.lastID < wl.data[i]
  /\ ThreadingBy = "endpoint" /\ ~wl.firstSent => wl.data = <<>>

-----------------------------------------------------------------------------

(* Without wrap the identifier of a message is its number. *)
LEMMA PlainIdentifiers ==
  ASSUME NoWrap
  PROVE  /\ MaxUint32 \in Nat /\ MaxMsg \in Nat /\ MaxMsg < MaxUint32
         /\ Messages = 1 .. MaxMsg
         /\ \A m \in Messages : ID(m) = m
         /\ \A x \in 0 .. MaxMsg : Succ(x) = x + 1
BY WaitingListAssumption DEF NoWrap, Messages, ID, Succ

(* An element of a concatenation comes from its first part or from its second. *)
LEMMA ConcatElement ==
  ASSUME NEW S, NEW a \in Seq(S), NEW b \in Seq(S), NEW i \in 1 .. Len(a \o b)
  PROVE  \/ i \in 1 .. Len(a) /\ (a \o b)[i] = a[i]
         \/ i - Len(a) \in 1 .. Len(b) /\ (a \o b)[i] = b[i - Len(a)]
<1>1. Len(a) \in Nat /\ Len(b) \in Nat /\ Len(a \o b) = Len(a) + Len(b)
  BY ConcatProperties
<1>2. (a \o b)[i] = IF i <= Len(a) THEN a[i] ELSE b[i - Len(a)]
  BY <1>1, ConcatProperties
<1>3. CASE i <= Len(a)
  BY <1>1, <1>2, <1>3
<1>4. CASE ~(i <= Len(a))
  <2>1. i - Len(a) \in 1 .. Len(b)
    BY <1>1, <1>4
  <2>2. QED
    BY <1>2, <1>4, <2>1
<1>5. QED
  BY <1>3, <1>4

(* An increasing sequence followed by an increasing sequence of larger ones. *)
LEMMA AppendIncreasing ==
  ASSUME NEW d \in Seq(Messages), NEW s \in Seq(Messages), NEW x \in Int, NEW R,
         OD!Increasing(d), OD!Increasing(s),
         \A i \in 1 .. Len(d) : d[i] <= x /\ d[i] \in R,
         \A i \in 1 .. Len(s) : x < s[i] /\ s[i] \in R
  PROVE  /\ d \o s \in Seq(Messages)
         /\ IsPrefix(d, d \o s)
         /\ OD!Increasing(d \o s)
         /\ \A i \in 1 .. Len(d \o s) :
              /\ (d \o s)[i] \in R
              /\ \/ i \in 1 .. Len(d) /\ (d \o s)[i] = d[i]
                 \/ i - Len(d) \in 1 .. Len(s) /\ (d \o s)[i] = s[i - Len(d)]
<1> DEFINE ds == d \o s
<1>1. /\ ds \in Seq(Messages) /\ Len(ds) = Len(d) + Len(s)
      /\ \A i \in 1 .. Len(d) + Len(s) :
           ds[i] = IF i <= Len(d) THEN d[i] ELSE s[i - Len(d)]
      /\ Len(d) \in Nat /\ Len(s) \in Nat
  BY ConcatProperties
<1>2. \A i \in 1 .. Len(d) : d[i] \in Int
  BY WaitingListAssumption DEF Messages
<1>3. \A i \in 1 .. Len(s) : s[i] \in Int
  BY WaitingListAssumption DEF Messages
<1> HIDE DEF ds
<1>4. ASSUME NEW i \in 1 .. Len(ds)
      PROVE  /\ ds[i] \in R
             /\ \/ i \in 1 .. Len(d) /\ ds[i] = d[i]
                \/ i - Len(d) \in 1 .. Len(s) /\ ds[i] = s[i - Len(d)]
  <2>1. CASE i <= Len(d)
    BY <1>1, <2>1
  <2>2. CASE ~(i <= Len(d))
    <3>1. i - Len(d) \in 1 .. Len(s) /\ ds[i] = s[i - Len(d)]
      BY <1>1, <2>2
    <3>2. QED
      BY <3>1
  <2>3. QED
    BY <2>1, <2>2
<1>5. OD!Increasing(ds)
  <2>1. ASSUME NEW i \in 1 .. Len(ds), NEW j \in 1 .. Len(ds), i < j
        PROVE  ds[i] < ds[j]
    <3>1. CASE j <= Len(d)
      <4>1. i \in 1 .. Len(d) /\ j \in 1 .. Len(d) /\ ds[i] = d[i] /\ ds[j] = d[j]
        BY <1>1, <2>1, <3>1
      <4>2. QED
        BY <2>1, <4>1 DEF OD!Increasing
    <3>2. CASE i <= Len(d) /\ ~(j <= Len(d))
      <4>1. /\ i \in 1 .. Len(d) /\ ds[i] = d[i]
            /\ j - Len(d) \in 1 .. Len(s) /\ ds[j] = s[j - Len(d)]
        BY <1>1, <2>1, <3>2
      <4>2. d[i] <= x /\ x < s[j - Len(d)]
        BY <4>1
      <4>3. QED
        BY <1>2, <1>3, <4>1, <4>2
    <3>3. CASE ~(i <= Len(d))
      <4>1. /\ i - Len(d) \in 1 .. Len(s) /\ ds[i] = s[i - Len(d)]
            /\ j - Len(d) \in 1 .. Len(s) /\ ds[j] = s[j - Len(d)]
            /\ i - Len(d) < j - Len(d)
        BY <1>1, <2>1, <3>3
      <4>2. QED
        BY <4>1 DEF OD!Increasing
    <3>4. QED
      BY <3>1, <3>2, <3>3
  <2>2. QED
    BY <2>1 DEF OD!Increasing
<1>6. IsPrefix(d, ds)
  <2>1. /\ Len(d) <= Len(ds)
        /\ SubSeq(d, 1, Len(d)) \in Seq(Messages) /\ Len(SubSeq(d, 1, Len(d))) = Len(d)
        /\ \A i \in 1 .. Len(d) : SubSeq(d, 1, Len(d))[i] = d[i]
    BY <1>1, SubSeqProperties
  <2>2. /\ SubSeq(ds, 1, Len(d)) \in Seq(Messages) /\ Len(SubSeq(ds, 1, Len(d))) = Len(d)
        /\ \A i \in 1 .. Len(d) : SubSeq(ds, 1, Len(d))[i] = ds[i]
    BY <1>1, SubSeqProperties
  <2>3. \A i \in 1 .. Len(d) : SubSeq(ds, 1, Len(d))[i] = SubSeq(d, 1, Len(d))[i]
    BY <1>1, <2>1, <2>2
  <2>4. SubSeq(ds, 1, Len(d)) = SubSeq(d, 1, Len(d))
    BY <2>1, <2>2, <2>3, SeqEqual
  <2>5. QED
    BY <2>1, <2>4 DEF IsPrefix
<1>7. QED
  BY <1>1, <1>4, <1>5, <1>6 DEF ds

-----------------------------------------------------------------------------
(* The operations of the list, without wrap *)

(* pop(nil) sends larger and larger messages, and leaves only larger ones. *)
LEMMA PopIsOrdered ==
  ASSUME NoWrap, NEW w, WLType(w), WLSorted(w), w.lastID \in 0 .. MaxMsg,
         \A i \in 1 .. Len(w.data) : w.lastID < w.data[i]
  PROVE  /\ PoppedRun(w) \in Seq(Messages)
         /\ OD!Increasing(PoppedRun(w))
         /\ \A i \in 1 .. Len(PoppedRun(w)) :
              /\ w.lastID < PoppedRun(w)[i]
              /\ PoppedRun(w)[i] <= Popped(w).lastID
              /\ PoppedRun(w)[i] \in ToSet(w.data)
         /\ \A i \in 1 .. Len(Popped(w).data) :
              /\ Popped(w).lastID < Popped(w).data[i]
              /\ Popped(w).data[i] \in ToSet(w.data)
         /\ w.lastID <= Popped(w).lastID
         /\ Popped(w).lastID \in 0 .. MaxMsg
         /\ w.firstSent => Popped(w).firstSent
<1> DEFINE L == Len(w.data)
<1>1. /\ w.data \in Seq(Messages) /\ L \in Nat
      /\ \A i \in 1 .. L : w.data[i] \in Messages /\ w.data[i] \in ToSet(w.data)
  BY DEF WLType, ToSet
<1>2. \A i, j \in 1 .. L : i < j => w.data[i] < w.data[j]
  BY <1>1, PlainIdentifiers DEF WLSorted, Sorted
<1>3. \A i \in 1 .. L : w.data[i] \in 1 .. MaxMsg
  BY <1>1, PlainIdentifiers
<1>4. CASE ~CanPop(w)
  <2>1. Popped(w) = w /\ PoppedRun(w) = <<>>
    BY <1>4 DEF Popped, PoppedRun
  <2>2. Len(<<>>) = 0 /\ <<>> \in Seq(Messages)
    OBVIOUS
  <2>3. OD!Increasing(<<>>)
    BY <2>2 DEF OD!Increasing
  <2>4. QED
    BY <1>1, <2>1, <2>2, <2>3, PlainIdentifiers
<1>5. CASE CanPop(w)
  <2> DEFINE k == RunLength(w)
             r == Run(w)
             u == PopRun(w)
  <2>1. w.data # <<>>
    BY <1>5 DEF CanPop
  <2>2. Popped(w) = u /\ PoppedRun(w) = r
    BY <1>5 DEF Popped, PoppedRun
  <2>3. /\ u.lastID = ID(w.data[k]) /\ u.firstSent = TRUE /\ k \in 1 .. L
        /\ r \in Seq(Messages) /\ Len(r) = k
        /\ \A i \in 1 .. k : r[i] = w.data[i]
        /\ Len(u.data) = L - k
        /\ \A i \in 1 .. L - k : u.data[i] = w.data[k + i]
    BY <2>1, PopRunFields
  <2> HIDE DEF k, r, u
  <2>4. u.lastID = w.data[k] /\ u.lastID \in 1 .. MaxMsg
    BY <1>1, <1>3, <2>3, PlainIdentifiers
  <2>0. k \in 1 .. L /\ L \in Nat /\ k \in Nat
    BY <1>1, <2>3
  <2>5. ASSUME NEW i \in 1 .. k
        PROVE  i \in 1 .. L /\ w.data[i] <= w.data[k]
    <3>1. i \in 1 .. L /\ (i < k \/ i = k)
      BY <2>0
    <3>2. w.data[i] \in 1 .. MaxMsg /\ w.data[k] \in 1 .. MaxMsg
      BY <1>3, <2>0, <3>1
    <3>3. i < k => w.data[i] < w.data[k]
      BY <1>2, <2>0, <3>1
    <3>4. QED
      BY <3>1, <3>2, <3>3, PlainIdentifiers
  <2>6. OD!Increasing(r)
    BY <1>1, <1>2, <2>3, <2>5 DEF OD!Increasing
  <2>7. \A i \in 1 .. Len(r) : /\ w.lastID < r[i] /\ r[i] <= u.lastID
                               /\ r[i] \in ToSet(w.data)
    BY <1>1, <2>3, <2>4, <2>5
  <2>8. \A i \in 1 .. Len(u.data) : u.lastID < u.data[i] /\ u.data[i] \in ToSet(w.data)
    <3>1. ASSUME NEW i \in 1 .. L - k
          PROVE  u.lastID < u.data[i] /\ u.data[i] \in ToSet(w.data)
      <4>1. k + i \in 1 .. L /\ k < k + i /\ u.data[i] = w.data[k + i]
        <5>1. k + i \in 1 .. L /\ k < k + i
          BY <2>0
        <5>2. QED
          BY <2>3, <5>1
      <4>2. w.data[k] < w.data[k + i]
        BY <1>2, <2>0, <4>1
      <4>3. QED
        BY <1>1, <2>4, <4>1, <4>2
    <3>2. QED
      BY <2>3, <3>1
  <2>9. w.lastID <= u.lastID
    <3>1. w.lastID < w.data[k] /\ w.data[k] \in Nat /\ w.lastID \in Nat
      BY <1>1, <1>3, <2>3, PlainIdentifiers
    <3>2. QED
      BY <2>4, <3>1
  <2>10. u.lastID \in 0 .. MaxMsg
    BY <2>4, PlainIdentifiers
  <2>11. QED
    BY <2>2, <2>3, <2>6, <2>7, <2>8, <2>9, <2>10
<1>6. QED
  BY <1>4, <1>5

(* A message that is not dropped is above the last one sent, and not waiting. *)
LEMMA NewIsLater ==
  ASSUME NoWrap, NEW w, w.lastID \in 0 .. MaxMsg, WLSorted(w), NEW m \in Messages,
         w.data \in Seq(Messages), ~IsDuplicate(w, m)
  PROVE  /\ w.lastID < m /\ m \in 1 .. MaxMsg
         /\ \A i \in 1 .. Len(w.data) : w.data[i] # m
<1>1. ID(m) = m /\ m \in 1 .. MaxMsg /\ MaxMsg < MaxUint32 /\ MaxMsg \in Nat
      /\ MaxUint32 \in Nat
  BY PlainIdentifiers
<1>2. ~(w.lastID >= ID(m) /\ w.lastID < MaxUint32) /\ ~Exists(w, m)
  BY DEF IsDuplicate
<1>3. w.lastID < m
  BY <1>1, <1>2
<1>4. \A i \in 1 .. Len(w.data) : w.data[i] # m
  BY <1>2 DEF Exists, WLSorted
<1>5. QED
  BY <1>1, <1>3, <1>4

(* Handing over larger messages that came in extends what was delivered. *)
LEMMA HandOver ==
  ASSUME NoWrap, OrderInv, NEW s \in Seq(Messages), OD!Increasing(s),
         NEW R, arrived \subseteq R, NEW y \in 0 .. MaxMsg, wl.lastID <= y,
         \A i \in 1 .. Len(s) : wl.lastID < s[i] /\ s[i] <= y /\ s[i] \in R
  PROVE  /\ delivered \o s \in Seq(Messages)
         /\ IsPrefix(delivered, delivered \o s)
         /\ OD!Increasing(delivered \o s)
         /\ \A i \in 1 .. Len(delivered \o s) :
              (delivered \o s)[i] \in R /\ (delivered \o s)[i] <= y
         /\ ToSet(delivered \o s) \subseteq R
<1> DEFINE d == delivered
           ds == d \o s
           x == wl.lastID
<1>1. /\ d \in Seq(Messages) /\ OD!Increasing(d) /\ x \in 0 .. MaxMsg
      /\ \A i \in 1 .. Len(d) : d[i] <= x /\ d[i] \in R
  BY DEF OrderInv
<1>2. x \in Int /\ y \in Int /\ x <= y /\ \A i \in 1 .. Len(d) : d[i] \in Int
  BY <1>1, PlainIdentifiers
<1> HIDE DEF d, x
<1>3. \A i \in 1 .. Len(s) : x < s[i] /\ s[i] \in R /\ s[i] <= y
  BY DEF x
<1>4. /\ ds \in Seq(Messages) /\ IsPrefix(d, ds) /\ OD!Increasing(ds)
      /\ \A i \in 1 .. Len(ds) :
           /\ ds[i] \in R
           /\ \/ i \in 1 .. Len(d) /\ ds[i] = d[i]
              \/ i - Len(d) \in 1 .. Len(s) /\ ds[i] = s[i - Len(d)]
  <2>1. \A i \in 1 .. Len(s) : x < s[i] /\ s[i] \in R
    BY <1>3
  <2>2. d \in Seq(Messages) /\ x \in Int
    BY <1>1, <1>2
  <2>3. \A i \in 1 .. Len(d) : d[i] <= x /\ d[i] \in R
    BY <1>1
  <2>4. OD!Increasing(d) /\ OD!Increasing(s)
    BY <1>1
  <2>5. ds \in Seq(Messages) /\ IsPrefix(d, ds) /\ OD!Increasing(ds)
    BY <2>1, <2>2, <2>3, <2>4, AppendIncreasing
  <2>6. \A i \in 1 .. Len(ds) :
           /\ ds[i] \in R
           /\ \/ i \in 1 .. Len(d) /\ ds[i] = d[i]
              \/ i - Len(d) \in 1 .. Len(s) /\ ds[i] = s[i - Len(d)]
    BY <2>1, <2>2, <2>3, <2>4, AppendIncreasing
  <2>7. QED
    BY <2>5, <2>6
<1> HIDE DEF ds
<1>5. \A i \in 1 .. Len(ds) : ds[i] <= y
  <2>1. ASSUME NEW i \in 1 .. Len(ds)
        PROVE  ds[i] <= y
    <3>1. CASE i \in 1 .. Len(d) /\ ds[i] = d[i]
      BY <1>1, <1>2, <3>1
    <3>2. CASE i - Len(d) \in 1 .. Len(s) /\ ds[i] = s[i - Len(d)]
      BY <1>3, <3>2
    <3>3. QED
      BY <1>4, <3>1, <3>2
  <2>2. QED
    BY <2>1
<1>6. ToSet(ds) \subseteq R
  BY <1>4 DEF ToSet
<1>7. QED
  BY <1>4, <1>5, <1>6 DEF ds, d

-----------------------------------------------------------------------------
(* The refinement *)

LEMMA OrderInit ==
  ASSUME NoWrap
  PROVE  Init => OrderInv /\ OD!Init
<1> SUFFICES ASSUME Init PROVE OrderInv /\ OD!Init
  OBVIOUS
<1>1. /\ wl.lastID = 0 /\ wl.data = <<>> /\ arrived = {} /\ delivered = <<>>
  BY DEF Init, NewWaitingList
<1>2. OD!Increasing(<<>>) /\ <<>> \in Seq(Messages) /\ Len(<<>>) = 0
  BY DEF OD!Increasing
<1>3. QED
  BY <1>1, <1>2, PlainIdentifiers DEF OrderInv, OD!Init

(* Deliver: the message, then the run after it. *)
LEMMA OrderDeliver ==
  ASSUME NoWrap, StreamInv, OrderInv, NEW m \in Messages, Deliver(m)
  PROVE  OrderInv' /\ OD!Receive(m)
<1> DEFINE w == Send(wl, m)
           u == Popped(w)
           r == PoppedRun(w)
           s == <<m>> \o r
           R == arrived \union {m}
<1>1. /\ WLType(wl) /\ WLSorted(wl) /\ WLGap(wl) /\ ~CanPop(wl)
  BY HeadWaits DEF StreamInv, WLInv
<1>2. /\ wl' = u /\ delivered' = delivered \o <<m>> \o r /\ arrived' = R
      /\ ~IsDuplicate(wl, m)
      /\ StartsStream(wl, m) \/ FollowsLast(wl, m)
  BY <1>1 DEF Deliver, Arrives, SentAtOnce
<1>3. /\ wl.lastID \in 0 .. MaxMsg /\ arrived \subseteq Messages
      /\ delivered \in Seq(Messages)
      /\ \A i \in 1 .. Len(wl.data) : wl.data[i] \in arrived /\ wl.lastID < wl.data[i]
      /\ wl.data \in Seq(Messages)
  BY <1>1 DEF OrderInv, WLType
<1>4. /\ wl.lastID < m /\ m \in 1 .. MaxMsg
      /\ \A i \in 1 .. Len(wl.data) : wl.data[i] # m
  BY <1>1, <1>2, <1>3, NewIsLater
<1>5. \A i \in 1 .. Len(wl.data) : m < wl.data[i]
  <2>1. ID(m) = m /\ MaxMsg \in Nat /\ \A i \in 1 .. Len(wl.data) : wl.data[i] \in 1 .. MaxMsg
    BY <1>3, PlainIdentifiers
  <2>2. CASE wl.data = <<>>
    BY <2>2
  <2>3. CASE wl.data # <<>> /\ StartsStream(wl, m)
    <3>1. ~wl.firstSent /\ (ThreadingBy = "endpoint" \/ m = 1)
      BY <2>1, <2>3 DEF StartsStream
    <3>2. m = 1
      BY <2>3, <3>1 DEF OrderInv
    <3>3. QED
      BY <1>4, <2>1, <3>2
  <2>4. CASE FollowsLast(wl, m)
    <3>1. m = wl.lastID + 1
      BY <1>3, <1>4, <2>1, <2>4, PlainIdentifiers DEF FollowsLast
    <3>2. QED
      BY <1>3, <1>4, <2>1, <3>1
  <2>5. QED
    BY <1>2, <2>2, <2>3, <2>4
<1>6. /\ WLType(w) /\ w.lastID = m /\ w.firstSent = TRUE
      /\ w.data = wl.data /\ w.idsMap = wl.idsMap
  BY <1>1, SendFields, PlainIdentifiers
<1> HIDE DEF w
<1>7. WLSorted(w)
  BY <1>1, <1>6 DEF WLSorted
<1>8. /\ r \in Seq(Messages) /\ OD!Increasing(r)
      /\ \A i \in 1 .. Len(r) : w.lastID < r[i] /\ r[i] <= u.lastID /\ r[i] \in ToSet(w.data)
      /\ \A i \in 1 .. Len(u.data) : u.lastID < u.data[i] /\ u.data[i] \in ToSet(w.data)
      /\ w.lastID <= u.lastID /\ u.lastID \in 0 .. MaxMsg
      /\ w.firstSent => u.firstSent
  <2>1. w.lastID \in 0 .. MaxMsg /\ \A i \in 1 .. Len(w.data) : w.lastID < w.data[i]
    BY <1>4, <1>5, <1>6, PlainIdentifiers
  <2>2. QED
    BY <1>6, <1>7, <2>1, PopIsOrdered
<1> HIDE DEF u, r
<1>9. ToSet(w.data) \subseteq arrived
  BY <1>3, <1>6 DEF ToSet
<1>10. /\ s \in Seq(Messages) /\ OD!Increasing(s)
       /\ \A i \in 1 .. Len(s) : wl.lastID < s[i] /\ s[i] <= u.lastID /\ s[i] \in R
  <2> DEFINE one == <<m>>
  <2>1. /\ one \in Seq(Messages) /\ Len(one) = 1 /\ one[1] = m /\ OD!Increasing(one)
    BY DEF OD!Increasing
  <2> HIDE DEF one
  <2>2. \A i \in 1 .. Len(one) : one[i] <= m /\ one[i] \in R
    BY <1>4, <2>1
  <2>3. \A i \in 1 .. Len(r) : m < r[i] /\ r[i] \in R
    BY <1>6, <1>8, <1>9
  <2>4. m \in Int /\ u.lastID \in Int /\ m <= u.lastID /\ wl.lastID \in Int
    BY <1>3, <1>4, <1>6, <1>8, PlainIdentifiers
  <2>5. /\ one \o r \in Seq(Messages)
        /\ OD!Increasing(one \o r)
        /\ \A i \in 1 .. Len(one \o r) :
             /\ (one \o r)[i] \in R
             /\ \/ i \in 1 .. Len(one) /\ (one \o r)[i] = one[i]
                \/ i - Len(one) \in 1 .. Len(r) /\ (one \o r)[i] = r[i - Len(one)]
    <3>1. m \in Int /\ r \in Seq(Messages) /\ OD!Increasing(r)
      BY <1>8, <2>4
    <3> HIDE DEF R, s
    <3>2. one \o r \in Seq(Messages) /\ OD!Increasing(one \o r)
      BY <2>1, <2>2, <2>3, <3>1, AppendIncreasing
    <3>3. \A i \in 1 .. Len(one \o r) : (one \o r)[i] \in R
      BY <2>1, <2>2, <2>3, <3>1, AppendIncreasing
    <3>4. ASSUME NEW i \in 1 .. Len(one \o r)
          PROVE  \/ i \in 1 .. Len(one) /\ (one \o r)[i] = one[i]
                 \/ i - Len(one) \in 1 .. Len(r) /\ (one \o r)[i] = r[i - Len(one)]
      <4>1. one \in Seq(Messages) /\ r \in Seq(Messages)
        BY <2>1, <3>1
      <4>2. QED
        BY <4>1, ConcatElement
    <3>5. QED
      BY <3>2, <3>3, <3>4
  <2>6. ASSUME NEW i \in 1 .. Len(one \o r)
        PROVE  wl.lastID < (one \o r)[i] /\ (one \o r)[i] <= u.lastID
    <3>1. CASE i \in 1 .. Len(one) /\ (one \o r)[i] = one[i]
      BY <1>4, <2>1, <2>4, <3>1
    <3>2. CASE i - Len(one) \in 1 .. Len(r) /\ (one \o r)[i] = r[i - Len(one)]
      <4>1. m < r[i - Len(one)] /\ r[i - Len(one)] <= u.lastID /\ r[i - Len(one)] \in Messages
        BY <1>8, <2>3, <3>2
      <4>2. QED
        BY <1>4, <2>4, <3>2, <4>1, PlainIdentifiers
    <3>3. QED
      BY <2>5, <3>1, <3>2
  <2>7. QED
    BY <2>5, <2>6 DEF one
<1>11. delivered' = delivered \o s
  <2>1. <<m>> \in Seq(Messages)
    OBVIOUS
  <2>2. QED
    BY <1>2, <1>3, <1>8, <2>1, ConcatAssociative
<1> HIDE DEF s
<1>12. /\ delivered' \in Seq(Messages) /\ IsPrefix(delivered, delivered')
       /\ OD!Increasing(delivered') /\ ToSet(delivered') \subseteq R
       /\ \A i \in 1 .. Len(delivered') : delivered'[i] \in R /\ delivered'[i] <= u.lastID
  <2>1. wl.lastID <= u.lastID /\ u.lastID \in 0 .. MaxMsg
    BY <1>3, <1>4, <1>6, <1>8, PlainIdentifiers
  <2>2. arrived \subseteq R
    OBVIOUS
  <2> HIDE DEF R
  <2>3. QED
    BY <1>10, <1>11, <2>1, <2>2, HandOver
<1>13. OD!Receive(m)
  BY <1>2, <1>12 DEF OD!Receive, OD!IsPrefix, IsPrefix, OD!ToSet, ToSet
<1>14. OrderInv'
  <2>1. R \subseteq Messages
    BY <1>3
  <2>2. \A i \in 1 .. Len(u.data) : u.data[i] \in R /\ u.lastID < u.data[i]
    BY <1>8, <1>9
  <2>3. u.firstSent
    BY <1>6, <1>8
  <2>4. u.lastID \in 0 .. MaxMsg
    BY <1>8
  <2> HIDE DEF R
  <2>5. QED
    BY <1>2, <1>12, <2>1, <2>2, <2>3, <2>4 DEF OrderInv, OD!Increasing
<1>15. QED
  BY <1>13, <1>14

(* Hold: the message waits, or everything that waits is handed over. *)
LEMMA OrderHold ==
  ASSUME NoWrap, StreamInv, OrderInv, NEW m \in Messages, Hold(m)
  PROVE  OrderInv' /\ OD!Receive(m)
<1> DEFINE w == Push(wl, m, now)
           u == Reset(w)
           R == arrived \union {m}
<1>1. /\ WLInv(wl) /\ WLType(wl) /\ WLSorted(wl) /\ WLGap(wl)
      /\ ~IsDuplicate(wl, m) /\ ~SentAtOnce(wl, m) /\ arrived' = R
  BY DEF StreamInv, WLInv, Hold, Arrives
<1>2. ~Exists(wl, m) /\ ID(m) # 0 /\ ID(m) # Succ(wl.lastID)
  BY <1>1, HeldIdentifier
<1>3. ~PushFails(wl, m) /\ WLInv(w) /\ ToSet(w.data) = ToSet(wl.data) \union {m}
  BY <1>1, <1>2, PushKeeps
<1>4. /\ w.lastID = wl.lastID /\ w.firstSent = wl.firstSent
      /\ WLType(w) /\ WLSorted(w)
  BY <1>1, <1>3, PushFields DEF WLInv
<1>5. \/ wl' = w /\ delivered' = delivered
      \/ wl' = u /\ delivered' = delivered \o w.data
  BY <1>3 DEF Hold
<1> HIDE DEF w
<1>6. /\ wl.lastID \in 0 .. MaxMsg /\ arrived \subseteq Messages
      /\ delivered \in Seq(Messages) /\ OD!Increasing(delivered)
      /\ \A i \in 1 .. Len(delivered) : delivered[i] \in arrived /\ delivered[i] <= wl.lastID
      /\ \A i \in 1 .. Len(wl.data) : wl.data[i] \in arrived /\ wl.lastID < wl.data[i]
      /\ wl.data \in Seq(Messages) /\ w.data \in Seq(Messages)
  BY <1>1, <1>4 DEF OrderInv, WLType
<1>7. wl.lastID < m
  BY <1>1, <1>6, NewIsLater
<1>8. ThreadingBy = "endpoint" => wl.firstSent
  BY <1>1 DEF SentAtOnce, StartsStream
<1>9. \A i \in 1 .. Len(w.data) : w.data[i] \in R /\ wl.lastID < w.data[i]
  <2>1. DOMAIN w.data = 1 .. Len(w.data) /\ DOMAIN wl.data = 1 .. Len(wl.data)
    BY <1>6
  <2>2. \A x \in ToSet(wl.data) : x \in arrived /\ wl.lastID < x
    BY <1>6, <2>1 DEF ToSet
  <2>3. \A i \in 1 .. Len(w.data) : w.data[i] \in ToSet(wl.data) \union {m}
    BY <1>3, <2>1 DEF ToSet
  <2>4. QED
    BY <1>7, <2>2, <2>3
<1>10. arrived \subseteq R /\ R \subseteq Messages
  BY <1>6
<1> HIDE DEF R
<1>11. CASE wl' = w /\ delivered' = delivered
  <2>1. IsPrefix(delivered, delivered)
    BY <1>6 DEF IsPrefix
  <2>2. DOMAIN delivered = 1 .. Len(delivered)
    BY <1>6
  <2>3. ToSet(delivered) \subseteq R
    BY <1>6, <1>10, <2>2 DEF ToSet
  <2>4. OD!Receive(m)
    BY <1>1, <1>6, <1>11, <2>1, <2>3
      DEF OD!Receive, OD!IsPrefix, IsPrefix, OD!ToSet, ToSet, R
  <2>5. \A i \in 1 .. Len(delivered) : delivered[i] \in R /\ delivered[i] <= w.lastID
    BY <1>4, <1>6, <1>10
  <2>6. OrderInv'
    BY <1>1, <1>4, <1>6, <1>8, <1>9, <1>10, <1>11, <2>5 DEF OrderInv, OD!Increasing
  <2>7. QED
    BY <2>4, <2>6
<1>12. CASE wl' = u /\ delivered' = delivered \o w.data
  <2> DEFINE L == Len(w.data)
             y == w.data[L]
  <2>1. L \in Nat /\ w.data # <<>> /\ L \in 1 .. L
    <3>1. m \in ToSet(w.data)
      BY <1>3
    <3>2. PICK i \in DOMAIN w.data : m = w.data[i]
      BY <3>1 DEF ToSet
    <3>3. QED
      BY <1>6, <3>2
  <2>2. /\ u.lastID = ID(y) /\ u.firstSent = (w.firstSent \/ w.data # <<>>)
        /\ u.data = <<>>
    BY <1>4, <2>1, ResetFields
  <2> HIDE DEF u
  <2>3. /\ \A i \in 1 .. L : w.data[i] \in 1 .. MaxMsg
        /\ y \in 1 .. MaxMsg /\ u.lastID = y
    <3>1. Messages = 1 .. MaxMsg /\ \A x \in Messages : ID(x) = x
      BY PlainIdentifiers
    <3>2. \A i \in 1 .. L : w.data[i] \in Messages
      BY <1>6
    <3>3. y \in Messages
      BY <2>1, <3>2
    <3> HIDE DEF y, L
    <3>4. QED
      BY <2>2, <3>1, <3>2, <3>3
  <2>4. \A i, j \in 1 .. L : i < j => w.data[i] < w.data[j]
    <3>1. \A x \in Messages : ID(x) = x
      BY PlainIdentifiers
    <3>2. \A i \in 1 .. L : w.data[i] \in Messages
      BY <1>6
    <3>3. \A i, j \in 1 .. L : i < j => ID(w.data[i]) < ID(w.data[j])
      BY <1>4 DEF WLSorted, Sorted
    <3> HIDE DEF L
    <3>4. QED
      BY <3>1, <3>2, <3>3
  <2>5. OD!Increasing(w.data)
    BY <2>4 DEF OD!Increasing
  <2>6. \A i \in 1 .. L : w.data[i] <= y
    BY <2>1, <2>3, <2>4
  <2>7. wl.lastID <= y
    BY <1>6, <1>9, <2>1, <2>3
  <2>8. \A i \in 1 .. L : wl.lastID < w.data[i] /\ w.data[i] <= y /\ w.data[i] \in R
    BY <1>9, <2>6
  <2> DEFINE s == w.data
             ds == delivered \o s
  <2>9. y \in 0 .. MaxMsg
    BY <2>3
  <2> HIDE DEF y
  <2>10. /\ ds \in Seq(Messages) /\ IsPrefix(delivered, ds) /\ OD!Increasing(ds)
         /\ \A i \in 1 .. Len(ds) : ds[i] \in R /\ ds[i] <= y
         /\ ToSet(ds) \subseteq R
    BY <1>6, <1>10, <2>5, <2>7, <2>8, <2>9, HandOver
  <2> HIDE DEF ds
  <2>11. delivered' = ds
    BY <1>12 DEF ds
  <2>12. OD!Receive(m)
    BY <1>1, <2>10, <2>11 DEF OD!Receive, OD!IsPrefix, IsPrefix, OD!ToSet, ToSet, R
  <2>13. OrderInv'
    BY <1>1, <1>10, <1>12, <2>2, <2>3, <2>9, <2>10, <2>11 DEF OrderInv, OD!Increasing
  <2>14. QED
    BY <2>12, <2>13
<1>13. QED
  BY <1>5, <1>11, <1>12

LEMMA OrderStep ==
  ASSUME NoWrap
  PROVE  StreamInv /\ OrderInv /\ [Next]_vars => OrderInv' /\ [OD!Next]_(OD!odVars)
<1> SUFFICES ASSUME StreamInv, OrderInv, [Next]_vars
             PROVE  OrderInv' /\ [OD!Next]_(OD!odVars)
  OBVIOUS
<1>1. CASE UNCHANGED <<wl, arrived, delivered>>
  BY <1>1 DEF OrderInv, OD!Increasing, OD!odVars
<1>2. ASSUME NEW m \in Messages, Duplicate(m)
      PROVE  OrderInv' /\ OD!Receive(m)
  <2>1. /\ wl' = wl /\ delivered' = delivered /\ arrived' = arrived \union {m}
        /\ arrived \subseteq Messages /\ delivered \in Seq(Messages)
    BY <1>2 DEF Duplicate, Arrives, OrderInv
  <2>2. OrderInv'
    BY <2>1 DEF OrderInv, OD!Increasing
  <2>3. IsPrefix(delivered, delivered) /\ DOMAIN delivered = 1 .. Len(delivered)
    BY <2>1 DEF IsPrefix
  <2>4. ToSet(delivered) \subseteq arrived'
    BY <2>1, <2>3 DEF ToSet, OrderInv
  <2>5. OD!Receive(m)
    BY <2>1, <2>3, <2>4
      DEF OrderInv, OD!Receive, OD!IsPrefix, IsPrefix, OD!ToSet, ToSet
  <2>6. QED
    BY <2>2, <2>5
<1>3. ASSUME NEW m \in Messages, Deliver(m)
      PROVE  OrderInv' /\ OD!Receive(m)
  BY <1>3, OrderDeliver
<1>4. ASSUME NEW m \in Messages, Hold(m)
      PROVE  OrderInv' /\ OD!Receive(m)
  BY <1>4, OrderHold
<1>5. QED
  BY <1>1, <1>2, <1>3, <1>4 DEF Next, Emit, Tick, vars, OD!Next

(* The stream implements OrderedDelivery, for V1 and V2, for any number of *)
(* messages below the largest identifier, any limits of the waiting list   *)
(* and any network.                                                        *)
THEOREM StreamOrdered ==
  ASSUME NoWrap
  PROVE  Spec => Ordered
<1>1. Init => OrderInv /\ OD!Init
  BY OrderInit
<1>2. StreamInv /\ OrderInv /\ [Next]_vars => OrderInv' /\ [OD!Next]_(OD!odVars)
  BY OrderStep
<1>3. QED
  BY <1>1, <1>2, StreamInvariant, PTL DEF Spec, Ordered, OD!Spec

-----------------------------------------------------------------------------
(* The next message, across the wrap too *)

\* What waits is above the last one sent, unless that is the largest identifier.
WLAbove(w) == w.lastID = MaxUint32 \/ \A i \in 1 .. Len(w.data) : w.lastID < ID(w.data[i])

NextInv ==
  /\ delivered \in Seq(Messages)
  /\ wl.firstSent <=> delivered # <<>>
  /\ delivered # <<>> => wl.lastID = ID(LastDelivered)
  /\ WLAbove(wl)
  /\ ThreadingBy = "endpoint" /\ ~wl.firstSent => wl.data = <<>>

LEMMA LastOfConcat ==
  ASSUME NEW S, NEW a \in Seq(S), NEW b \in Seq(S), b # <<>>
  PROVE  /\ a \o b \in Seq(S) /\ a \o b # <<>>
         /\ Last(a \o b) = b[Len(b)]
         /\ a # <<>> => (a \o b)[1] = a[1]
<1>1. Len(a) \in Nat /\ Len(b) \in Nat \ {0} /\ a \o b \in Seq(S) /\ Len(a \o b) = Len(a) + Len(b)
  BY ConcatProperties
<1>2. (a \o b)[Len(a) + Len(b)] = b[Len(b)]
  <2>1. Len(a) + Len(b) \in 1 .. Len(a) + Len(b) /\ ~(Len(a) + Len(b) <= Len(a))
        /\ (Len(a) + Len(b)) - Len(a) = Len(b)
    BY <1>1
  <2> QED  BY <2>1, ConcatProperties
<1>3. ASSUME a # <<>> PROVE (a \o b)[1] = a[1]
  <2>1. 1 \in 1 .. Len(a) + Len(b) /\ 1 <= Len(a)
    BY <1>1, <1>3
  <2> QED  BY <2>1, ConcatProperties
<1> QED  BY <1>1, <1>2, <1>3 DEF Last

\* pop leaves only identifiers above the last one it sends.
LEMMA PoppedAbove ==
  ASSUME NEW w, WLType(w), WLSorted(w), WLAbove(w)
  PROVE  /\ WLAbove(Popped(w))
         /\ \/ Popped(w) = w /\ PoppedRun(w) = <<>>
            \/ /\ PoppedRun(w) \in Seq(Messages) /\ PoppedRun(w) # <<>>
               /\ Popped(w).lastID = ID(PoppedRun(w)[Len(PoppedRun(w))])
               /\ Popped(w).firstSent
<1>1. CASE ~CanPop(w)
  BY <1>1 DEF Popped, PoppedRun
<1>2. CASE CanPop(w)
  <2> DEFINE L == Len(w.data)
             k == RunLength(w)
             r == Run(w)
             u == PopRun(w)
  <2>1. w.data # <<>> /\ L \in Nat
    BY <1>2 DEF CanPop, WLType
  <2>2. Popped(w) = u /\ PoppedRun(w) = r
    BY <1>2 DEF Popped, PoppedRun
  <2>3. /\ u.lastID = ID(w.data[k]) /\ u.firstSent = TRUE /\ k \in 1 .. L
        /\ r \in Seq(Messages) /\ Len(r) = k
        /\ \A i \in 1 .. k : r[i] = w.data[i]
        /\ Len(u.data) = L - k
        /\ \A i \in 1 .. L - k : u.data[i] = w.data[k + i]
    BY <2>1, PopRunFields
  <2>4. \A i, j \in 1 .. L : i < j => ID(w.data[i]) < ID(w.data[j])
    BY DEF WLSorted, Sorted
  <2> HIDE DEF k, r, u
  <2>5. r # <<>> /\ u.lastID = ID(r[Len(r)])
    <3>1. k \in 1 .. k /\ Len(r) # 0
      BY <2>1, <2>3
    <3> QED  BY <2>3, <3>1
  <2>6. ASSUME NEW i \in 1 .. L - k PROVE u.lastID < ID(u.data[i])
    <3>1. k + i \in 1 .. L /\ k \in 1 .. L /\ k < k + i
      BY <2>1, <2>3
    <3> QED  BY <2>3, <2>4, <3>1
  <2> QED  BY <2>2, <2>3, <2>5, <2>6 DEF WLAbove
<1> QED  BY <1>1, <1>2

\* A sorted list whose head does not follow the last one sent does not have the next one.
LEMMA NextIsAbsent ==
  ASSUME NEW w, WLInv(w), WLAbove(w)
  PROVE  \A i \in 1 .. Len(w.data) : /\ ID(w.data[i]) # Succ(w.lastID)
                                     /\ w.lastID # MaxUint32 => Succ(w.lastID) < ID(w.data[i])
<1> SUFFICES ASSUME NEW i \in 1 .. Len(w.data)
             PROVE  /\ ID(w.data[i]) # Succ(w.lastID)
                    /\ w.lastID # MaxUint32 => Succ(w.lastID) < ID(w.data[i])
  OBVIOUS
<1>1. /\ WLType(w) /\ WLSorted(w) /\ WLGap(w) /\ Len(w.data) \in Nat
      /\ MaxUint32 \in Nat /\ w.lastID \in Nat
  BY WaitingListAssumption DEF WLInv, WLType, Uint32
<1>2. w.data # <<>> /\ 1 \in 1 .. Len(w.data) /\ ID(w.data[1]) # Succ(w.lastID)
  BY <1>1 DEF WLGap, WLType
<1>3. ID(w.data[i]) \in Nat /\ ID(w.data[1]) \in Nat
  <2>1. w.data[i] \in Messages /\ w.data[1] \in Messages
    BY <1>1, <1>2 DEF WLType
  <2>2. \A x \in Messages : ID(x) \in Nat
    BY <1>1, IdentifierType DEF Uint32
  <2> QED  BY <2>1, <2>2
<1>4. CASE w.lastID = MaxUint32
  BY <1>1, <1>4 DEF Succ, WLSorted
<1>5. CASE w.lastID # MaxUint32
  <2>1. Succ(w.lastID) = w.lastID + 1 /\ w.lastID < ID(w.data[1])
    BY <1>2, <1>5 DEF Succ, WLAbove
  <2>2. Succ(w.lastID) < ID(w.data[1])
    BY <1>1, <1>2, <1>3, <2>1
  <2>3. ID(w.data[1]) <= ID(w.data[i])
    <3>1. i = 1 \/ 1 < i
      BY <1>1
    <3>2. 1 < i => ID(w.data[1]) < ID(w.data[i])
      BY <1>1, <1>2, <3>1 DEF WLSorted, Sorted
    <3> QED  BY <1>3, <3>1, <3>2
  <2> QED  BY <1>1, <1>3, <2>1, <2>2, <2>3
<1> QED  BY <1>4, <1>5

LEMMA NextDeliver ==
  ASSUME StreamInv, NextInv, NEW m \in Messages, Deliver(m)
  PROVE  NextInv' /\ m \in ToSet(delivered')
<1>1. PICK w : w = Send(wl, m)
  OBVIOUS
<1>2. PICK r : r = PoppedRun(w)
  OBVIOUS
<1>3. /\ WLInv(wl) /\ WLType(wl) /\ WLSorted(wl) /\ WLGap(wl) /\ ~CanPop(wl)
  BY HeadWaits DEF StreamInv, WLInv
<1>4. /\ wl' = Popped(w) /\ delivered' = (delivered \o <<m>>) \o r
      /\ ~IsDuplicate(wl, m) /\ (StartsStream(wl, m) \/ FollowsLast(wl, m))
  BY <1>1, <1>2, <1>3 DEF Deliver, SentAtOnce
<1>5. /\ WLType(w) /\ w.lastID = ID(m) /\ w.firstSent = TRUE
      /\ w.data = wl.data /\ w.idsMap = wl.idsMap
  BY <1>1, <1>3, SendFields
<1>6. WLSorted(w)
  BY <1>3, <1>5 DEF WLSorted
<1>7. WLAbove(w)
  <2> SUFFICES ASSUME NEW i \in 1 .. Len(wl.data), ID(m) # MaxUint32
               PROVE  ID(m) < ID(wl.data[i])
    BY <1>5 DEF WLAbove
  <2>1. MaxUint32 \in Nat \ {0} /\ wl.lastID \in Nat /\ wl.lastID <= MaxUint32 /\ ID(m) \in Nat
    BY <1>3, WaitingListAssumption, IdentifierType DEF WLType, Uint32
  <2>2. ID(wl.data[i]) \in Nat \ {0}
    <3>1. wl.data[i] \in Messages /\ ID(wl.data[i]) # 0
      BY <1>3 DEF WLType, WLSorted
    <3> QED  BY <2>1, <3>1, IdentifierType DEF Uint32
  <2>3. ~(wl.lastID >= ID(m) /\ wl.lastID < MaxUint32)
    BY <1>4 DEF IsDuplicate
  <2>4. /\ ID(wl.data[i]) # Succ(wl.lastID)
        /\ wl.lastID # MaxUint32 => Succ(wl.lastID) < ID(wl.data[i])
    BY <1>3, NextIsAbsent DEF NextInv
  <2>5. CASE ID(m) = 0
    BY <2>2, <2>5
  <2>6. CASE FollowsLast(wl, m) /\ ID(m) # 0
    <3>1. ID(m) = Succ(wl.lastID)
      BY <2>6 DEF FollowsLast
    <3>2. wl.lastID # MaxUint32
      BY <2>6, <3>1 DEF Succ
    <3> QED  BY <2>4, <3>1, <3>2
  <2>7. CASE StartsStream(wl, m) /\ ThreadingBy # "endpoint"
    <3>1. wl.lastID = 0 /\ ID(m) = 1
      BY <1>3, <2>7 DEF StartsStream, WLGap
    <3>2. Succ(wl.lastID) = 1 /\ wl.lastID # MaxUint32
      BY <2>1, <3>1 DEF Succ
    <3> QED  BY <2>4, <3>1, <3>2
  <2>8. CASE StartsStream(wl, m) /\ ThreadingBy = "endpoint"
    <3>1. wl.data = <<>>
      BY <2>8 DEF StartsStream, NextInv
    <3> QED  BY <3>1
  <2> QED  BY <1>4, <2>5, <2>6, <2>7, <2>8
<1>8. /\ WLAbove(Popped(w))
      /\ \/ Popped(w) = w /\ r = <<>>
         \/ /\ r \in Seq(Messages) /\ r # <<>> /\ Popped(w).lastID = ID(r[Len(r)])
            /\ Popped(w).firstSent
  BY <1>2, <1>5, <1>6, <1>7, PoppedAbove
<1>9. PICK one : one = <<m>>
  OBVIOUS
<1>10. PICK d : d = delivered \o one
  OBVIOUS
<1>11. /\ d \in Seq(Messages) /\ d # <<>> /\ Last(d) = m /\ Len(d) \in Nat \ {0}
       /\ DOMAIN d = 1 .. Len(d)
  <2>1. one \in Seq(Messages) /\ one # <<>> /\ one[Len(one)] = m
    BY <1>9
  <2>2. delivered \in Seq(Messages)
    BY DEF NextInv
  <2>3. d \in Seq(Messages) /\ d # <<>> /\ Last(d) = m
    BY <1>10, <2>1, <2>2, LastOfConcat
  <2> QED  BY <2>3
<1>12. CASE Popped(w) = w /\ r = <<>>
  <2>1. delivered' = d
    BY <1>4, <1>9, <1>10, <1>12
  <2>2. m \in ToSet(d)
    BY <1>11 DEF Last, ToSet
  <2> QED  BY <1>4, <1>5, <1>8, <1>10, <1>11, <1>12, <2>1, <2>2 DEF NextInv, LastDelivered
<1>13. CASE /\ r \in Seq(Messages) /\ r # <<>> /\ Popped(w).lastID = ID(r[Len(r)])
            /\ Popped(w).firstSent
  <2>1. delivered' = d \o r
    BY <1>4, <1>9, <1>10
  <2>2. d \o r \in Seq(Messages) /\ d \o r # <<>> /\ Last(d \o r) = r[Len(r)]
    BY <1>11, <1>13, LastOfConcat
  <2>3. m \in ToSet(d \o r)
    <3>1. Len(d) \in 1 .. Len(d \o r) /\ (d \o r)[Len(d)] = d[Len(d)]
      BY <1>11, <1>13, ConcatProperties
    <3>2. DOMAIN (d \o r) = 1 .. Len(d \o r)
      BY <2>2
    <3> QED  BY <1>11, <3>1, <3>2 DEF ToSet, Last
  <2> QED  BY <1>4, <1>8, <1>13, <2>1, <2>2, <2>3 DEF NextInv, LastDelivered
<1> QED  BY <1>8, <1>12, <1>13

LEMMA NextHold ==
  ASSUME StreamInv, NextInv, NEW m \in Messages, Hold(m)
  PROVE  NextInv'
<1>1. PICK w : w = Push(wl, m, now)
  OBVIOUS
<1>2. /\ WLInv(wl) /\ WLType(wl) /\ ~IsDuplicate(wl, m) /\ ~SentAtOnce(wl, m)
  BY DEF StreamInv, WLInv, Hold
<1>3. /\ ~PushFails(wl, m) /\ WLInv(w) /\ ToSet(w.data) = ToSet(wl.data) \union {m}
  BY <1>1, <1>2, HeldIdentifier, PushKeeps
<1>4. w.lastID = wl.lastID /\ w.firstSent = wl.firstSent
  BY <1>1, <1>2, PushFields
<1>5. WLType(w) /\ WLSorted(w) /\ w.data \in Seq(Messages) /\ w.data # <<>>
  <2>1. WLType(w) /\ WLSorted(w) /\ w.data \in Seq(Messages)
    BY <1>3 DEF WLInv, WLType
  <2>2. m \in ToSet(w.data)
    BY <1>3
  <2> QED  BY <2>1, <2>2 DEF ToSet
<1>6. \/ wl' = w /\ delivered' = delivered
      \/ wl' = Reset(w) /\ delivered' = delivered \o w.data
  BY <1>1, <1>3 DEF Hold
<1>7. CASE wl' = w /\ delivered' = delivered
  <2>1. WLAbove(w)
    <3> SUFFICES ASSUME w.lastID # MaxUint32, NEW i \in 1 .. Len(w.data)
                 PROVE  w.lastID < ID(w.data[i])
      BY DEF WLAbove
    <3>1. w.data[i] \in ToSet(wl.data) \union {m}
      <4>1. DOMAIN w.data = 1 .. Len(w.data)
        BY <1>5
      <4> QED  BY <1>3, <4>1 DEF ToSet
    <3>2. CASE w.data[i] \in ToSet(wl.data)
      <4>1. DOMAIN wl.data = 1 .. Len(wl.data)
        BY <1>2 DEF WLType
      <4> QED  BY <1>4, <3>2, <4>1 DEF NextInv, WLAbove, ToSet
    <3>3. CASE w.data[i] = m
      <4>1. wl.lastID \in 0 .. MaxUint32 /\ ID(m) \in 0 .. MaxUint32 /\ MaxUint32 \in Nat
        BY <1>2, IdentifierType, WaitingListAssumption DEF WLType, Uint32
      <4> QED  BY <1>2, <1>4, <3>3, <4>1 DEF IsDuplicate
    <3> QED  BY <3>1, <3>2, <3>3
  <2>2. ThreadingBy = "endpoint" => wl.firstSent
    BY <1>2 DEF SentAtOnce, StartsStream
  <2> QED  BY <1>4, <1>7, <2>1, <2>2 DEF NextInv, LastDelivered
<1>8. CASE wl' = Reset(w) /\ delivered' = delivered \o w.data
  <2>1. PICK u : u = Reset(w)
    OBVIOUS
  <2>2. /\ u.lastID = ID(w.data[Len(w.data)]) /\ u.firstSent /\ u.data = <<>>
    BY <1>5, <2>1, ResetFields
  <2>3. /\ delivered \o w.data \in Seq(Messages) /\ delivered \o w.data # <<>>
        /\ Last(delivered \o w.data) = w.data[Len(w.data)]
    BY <1>5, LastOfConcat DEF NextInv
  <2>4. WLAbove(u)
    BY <2>2 DEF WLAbove
  <2> QED  BY <1>8, <2>1, <2>2, <2>3, <2>4 DEF NextInv, LastDelivered
<1> QED  BY <1>6, <1>7, <1>8

LEMMA NextInit == Init => NextInv
<1> SUFFICES ASSUME Init PROVE NextInv
  OBVIOUS
<1>1. /\ wl.lastID = 0 /\ wl.firstSent = FALSE /\ wl.data = <<>> /\ delivered = <<>>
  BY DEF Init, NewWaitingList
<1>2. <<>> \in Seq(Messages) /\ Len(<<>>) = 0
  OBVIOUS
<1> QED  BY <1>1, <1>2 DEF NextInv, WLAbove

LEMMA NextStep == StreamInv /\ NextInv /\ [Next]_vars => NextInv'
<1> SUFFICES ASSUME StreamInv, NextInv, [Next]_vars PROVE NextInv'
  OBVIOUS
<1>1. CASE UNCHANGED <<wl, delivered>>
  BY <1>1 DEF NextInv, LastDelivered
<1>2. ASSUME NEW m \in Messages, Deliver(m) PROVE NextInv'
  BY <1>2, NextDeliver
<1>3. ASSUME NEW m \in Messages, Hold(m) PROVE NextInv'
  BY <1>3, NextHold
<1> QED  BY <1>1, <1>2, <1>3 DEF Next, Emit, Tick, Duplicate, vars

\* The identifier after that of the last message sent is that of the next message.
LEMMA NextIdentifier ==
  ASSUME NEW m \in Messages, m + 1 \in Messages
  PROVE  ID(m + 1) = Succ(ID(m))
BY WaitingListAssumption DEF Messages, ID, Succ

LEMMA NextIsDelivered ==
  ASSUME StreamInv, NextInv, NEW m \in Messages, Receive(m), delivered # <<>>, m = LastDelivered + 1
  PROVE  m \in ToSet(delivered')
<1>1. PICK l \in Messages : l = LastDelivered
  <2>1. Len(delivered) \in 1 .. Len(delivered) /\ delivered \in Seq(Messages)
    BY DEF NextInv
  <2>2. delivered[Len(delivered)] \in Messages
    BY <2>1
  <2>3. LastDelivered = delivered[Len(delivered)]
    BY DEF LastDelivered, Last
  <2> QED  BY <2>2, <2>3
<1>2. wl.firstSent /\ wl.lastID = ID(l) /\ ID(m) = Succ(wl.lastID)
  BY <1>1, NextIdentifier DEF NextInv
<1>3. ~Exists(wl, m)
  BY <1>2, NextIsAbsent DEF Exists, StreamInv, NextInv, WLInv, WLSorted
<1>4. ~(wl.lastID >= ID(m) /\ wl.lastID < MaxUint32)
  <2>1. MaxUint32 \in Nat /\ wl.lastID \in 0 .. MaxUint32
    BY WaitingListAssumption DEF StreamInv, WLInv, WLType, Uint32
  <2> QED  BY <1>2, <2>1 DEF Succ
<1>5. FollowsLast(wl, m)
  BY <1>2 DEF FollowsLast
<1>6. Deliver(m)
  BY <1>3, <1>4, <1>5 DEF Receive, Duplicate, Hold, IsDuplicate, SentAtOnce
<1> QED  BY <1>6, NextDeliver

-----------------------------------------------------------------------------
(* What is lost, without wrap *)

\* The first message delivered, the last one, and what lies between.
LossInv ==
  /\ lost \subseteq Messages
  /\ ThreadingBy = "session" /\ delivered # <<>> => delivered[1] = 1 \/ delivered[1] \in forced
  /\ LossExplained

Gaps(s, F) == \A i \in 1 .. Len(s) - 1 : s[i + 1] # s[i] + 1 => s[i + 1] \in F

LEMMA GapsOfConcat ==
  ASSUME NEW d \in Seq(Messages), NEW t \in Seq(Messages), t # <<>>, NEW F, Gaps(d, F), Gaps(t, F),
         d # <<>> => t[1] = Last(d) + 1 \/ t[1] \in F
  PROVE  Gaps(d \o t, F)
<1>1. /\ Len(d) \in Nat /\ Len(t) \in Nat \ {0} /\ Len(d \o t) = Len(d) + Len(t)
      /\ \A i \in 1 .. Len(d) + Len(t) : (d \o t)[i] = IF i <= Len(d) THEN d[i] ELSE t[i - Len(d)]
  BY ConcatProperties
<1> SUFFICES ASSUME NEW i \in 1 .. Len(d) + Len(t) - 1, (d \o t)[i + 1] # (d \o t)[i] + 1
             PROVE  (d \o t)[i + 1] \in F
  BY <1>1 DEF Gaps
<1>2. CASE i + 1 <= Len(d)
  <2>1. i \in 1 .. Len(d) - 1 /\ (d \o t)[i] = d[i] /\ (d \o t)[i + 1] = d[i + 1]
    BY <1>1, <1>2
  <2> QED  BY <2>1 DEF Gaps
<1>3. CASE i = Len(d)
  <2>1. d # <<>> /\ (d \o t)[i] = Last(d) /\ (d \o t)[i + 1] = t[1]
    BY <1>1, <1>3 DEF Last
  <2> QED  BY <2>1
<1>4. CASE i > Len(d)
  <2>1. /\ i - Len(d) \in 1 .. Len(t) - 1 /\ (i + 1) - Len(d) = (i - Len(d)) + 1
        /\ (d \o t)[i] = t[i - Len(d)] /\ (d \o t)[i + 1] = t[(i - Len(d)) + 1]
    <3>1. i - Len(d) \in 1 .. Len(t) - 1 /\ (i + 1) - Len(d) = (i - Len(d)) + 1
      BY <1>1, <1>4
    <3>2. /\ i \in 1 .. Len(d) + Len(t) /\ i + 1 \in 1 .. Len(d) + Len(t)
          /\ ~(i <= Len(d)) /\ ~(i + 1 <= Len(d))
      BY <1>1, <1>4
    <3> QED  BY <1>1, <3>1, <3>2
  <2> QED  BY <2>1 DEF Gaps
<1> QED  BY <1>1, <1>2, <1>3, <1>4

\* A message is discarded unseen only when it is late: something above it went out first.
LEMMA LostHasReason ==
  ASSUME NoWrap, StreamInv, OrderInv, NextInv, LossInv, NEW m \in Messages,
         IsDuplicate(wl, m), m \notin ToSet(delivered) \union waiting
  PROVE  \/ \E f \in forced : m < f
         \/ ThreadingBy = "endpoint" /\ delivered # <<>> /\ m < delivered[1]
<1>1. /\ MaxMsg \in Nat /\ m \in 1 .. MaxMsg /\ ID(m) = m /\ Messages = 1 .. MaxMsg
      /\ WLType(wl) /\ WLSorted(wl) /\ WLGap(wl)
  BY PlainIdentifiers DEF StreamInv, WLInv
<1>2. ~Exists(wl, m)
  <2> SUFFICES ASSUME NEW i \in 1 .. Len(wl.data), ID(wl.data[i]) = m PROVE FALSE
    BY <1>1 DEF Exists, WLSorted
  <2>1. wl.data[i] \in Messages /\ wl.data[i] \in waiting
    BY <1>1 DEF WLType, waiting, ToSet
  <2> QED  BY <2>1, PlainIdentifiers
<1>3. wl.lastID >= m /\ delivered # <<>>
  BY <1>1, <1>2 DEF IsDuplicate, NextInv, WLGap
<1>4. PICK n \in Nat \ {0} : n = Len(delivered) /\ DOMAIN delivered = 1 .. n
  BY <1>3 DEF NextInv
<1>5. \A i \in 1 .. n : delivered[i] \in 1 .. MaxMsg /\ delivered[i] # m
  BY <1>1, <1>4 DEF NextInv, ToSet
<1>6. delivered[n] = wl.lastID
  <2>1. LastDelivered = delivered[n]
    BY <1>3, <1>4 DEF LastDelivered, Last
  <2>2. delivered[n] \in Messages
    BY <1>1, <1>4, <1>5
  <2> QED  BY <1>3, <2>1, <2>2, PlainIdentifiers DEF NextInv
<1> DEFINE B == {i \in 1 .. n : m < delivered[i]}
<1>7. n \in B /\ B \in SUBSET Nat
  BY <1>1, <1>3, <1>4, <1>5, <1>6
<1>8. PICK b \in B : \A i \in B : b <= i
  <2>1. Min(B) \in B /\ \A i \in B : Min(B) <= i
    <3> HIDE DEF B
    <3> QED  BY <1>7, MinIsLeast
  <2> QED  BY <2>1
<1>9. CASE b = 1
  BY <1>1, <1>3, <1>8, <1>9, StreamAssumption DEF LossInv
<1>10. CASE b # 1
  <2>1. b \in 1 .. n /\ b - 1 \in 1 .. n /\ b - 1 \notin B /\ m < delivered[b]
    BY <1>8, <1>10
  <2>2. delivered[b - 1] < m
    BY <1>1, <1>5, <2>1
  <2>3. delivered[b] # delivered[b - 1] + 1
    BY <1>1, <1>5, <2>1, <2>2
  <2>4. b - 1 \in 1 .. Len(delivered) - 1 /\ (b - 1) + 1 = b
    BY <1>4, <2>1
  <2>5. delivered[b] \in forced
    BY <2>3, <2>4 DEF LossInv, LossExplained
  <2> QED  BY <2>1, <2>5
<1> QED  BY <1>9, <1>10

\* What goes out without a reset is the next message and the run after it.
LEMMA LossDeliver ==
  ASSUME NoWrap, StreamInv, OrderInv, NextInv, LossInv, NEW m \in Messages, Deliver(m)
  PROVE  LossInv'
<1>1. PICK w : w = Send(wl, m)
  OBVIOUS
<1>2. PICK r : r = PoppedRun(w)
  OBVIOUS
<1>3. /\ WLType(wl) /\ WLSorted(wl) /\ WLGap(wl) /\ ~CanPop(wl)
  BY HeadWaits DEF StreamInv, WLInv
<1>4. /\ delivered' = (delivered \o <<m>>) \o r /\ UNCHANGED <<forced, lost>>
      /\ StartsStream(wl, m) \/ FollowsLast(wl, m)
  BY <1>1, <1>2, <1>3 DEF Deliver, SentAtOnce
<1>5. /\ WLType(w) /\ w.lastID = m /\ w.data = wl.data /\ Len(w.data) \in Nat
      /\ w.data \in Seq(Messages)
      /\ \A i \in 1 .. Len(w.data) : w.data[i] \in Messages /\ ID(w.data[i]) = w.data[i]
  <2>1. WLType(w) /\ w.lastID = ID(m) /\ w.data = wl.data
    BY <1>1, <1>3, SendFields
  <2>2. w.data \in Seq(Messages) /\ Len(w.data) \in Nat
    BY <2>1 DEF WLType
  <2>3. \A i \in 1 .. Len(w.data) : w.data[i] \in Messages
    BY <2>2
  <2>4. \A x \in Messages : ID(x) = x
    BY PlainIdentifiers
  <2> QED  BY <2>1, <2>2, <2>3, <2>4
<1>6. MaxMsg \in Nat /\ m \in 1 .. MaxMsg /\ Messages = 1 .. MaxMsg /\ ID(m) = m
  BY PlainIdentifiers
<1>7. PICK d : d = delivered \o <<m>>
  OBVIOUS
<1>8. /\ d \in Seq(Messages) /\ d # <<>> /\ Last(d) = m /\ Gaps(d, forced)
      /\ d[1] = IF delivered = <<>> THEN m ELSE delivered[1]
  <2>1. PICK one : one = <<m>>
    OBVIOUS
  <2>2. one \in Seq(Messages) /\ one # <<>> /\ Len(one) = 1 /\ one[1] = m /\ Gaps(one, forced)
    BY <2>1 DEF Gaps
  <2>3. delivered \in Seq(Messages) /\ Gaps(delivered, forced)
    BY DEF NextInv, LossInv, LossExplained, Gaps
  <2>4. delivered # <<>> => m = Last(delivered) + 1
    <3> SUFFICES ASSUME delivered # <<>> PROVE m = Last(delivered) + 1
      OBVIOUS
    <3>1. PICK l \in Messages : l = Last(delivered)
      <4>1. Len(delivered) \in 1 .. Len(delivered)
        BY <2>3
      <4>2. delivered[Len(delivered)] \in Messages
        BY <2>3, <4>1
      <4> QED  BY <4>2 DEF Last
    <3>2. wl.firstSent /\ wl.lastID = l
      BY <3>1, PlainIdentifiers DEF NextInv, LastDelivered
    <3>3. Succ(l) = l + 1
      BY <1>6, <3>1, PlainIdentifiers
    <3> QED  BY <1>4, <1>6, <3>1, <3>2, <3>3 DEF StartsStream, FollowsLast
  <2>5. d \in Seq(Messages) /\ d # <<>> /\ Last(d) = m /\ Gaps(d, forced)
    BY <1>7, <2>1, <2>2, <2>3, <2>4, GapsOfConcat, LastOfConcat
  <2>6. d[1] = IF delivered = <<>> THEN m ELSE delivered[1]
    BY <1>7, <2>1, <2>2, <2>3, LastOfConcat
  <2> QED  BY <2>5, <2>6
<1>9. CASE ~CanPop(w)
  <2>1. r = <<>> /\ delivered' = d
    BY <1>2, <1>4, <1>7, <1>8, <1>9 DEF PoppedRun
  <2> QED  BY <1>4, <1>6, <1>8, <2>1 DEF LossInv, LossExplained, Gaps, StartsStream, FollowsLast, NextInv
<1>10. CASE CanPop(w)
  <2> DEFINE k == RunLength(w)
  <2>1. w.data # <<>> /\ r = Run(w)
    BY <1>2, <1>10 DEF CanPop, PoppedRun
  <2>2. /\ k \in 1 .. Len(w.data) /\ r \in Seq(Messages) /\ Len(r) = k
        /\ \A i \in 1 .. k : r[i] = w.data[i]
    BY <1>5, <2>1, PopRunFields
  <2>3. \A j \in 1 .. Len(w.data) : j < k => ID(w.data[j + 1]) = Succ(ID(w.data[j]))
    BY <1>5, <2>1, RunLengthProperties
  <2>4. ID(w.data[1]) = Succ(m) \/ ID(w.data[1]) = 0
    BY <1>5, <1>10 DEF CanPop
  <2> HIDE DEF k
  <2>5. r # <<>> /\ r[1] = m + 1
    <3>1. 1 \in 1 .. k /\ 1 \in 1 .. Len(w.data)
      BY <1>5, <2>2
    <3>2. w.data[1] \in 1 .. MaxMsg /\ ID(w.data[1]) = w.data[1]
      BY <1>5, <1>6, <3>1
    <3>3. Succ(m) = m + 1
      BY <1>6, PlainIdentifiers
    <3> QED  BY <2>2, <2>4, <3>1, <3>2, <3>3
  <2>6. Gaps(r, forced)
    <3> SUFFICES ASSUME NEW i \in 1 .. k - 1 PROVE r[i + 1] = r[i] + 1
      BY <2>2 DEF Gaps
    <3>1. i \in 1 .. k /\ i + 1 \in 1 .. k /\ i \in 1 .. Len(w.data) /\ i + 1 \in 1 .. Len(w.data)
      BY <1>5, <2>2
    <3>2. w.data[i] \in 0 .. MaxMsg /\ ID(w.data[i]) = w.data[i] /\ ID(w.data[i + 1]) = w.data[i + 1]
      BY <1>5, <1>6, <3>1
    <3>3. Succ(w.data[i]) = w.data[i] + 1
      BY <3>2, PlainIdentifiers
    <3> QED  BY <2>2, <2>3, <3>1, <3>2, <3>3
  <2>7. /\ delivered' = d \o r /\ Gaps(d \o r, forced)
        /\ (d \o r)[1] = d[1] /\ d \o r # <<>>
    BY <1>4, <1>7, <1>8, <2>2, <2>5, <2>6, GapsOfConcat, LastOfConcat
  <2> QED  BY <1>4, <1>6, <1>8, <2>7 DEF LossInv, LossExplained, Gaps, StartsStream, FollowsLast, NextInv
<1> QED  BY <1>9, <1>10

\* A reset hands over what waits: all of that is forced.
LEMMA LossHold ==
  ASSUME NoWrap, StreamInv, NextInv, LossInv, NEW m \in Messages, Hold(m)
  PROVE  LossInv'
<1>1. PICK w : w = Push(wl, m, now)
  OBVIOUS
<1>2. WLInv(wl) /\ ~IsDuplicate(wl, m) /\ ~SentAtOnce(wl, m)
  BY DEF StreamInv, Hold
<1>3. ~PushFails(wl, m) /\ WLInv(w) /\ ToSet(w.data) = ToSet(wl.data) \union {m}
  BY <1>1, <1>2, HeldIdentifier, PushKeeps
<1>4. lost' = lost
      /\ \/ delivered' = delivered /\ forced' = forced
         \/ delivered' = delivered \o w.data /\ forced' = forced \union ToSet(w.data)
  BY <1>1, <1>3 DEF Hold
<1>5. CASE delivered' = delivered /\ forced' = forced
  BY <1>4, <1>5 DEF LossInv, LossExplained
<1>6. CASE delivered' = delivered \o w.data /\ forced' = forced \union ToSet(w.data)
  <2>1. w.data \in Seq(Messages) /\ DOMAIN w.data = 1 .. Len(w.data) /\ Len(w.data) \in Nat
    BY <1>3 DEF WLInv, WLType
  <2>2. w.data # <<>>
    BY <1>3, <2>1 DEF ToSet
  <2>3. \A i \in 1 .. Len(w.data) : w.data[i] \in forced'
    BY <1>6, <2>1 DEF ToSet
  <2>4. Gaps(w.data, forced') /\ w.data[1] \in forced'
    BY <2>1, <2>2, <2>3 DEF Gaps
  <2>5. delivered \in Seq(Messages) /\ Gaps(delivered, forced')
    BY <1>6 DEF NextInv, LossInv, LossExplained, Gaps
  <2>6. /\ Gaps(delivered', forced') /\ delivered' # <<>>
        /\ delivered # <<>> => delivered'[1] = delivered[1]
    BY <1>6, <2>1, <2>2, <2>4, <2>5, GapsOfConcat, LastOfConcat
  <2>7. delivered = <<>> => delivered'[1] \in forced'
    <3>1. <<>> \o w.data = w.data
      BY <2>1
    <3> QED  BY <1>6, <2>4, <3>1
  <2> QED  BY <1>4, <1>6, <2>6, <2>7 DEF LossInv, LossExplained, Gaps
<1> QED  BY <1>4, <1>5, <1>6

LEMMA LossStep ==
  ASSUME NoWrap
  PROVE  StreamInv /\ OrderInv /\ NextInv /\ LossInv /\ [Next]_vars => LossInv'
<1> SUFFICES ASSUME StreamInv, OrderInv, NextInv, LossInv, [Next]_vars PROVE LossInv'
  OBVIOUS
<1>1. CASE UNCHANGED <<delivered, forced, lost>>
  BY <1>1 DEF LossInv, LossExplained
<1>2. ASSUME NEW m \in Messages, Duplicate(m) PROVE LossInv'
  <2>1. UNCHANGED <<delivered, forced>> /\ IsDuplicate(wl, m)
    BY <1>2 DEF Duplicate
  <2>2. CASE m \in ToSet(delivered) \union waiting
    BY <1>1, <1>2, <2>2 DEF Duplicate
  <2>3. CASE m \notin ToSet(delivered) \union waiting
    <3>1. lost' = lost \union {m}
      BY <1>2, <2>3 DEF Duplicate
    <3>2. \/ \E f \in forced : m < f
          \/ ThreadingBy = "endpoint" /\ delivered # <<>> /\ m < delivered[1]
      BY <2>1, <2>3, LostHasReason
    <3> QED  BY <2>1, <3>1, <3>2 DEF LossInv, LossExplained
  <2> QED  BY <2>2, <2>3
<1>3. ASSUME NEW m \in Messages, Deliver(m) PROVE LossInv'
  BY <1>3, LossDeliver
<1>4. ASSUME NEW m \in Messages, Hold(m) PROVE LossInv'
  BY <1>4, LossHold
<1> QED  BY <1>1, <1>2, <1>3, <1>4 DEF Next, Emit, Tick, vars

LEMMA LossInit == Init => LossInv
<1> SUFFICES ASSUME Init PROVE LossInv
  OBVIOUS
<1>1. lost = {} /\ delivered = <<>> /\ Len(delivered) = 0
  BY DEF Init
<1> QED  BY <1>1 DEF LossInv, LossExplained

-----------------------------------------------------------------------------

\* The message after the last one delivered goes out the moment it comes in, for V1 and
\* V2, across the wrap of the identifier (wlist.go pop, stream.v2.go:87).
THEOREM StreamNextAtOnce == Spec => NextAtOnce
<1>1. StreamInv /\ NextInv
        => \A m \in Messages \ arrived :
           Receive(m) /\ delivered # <<>> /\ m = LastDelivered + 1 => m \in ToSet(delivered')
  BY NextIsDelivered
<1> QED  BY <1>1, NextInit, NextStep, StreamInvariant, PTL DEF Spec, NextAtOnce

\* What the receiver misses has a reason, while identifiers do not wrap: a message is
\* discarded unseen only after a reset handed over a later one or, for V2, when the
\* stream started with a later one; and the numbering has a hole only where a reset
\* gave up on the missing messages.
THEOREM StreamLossExplained ==
  ASSUME NoWrap
  PROVE  Spec => []LossExplained
<1>1. LossInv => LossExplained
  BY DEF LossInv
<1>2. Init => OrderInv /\ NextInv /\ LossInv
  BY OrderInit, NextInit, LossInit
<1>3. StreamInv /\ OrderInv /\ NextInv /\ LossInv /\ [Next]_vars => OrderInv' /\ NextInv' /\ LossInv'
  BY OrderStep, NextStep, LossStep
<1> QED  BY <1>1, <1>2, <1>3, StreamInvariant, PTL DEF Spec

-----------------------------------------------------------------------------
(* Held for a gap, without wrap *)

\* What came in is behind the last one sent, or waits.
HeldInv == \A m \in arrived : m <= wl.lastID \/ m \in waiting

\* Nothing that waits has waited longer than firstMessageTs says.
TimeInv ==
  /\ now \in Nat \ {0}
  /\ wl.data # <<>> =>
       /\ wl.firstMessageTs \in Nat \ {0} /\ wl.firstMessageTs <= now
       /\ \A k \in waiting : since[k] \in Nat /\ wl.firstMessageTs <= since[k]
  /\ waiting \subseteq DOMAIN since

LEMMA PoppedGone ==
  ASSUME NEW w, WLType(w), WLSorted(w)
  PROVE  /\ ToSet(Popped(w).data) = ToSet(w.data) \ ToSet(PoppedRun(w))
         /\ Popped(w).data # <<>> => Popped(w).firstMessageTs = w.firstMessageTs
<1>1. CASE ~CanPop(w)
  BY <1>1 DEF Popped, PoppedRun, ToSet
<1>2. CASE CanPop(w)
  <2> DEFINE L == Len(w.data)
             k == RunLength(w)
             r == Run(w)
             u == PopRun(w)
  <2>1. w.data # <<>> /\ L \in Nat /\ w.data \in Seq(Messages)
    BY <1>2 DEF CanPop, WLType
  <2>2. Popped(w) = u /\ PoppedRun(w) = r
    BY <1>2 DEF Popped, PoppedRun
  <2>3. /\ k \in 1 .. L /\ r \in Seq(Messages) /\ Len(r) = k
        /\ \A i \in 1 .. k : r[i] = w.data[i]
        /\ u.data \in Seq(Messages) /\ Len(u.data) = L - k
        /\ \A i \in 1 .. L - k : u.data[i] = w.data[k + i]
    BY <2>1, PopRunFields
  <2>4. u.data # <<>> => u.firstMessageTs = w.firstMessageTs
    <3>1. u = [w EXCEPT !.lastID = ID(w.data[k]),
                        !.firstSent = TRUE,
                        !.data = SubSeq(@, k + 1, Len(@)),
                        !.idsMap = @ \ {ID(x) : x \in ToSet(r)},
                        !.dataSize = @ - SizeOf(ToSet(r)),
                        !.firstMessageTs = IF k = Len(w.data) THEN 0 ELSE @]
      BY DEF PopRun
    <3> HIDE DEF u, r, k
    <3>2. u.firstMessageTs = IF k = L THEN 0 ELSE w.firstMessageTs
      BY <3>1 DEF WLType
    <3>3. u.data # <<>> => k # L
      BY <2>1, <2>3
    <3> QED  BY <3>2, <3>3
  <2> HIDE DEF k, r, u
  <2>5. \A x : x \in ToSet(w.data) <=> \E i \in 1 .. L : x = w.data[i]
    BY <2>1 DEF ToSet
  <2>6. \A x : x \in ToSet(r) <=> \E i \in 1 .. k : x = w.data[i]
    <3>1. DOMAIN r = 1 .. k
      BY <2>3
    <3> QED  BY <2>3, <3>1 DEF ToSet
  <2>7. \A x : x \in ToSet(u.data) <=> \E i \in 1 .. L - k : x = w.data[k + i]
    <3>1. PICK d : d = u.data
      OBVIOUS
    <3>2. /\ d \in Seq(Messages) /\ Len(d) = L - k /\ DOMAIN d = 1 .. L - k
          /\ \A i \in 1 .. L - k : d[i] = w.data[k + i]
      BY <2>3, <3>1
    <3>3. \A x : x \in ToSet(d) <=> \E i \in 1 .. L - k : x = d[i]
      BY <3>2 DEF ToSet
    <3> QED  BY <3>1, <3>2, <3>3
  <2>8. \A i, j \in 1 .. L : w.data[i] = w.data[j] => i = j
    <3> SUFFICES ASSUME NEW i \in 1 .. L, NEW j \in 1 .. L, w.data[i] = w.data[j], i < j
                 PROVE  FALSE
      BY <2>1
    <3>1. ID(w.data[i]) < ID(w.data[j])
      BY DEF WLSorted, Sorted
    <3>2. w.data[i] \in Messages
      BY <2>1
    <3>3. ID(w.data[i]) \in Int
      BY <3>2, IdentifierType, WaitingListAssumption DEF Uint32
    <3> QED  BY <3>1, <3>3
  <2>9. ToSet(u.data) = ToSet(w.data) \ ToSet(r)
    <3>1. ASSUME NEW x \in ToSet(u.data) PROVE x \in ToSet(w.data) /\ x \notin ToSet(r)
      <4>1. PICK i \in 1 .. L - k : x = w.data[k + i]
        BY <2>7
      <4>2. k + i \in 1 .. L /\ \A j \in 1 .. k : j \in 1 .. L /\ j # k + i
        BY <2>1, <2>3
      <4> QED  BY <2>5, <2>6, <2>8, <4>1, <4>2
    <3>2. ASSUME NEW x \in ToSet(w.data), x \notin ToSet(r) PROVE x \in ToSet(u.data)
      <4>1. PICK i \in 1 .. L : x = w.data[i]
        BY <2>5
      <4>2. i \notin 1 .. k
        BY <2>6, <3>2, <4>1
      <4>3. i - k \in 1 .. L - k /\ k + (i - k) = i
        BY <2>1, <2>3, <4>2
      <4> QED  BY <2>7, <4>1, <4>3
    <3> QED  BY <3>1, <3>2
  <2> QED  BY <2>2, <2>4, <2>9
<1> QED  BY <1>1, <1>2

LEMMA ToSetOfConcat ==
  ASSUME NEW S, NEW a \in Seq(S), NEW b \in Seq(S)
  PROVE  ToSet(a \o b) = ToSet(a) \union ToSet(b)
<1>1. /\ Len(a) \in Nat /\ Len(b) \in Nat /\ Len(a \o b) = Len(a) + Len(b) /\ a \o b \in Seq(S)
      /\ \A i \in 1 .. Len(a) + Len(b) : (a \o b)[i] = IF i <= Len(a) THEN a[i] ELSE b[i - Len(a)]
  BY ConcatProperties
<1>2. DOMAIN a = 1 .. Len(a) /\ DOMAIN b = 1 .. Len(b) /\ DOMAIN (a \o b) = 1 .. Len(a) + Len(b)
  BY <1>1
<1>3. ASSUME NEW x \in ToSet(a \o b) PROVE x \in ToSet(a) \union ToSet(b)
  <2>1. PICK i \in 1 .. Len(a) + Len(b) : x = (a \o b)[i]
    BY <1>2 DEF ToSet
  <2>2. CASE i <= Len(a)
    BY <1>1, <1>2, <2>1, <2>2 DEF ToSet
  <2>3. CASE ~(i <= Len(a))
    <3>1. i - Len(a) \in 1 .. Len(b)
      BY <1>1, <2>3
    <3> QED  BY <1>1, <1>2, <2>1, <2>3, <3>1 DEF ToSet
  <2> QED  BY <2>2, <2>3
<1>4. ASSUME NEW x \in ToSet(a) PROVE x \in ToSet(a \o b)
  <2>1. PICK i \in 1 .. Len(a) : x = a[i]
    BY <1>2 DEF ToSet
  <2>2. i \in 1 .. Len(a) + Len(b) /\ x = (a \o b)[i]
    BY <1>1, <2>1
  <2> QED  BY <1>2, <2>2 DEF ToSet
<1>5. ASSUME NEW x \in ToSet(b) PROVE x \in ToSet(a \o b)
  <2>1. PICK i \in 1 .. Len(b) : x = b[i]
    BY <1>2 DEF ToSet
  <2>2. /\ Len(a) + i \in 1 .. Len(a) + Len(b) /\ ~(Len(a) + i <= Len(a))
        /\ (Len(a) + i) - Len(a) = i
    BY <1>1
  <2>3. x = (a \o b)[Len(a) + i]
    BY <1>1, <2>1, <2>2
  <2> QED  BY <1>2, <2>2, <2>3 DEF ToSet
<1> QED  BY <1>3, <1>4, <1>5

\* What went out is behind the last one sent, and that only grows.
LEMMA HeldKeeps ==
  ASSUME NoWrap, StreamInv, OrderInv, NextInv, OrderInv',
         ToSet(delivered) \subseteq ToSet(delivered'),
         \A a \in arrived' : a <= wl.lastID \/ a \in ToSet(wl'.data) \/ a \in ToSet(delivered')
  PROVE  HeldInv'
<1>1. MaxMsg \in Nat /\ Messages = 1 .. MaxMsg /\ arrived' \subseteq Messages
  BY PlainIdentifiers DEF OrderInv
<1>2. /\ wl.lastID \in 0 .. MaxMsg /\ wl'.lastID \in 0 .. MaxMsg
  BY DEF OrderInv
<1>3. \A d \in ToSet(delivered') : d <= wl'.lastID
  <2>1. DOMAIN delivered' = 1 .. Len(delivered')
    BY DEF OrderInv
  <2> QED  BY <2>1 DEF OrderInv, ToSet
<1>4. wl.lastID <= wl'.lastID
  <2>1. CASE delivered = <<>>
    <3>1. wl.lastID = 0
      BY <2>1 DEF NextInv, StreamInv, WLInv, WLGap
    <3> QED  BY <1>1, <1>2, <3>1
  <2>2. CASE delivered # <<>>
    <3>1. Len(delivered) \in 1 .. Len(delivered) /\ DOMAIN delivered = 1 .. Len(delivered)
      BY <2>2 DEF NextInv
    <3>2. PICK l \in Messages : l = delivered[Len(delivered)]
      BY <3>1 DEF NextInv
    <3>3. wl.lastID = l
      BY <2>2, <3>2, PlainIdentifiers DEF NextInv, LastDelivered, Last
    <3>4. l \in ToSet(delivered)
      BY <3>1, <3>2 DEF ToSet
    <3> QED  BY <1>3, <3>3, <3>4
  <2> QED  BY <2>1, <2>2
<1>5. \A a \in arrived' : a <= wl'.lastID \/ a \in ToSet(wl'.data)
  BY <1>1, <1>2, <1>3, <1>4
<1> QED  BY <1>5 DEF HeldInv, waiting

LEMMA HeldDuplicate ==
  ASSUME NoWrap, StreamInv, OrderInv, NextInv, OrderInv', HeldInv, NEW m \in Messages, Duplicate(m)
  PROVE  HeldInv'
<1>1. arrived' = arrived \union {m} /\ wl' = wl /\ delivered' = delivered /\ IsDuplicate(wl, m)
  BY DEF Duplicate, Arrives
<1>2. WLType(wl) /\ WLSorted(wl) /\ ID(m) = m
  BY PlainIdentifiers DEF StreamInv, WLInv
<1>3. CASE Exists(wl, m)
  <2>1. PICK i \in 1 .. Len(wl.data) : ID(wl.data[i]) = m
    BY <1>2, <1>3 DEF Exists, WLSorted
  <2>2. DOMAIN wl.data = 1 .. Len(wl.data) /\ wl.data[i] \in Messages
    BY <1>2 DEF WLType
  <2>3. wl.data[i] = m
    BY <2>1, <2>2, PlainIdentifiers
  <2>4. m \in waiting
    BY <2>2, <2>3 DEF waiting, ToSet
  <2> QED  BY <1>1, <2>4, HeldKeeps DEF HeldInv, waiting
<1>4. CASE ~Exists(wl, m)
  <2>1. m <= wl.lastID
    <3>1. wl.lastID \in 0 .. MaxMsg /\ m \in 1 .. MaxMsg /\ MaxMsg \in Nat
      BY PlainIdentifiers DEF OrderInv
    <3> QED  BY <1>1, <1>2, <1>4, <3>1 DEF IsDuplicate
  <2> QED  BY <1>1, <2>1, HeldKeeps DEF HeldInv, waiting
<1> QED  BY <1>3, <1>4

LEMMA HeldDeliver ==
  ASSUME NoWrap, StreamInv, OrderInv, NextInv, OrderInv', HeldInv, NEW m \in Messages, Deliver(m)
  PROVE  HeldInv'
<1>1. PICK w : w = Send(wl, m)
  OBVIOUS
<1>2. PICK r : r = PoppedRun(w)
  OBVIOUS
<1>3. WLType(wl) /\ WLSorted(wl) /\ ~CanPop(wl)
  BY HeadWaits DEF StreamInv, WLInv
<1>4. /\ arrived' = arrived \union {m} /\ wl' = Popped(w)
      /\ delivered' = (delivered \o <<m>>) \o r
  BY <1>1, <1>2, <1>3 DEF Deliver, Arrives
<1>5. WLType(w) /\ WLSorted(w) /\ w.data = wl.data
  <2>1. WLType(w) /\ w.data = wl.data /\ w.idsMap = wl.idsMap
    BY <1>1, <1>3, SendFields
  <2> QED  BY <1>3, <2>1 DEF WLSorted
<1>6. ToSet(Popped(w).data) = waiting \ ToSet(r)
  BY <1>2, <1>5, PoppedGone DEF waiting
<1>7. r \in Seq(Messages)
  <2>1. CASE CanPop(w)
    <3>1. w.data # <<>> /\ r = Run(w)
      BY <1>2, <2>1 DEF CanPop, PoppedRun
    <3> QED  BY <1>5, <3>1, PopRunFields
  <2>2. CASE ~CanPop(w)
    BY <1>2, <2>2 DEF PoppedRun
  <2> QED  BY <2>1, <2>2
<1>8. ToSet(delivered') = (ToSet(delivered) \union {m}) \union ToSet(r)
  <2>1. PICK one : one = <<m>>
    OBVIOUS
  <2>2. one \in Seq(Messages) /\ ToSet(one) = {m}
    BY <2>1 DEF ToSet
  <2>3. PICK d : d = delivered \o one
    OBVIOUS
  <2>4. d \in Seq(Messages) /\ ToSet(d) = ToSet(delivered) \union {m}
    BY <2>2, <2>3, ToSetOfConcat DEF NextInv
  <2>5. ToSet(d \o r) = ToSet(d) \union ToSet(r)
    BY <1>7, <2>4, ToSetOfConcat
  <2> QED  BY <1>4, <2>1, <2>3, <2>4, <2>5
<1> QED  BY <1>4, <1>6, <1>8, HeldKeeps DEF HeldInv

LEMMA HeldHold ==
  ASSUME NoWrap, StreamInv, OrderInv, NextInv, OrderInv', HeldInv, NEW m \in Messages, Hold(m)
  PROVE  HeldInv'
<1>1. PICK w : w = Push(wl, m, now)
  OBVIOUS
<1>2. WLInv(wl) /\ ~IsDuplicate(wl, m) /\ ~SentAtOnce(wl, m)
  BY DEF StreamInv, Hold
<1>3. ~PushFails(wl, m) /\ WLInv(w) /\ ToSet(w.data) = ToSet(wl.data) \union {m}
  BY <1>1, <1>2, HeldIdentifier, PushKeeps
<1>4. /\ arrived' = arrived \union {m}
      /\ \/ delivered' = delivered /\ wl' = w
         \/ delivered' = delivered \o w.data
  BY <1>1, <1>3 DEF Hold, Arrives
<1>5. CASE delivered' = delivered /\ wl' = w
  BY <1>3, <1>4, <1>5, HeldKeeps DEF HeldInv, waiting
<1>6. CASE delivered' = delivered \o w.data
  <2>1. ToSet(delivered') = ToSet(delivered) \union ToSet(w.data)
    BY <1>3, <1>6, ToSetOfConcat DEF NextInv, WLInv, WLType
  <2> QED  BY <1>3, <1>4, <2>1, HeldKeeps DEF HeldInv, waiting
<1> QED  BY <1>4, <1>5, <1>6

LEMMA HeldStep ==
  ASSUME NoWrap
  PROVE  StreamInv /\ OrderInv /\ NextInv /\ HeldInv /\ [Next]_vars => HeldInv'
<1> SUFFICES ASSUME StreamInv, OrderInv, NextInv, HeldInv, [Next]_vars PROVE HeldInv'
  OBVIOUS
<1>1. OrderInv'
  BY OrderStep
<1>2. CASE UNCHANGED <<wl, arrived>>
  BY <1>2 DEF HeldInv, waiting
<1>3. ASSUME NEW m \in Messages, Duplicate(m) PROVE HeldInv'
  BY <1>1, <1>3, HeldDuplicate
<1>4. ASSUME NEW m \in Messages, Deliver(m) PROVE HeldInv'
  BY <1>1, <1>4, HeldDeliver
<1>5. ASSUME NEW m \in Messages, Hold(m) PROVE HeldInv'
  BY <1>1, <1>5, HeldHold
<1> QED  BY <1>2, <1>3, <1>4, <1>5 DEF Next, Emit, Tick, vars

\* The message after the last one sent has not come in, or it would have gone out.
LEMMA GapIsMissing ==
  ASSUME NoWrap, StreamInv, OrderInv, NextInv, HeldInv
  PROVE  HeldForGap
<1> SUFFICES ASSUME NEW m \in waiting
             PROVE  \E k \in Messages : LastDelivered < k /\ k < m /\ k \notin arrived
  BY DEF HeldForGap
<1>1. /\ WLInv(wl) /\ WLType(wl) /\ WLGap(wl) /\ DOMAIN wl.data = 1 .. Len(wl.data)
      /\ wl.lastID \in 0 .. MaxMsg /\ MaxMsg \in Nat /\ MaxMsg < MaxUint32 /\ MaxUint32 \in Nat
      /\ Messages = 1 .. MaxMsg /\ Succ(wl.lastID) = wl.lastID + 1
      /\ \A i \in 1 .. Len(wl.data) : wl.data[i] \in Messages /\ ID(wl.data[i]) = wl.data[i]
  <2>1. WLInv(wl) /\ WLType(wl) /\ WLGap(wl) /\ wl.lastID \in 0 .. MaxMsg
    BY DEF StreamInv, WLInv, OrderInv
  <2>2. wl.data \in Seq(Messages)
    BY <2>1 DEF WLType
  <2>3. \A i \in 1 .. Len(wl.data) : wl.data[i] \in Messages
    BY <2>2
  <2> QED  BY <2>1, <2>2, <2>3, PlainIdentifiers
<1>2. LastDelivered = wl.lastID
  <2>1. CASE delivered = <<>>
    BY <1>1, <2>1 DEF LastDelivered, NextInv, WLGap
  <2>2. CASE delivered # <<>>
    <3>1. Len(delivered) \in 1 .. Len(delivered)
      BY <2>2 DEF NextInv
    <3>2. delivered[Len(delivered)] \in Messages
      BY <3>1 DEF NextInv
    <3>3. LastDelivered \in Messages
      BY <2>2, <3>2 DEF LastDelivered, Last
    <3> QED  BY <2>2, <3>3, PlainIdentifiers DEF NextInv
  <2> QED  BY <2>1, <2>2
<1>3. \A i \in 1 .. Len(wl.data) : wl.lastID + 1 < wl.data[i]
  BY <1>1, NextIsAbsent DEF NextInv
<1>4. \A x \in waiting : \E i \in 1 .. Len(wl.data) : x = wl.data[i]
  BY <1>1 DEF waiting, ToSet
<1>5. wl.lastID + 1 \notin waiting /\ wl.lastID + 1 < m /\ m \in 1 .. MaxMsg
  BY <1>1, <1>3, <1>4
<1>6. wl.lastID + 1 \notin arrived
  BY <1>1, <1>5 DEF HeldInv
<1>7. wl.lastID + 1 \in Messages /\ wl.lastID < wl.lastID + 1
  BY <1>1, <1>5
<1> QED  BY <1>2, <1>5, <1>6, <1>7

-----------------------------------------------------------------------------
(* Held for a while *)

LEMMA TimeDeliver ==
  ASSUME StreamInv, TimeInv, NEW m \in Messages, Deliver(m)
  PROVE  TimeInv'
<1>1. PICK w : w = Send(wl, m)
  OBVIOUS
<1>2. PICK r : r = PoppedRun(w)
  OBVIOUS
<1>3. WLType(wl) /\ WLSorted(wl) /\ ~CanPop(wl)
  BY HeadWaits DEF StreamInv, WLInv
<1>4. /\ wl' = Popped(w) /\ now' = now
      /\ since' = Restrict(since, DOMAIN since \ ToSet(r))
  BY <1>1, <1>2, <1>3 DEF Deliver, Arrives
<1>5. WLType(w) /\ WLSorted(w) /\ w.data = wl.data /\ w.firstMessageTs = wl.firstMessageTs
  <2>1. WLType(w) /\ w.data = wl.data /\ w.idsMap = wl.idsMap
    BY <1>1, <1>3, SendFields
  <2>2. w.firstMessageTs = wl.firstMessageTs
    BY <1>1, <1>3 DEF Send, WLType
  <2> QED  BY <1>3, <2>1, <2>2 DEF WLSorted
<1>6. /\ waiting' = waiting \ ToSet(r)
      /\ wl'.data # <<>> => wl'.firstMessageTs = wl.firstMessageTs
  BY <1>2, <1>4, <1>5, PoppedGone DEF waiting
<1>7. wl'.data # <<>> => wl.data # <<>>
  <2> SUFFICES ASSUME wl'.data # <<>> PROVE wl.data # <<>>
    OBVIOUS
  <2>1. WLType(wl')
    BY <1>1, <1>3, <1>4, SendAndPop DEF WLInv
  <2>2. wl'.data[1] \in waiting'
    <3>1. 1 \in DOMAIN wl'.data
      BY <2>1 DEF WLType
    <3> QED  BY <3>1 DEF waiting, ToSet
  <2> QED  BY <1>6, <2>2 DEF waiting, ToSet
<1>8. /\ DOMAIN since' = DOMAIN since \ ToSet(r)
      /\ \A k \in DOMAIN since \ ToSet(r) : since'[k] = since[k]
  BY <1>4 DEF Restrict
<1> QED  BY <1>4, <1>6, <1>7, <1>8 DEF TimeInv

\* What a message held back joins has not waited for the TTL, and goes on from there.
LEMMA TimeHold ==
  ASSUME StreamInv, TimeInv, NEW m \in Messages, Hold(m)
  PROVE  TimeInv' /\ \A k \in waiting' : now - since'[k] < WaitingListMaxTTL
<1>1. PICK w : w = Push(wl, m, now)
  OBVIOUS
<1>2. WLInv(wl) /\ WLType(wl) /\ ~IsDuplicate(wl, m) /\ ~SentAtOnce(wl, m)
  BY DEF StreamInv, WLInv, Hold
<1>3. ~PushFails(wl, m) /\ WLType(w) /\ ToSet(w.data) = waiting \union {m}
  BY <1>1, <1>2, HeldIdentifier, PushKeeps DEF WLInv, waiting
<1>4. w.firstMessageTs = IF wl.data = <<>> THEN now ELSE wl.firstMessageTs
  BY <1>1, <1>2 DEF Push, WLType
<1>5. now \in Nat \ {0} /\ now' = now /\ WaitingListMaxTTL \in Nat
  BY WaitingListAssumption DEF TimeInv, Hold, Arrives
<1>6. w.firstMessageTs \in Nat \ {0} /\ w.firstMessageTs <= now
  BY <1>4, <1>5 DEF TimeInv
<1>7. CASE LimitExceeded(w, now)
  <2>1. wl' = Reset(w) /\ since' = <<>>
    BY <1>1, <1>3, <1>7 DEF Hold
  <2>2. wl'.data = <<>>
    BY <1>3, <2>1, ResetFields
  <2>3. waiting' = {}
    BY <2>2 DEF waiting, ToSet
  <2> QED  BY <1>5, <2>2, <2>3 DEF TimeInv
<1>8. CASE ~LimitExceeded(w, now)
  <2>1. /\ wl' = w
        /\ since' = [k \in DOMAIN since \union {m} |-> IF k = m THEN now ELSE since[k]]
    BY <1>1, <1>3, <1>8 DEF Hold
  <2>2. waiting' = waiting \union {m} /\ DOMAIN since' = DOMAIN since \union {m}
    BY <1>3, <2>1 DEF waiting
  <2>3. waiting \subseteq DOMAIN since
    BY DEF TimeInv
  <2>4. wl.data = <<>> => waiting = {}
    BY DEF waiting, ToSet
  <2>5. ASSUME NEW k \in waiting' PROVE since'[k] \in Nat /\ w.firstMessageTs <= since'[k]
    <3>1. CASE k = m
      BY <1>5, <1>6, <2>1, <3>1
    <3>2. CASE k # m
      <4>1. k \in waiting /\ since'[k] = since[k] /\ wl.data # <<>>
        BY <2>1, <2>2, <2>3, <2>4, <3>2
      <4> QED  BY <1>4, <4>1 DEF TimeInv
    <3> QED  BY <3>1, <3>2
  <2>6. now - w.firstMessageTs < WaitingListMaxTTL
    BY <1>5, <1>6, <1>8 DEF LimitExceeded
  <2>7. \A k \in waiting' : now - since'[k] < WaitingListMaxTTL
    BY <1>5, <1>6, <2>5, <2>6
  <2>8. waiting' \subseteq DOMAIN since'
    BY <2>2, <2>3
  <2> QED  BY <1>5, <1>6, <2>1, <2>5, <2>7, <2>8 DEF TimeInv
<1> QED  BY <1>7, <1>8

LEMMA TimeInit == Init => TimeInv
BY DEF Init, TimeInv, NewWaitingList, waiting, ToSet

LEMMA TimeStep == StreamInv /\ TimeInv /\ [Next]_vars => TimeInv'
<1> SUFFICES ASSUME StreamInv, TimeInv, [Next]_vars PROVE TimeInv'
  OBVIOUS
<1>1. CASE UNCHANGED <<wl, since>> /\ now' \in {now, now + 1}
  BY <1>1 DEF TimeInv, waiting
<1>2. ASSUME NEW m \in Messages, Deliver(m) PROVE TimeInv'
  BY <1>2, TimeDeliver
<1>3. ASSUME NEW m \in Messages, Hold(m) PROVE TimeInv'
  BY <1>3, TimeHold
<1> QED  BY <1>1, <1>2, <1>3 DEF Next, Emit, Tick, Duplicate, Arrives, vars

-----------------------------------------------------------------------------

\* A message waits only while one the stream still expects has not come in, while
\* identifiers do not wrap (wlist.go push and pop, the tests of stream.v2.go).
THEOREM StreamHeldForGap ==
  ASSUME NoWrap
  PROVE  Spec => []HeldForGap
<1>1. StreamInv /\ OrderInv /\ NextInv /\ HeldInv => HeldForGap
  BY GapIsMissing
<1>2. Init => OrderInv /\ NextInv /\ HeldInv
  BY OrderInit, NextInit DEF Init, HeldInv
<1>3. StreamInv /\ OrderInv /\ NextInv /\ HeldInv /\ [Next]_vars => OrderInv' /\ NextInv' /\ HeldInv'
  BY OrderStep, NextStep, HeldStep
<1> QED  BY <1>1, <1>2, <1>3, StreamInvariant, PTL DEF Spec

\* Holding back one more message leaves nothing that has waited for the TTL, for V1 and
\* V2, across the wrap of the identifier (firstMessageTs of wlist.go).
THEOREM StreamHeldInTime == Spec => HeldInTime
<1> DEFINE A == \A m \in Messages :
                  Hold(m) => \A k \in waiting' : now - since'[k] < WaitingListMaxTTL
<1>1. StreamInv /\ TimeInv => A
  BY TimeHold
<1>2. HeldInTime <=> [][A]_vars
  BY DEF HeldInTime
<1> HIDE DEF A
<1> QED  BY <1>1, <1>2, TimeInit, TimeStep, StreamInvariant, PTL DEF Spec

-----------------------------------------------------------------------------
(***************************************************************************)
(* dataSize.  SizeOf is the library's sum over a set: a recursive function *)
(* on the subsets of the set, which takes out one element it chooses.  By  *)
(* induction on the size of the subset: there is such a function, there is *)
(* only one, and it does not matter which element comes out first.         *)
(***************************************************************************)

Chosen(s) == CHOOSE x \in s : TRUE

\* the sum of s, when f gives that of the smaller ones
SizeStep(f, s) == IF s = {} THEN 0 ELSE PayloadLength[Chosen(s)] + f[s \ {Chosen(s)}]

IsSize(f, S) == f = [s \in SUBSET S |-> SizeStep(f, s)]

LEMMA SizeOfIs ==
  ASSUME NEW S
  PROVE  SizeOf(S) = (CHOOSE f : IsSize(f, S))[S]
BY DEF SizeOf, MapThenSumSet, MapThenFoldSet, IsSize, SizeStep, Chosen

\* What holds of 0, and of a number when it holds of the one before, holds of all.
LEMMA CountUp ==
  ASSUME NEW T, 0 \in T, \A k \in Nat : k \in T => k + 1 \in T
  PROVE  \A k \in Nat : k \in T
<1> DEFINE Bad == {k \in Nat : k \notin T}
<1>1. CASE Bad = {}
  BY <1>1
<1>2. CASE Bad # {}
  <2>1. PICK x \in Bad : \A y \in Bad : x <= y
    <3>1. Bad \in SUBSET Nat
      OBVIOUS
    <3> HIDE DEF Bad
    <3> QED  BY <1>2, <3>1, MinIsLeast
  <2>2. x \in Nat /\ x # 0 /\ x \notin T
    OBVIOUS
  <2>3. x - 1 \in Nat /\ (x - 1) + 1 = x /\ ~(x <= x - 1)
    BY <2>2
  <2>4. x - 1 \in T
    BY <2>1, <2>3
  <2> QED  BY <2>2, <2>3, <2>4
<1> QED  BY <1>1, <1>2

LEMMA SetsOfMessages ==
  /\ IsFiniteSet(Messages)
  /\ \A s \in SUBSET Messages :
       /\ Cardinality(s) \in Nat
       /\ Cardinality(s) = 0 => s = {}
       /\ \A x \in s : s \ {x} \in SUBSET Messages /\ Cardinality(s \ {x}) = Cardinality(s) - 1
<1>1. IsFiniteSet(Messages)
  <2>1. MaxMsg \in Int
    BY WaitingListAssumption
  <2> QED  BY <2>1, FS_Interval DEF Messages
<1>2. ASSUME NEW s \in SUBSET Messages
      PROVE  /\ Cardinality(s) \in Nat
             /\ Cardinality(s) = 0 => s = {}
             /\ \A x \in s : s \ {x} \in SUBSET Messages /\ Cardinality(s \ {x}) = Cardinality(s) - 1
  <2>1. IsFiniteSet(s)
    BY <1>1, FS_Subset
  <2>2. Cardinality(s) \in Nat
    BY <2>1, FS_CardinalityType
  <2>3. Cardinality(s) = 0 => s = {}
    BY <2>1, FS_EmptySet
  <2>4. \A x \in s : Cardinality(s \ {x}) = Cardinality(s) - 1
    BY <2>1, FS_RemoveElement
  <2> QED  BY <2>2, <2>3, <2>4
<1> QED  BY <1>1, <1>2

\* What holds of {}, and of a set when it holds of it without any one of its elements,
\* holds of every set of messages.
LEMMA OneMore ==
  ASSUME NEW T, \A s \in SUBSET Messages : (\A x \in s : s \ {x} \in T) => s \in T
  PROVE  \A s \in SUBSET Messages : s \in T
<1> DEFINE Done == {n \in Nat : \A s \in SUBSET Messages : Cardinality(s) = n => s \in T}
<1>1. 0 \in Done
  <2>1. \A s \in SUBSET Messages : Cardinality(s) = 0 => \A x \in s : s \ {x} \in T
    BY SetsOfMessages
  <2> QED  BY <2>1
<1>2. ASSUME NEW k \in Nat, k \in Done PROVE k + 1 \in Done
  <2>1. ASSUME NEW s \in SUBSET Messages, Cardinality(s) = k + 1 PROVE s \in T
    <3>1. ASSUME NEW x \in s PROVE s \ {x} \in T
      <4>1. s \ {x} \in SUBSET Messages /\ Cardinality(s \ {x}) = k + 1 - 1
        BY <2>1, SetsOfMessages
      <4>2. k + 1 - 1 = k
        OBVIOUS
      <4> QED  BY <1>2, <4>1, <4>2
    <3> QED  BY <3>1
  <2> QED  BY <2>1
<1>3. \A k \in Nat : k \in Done
  <2> HIDE DEF Done
  <2> QED  BY <1>1, <1>2, CountUp
<1> QED  BY <1>3, SetsOfMessages

\* f sums every set of messages
Sums(f) ==
  /\ f \in [SUBSET Messages -> Nat]
  /\ \A s \in SUBSET Messages : f[s] = SizeStep(f, s)

LEMMA ChosenFrom ==
  ASSUME NEW s \in SUBSET Messages, s # {}
  PROVE  /\ Chosen(s) \in s /\ Chosen(s) \in Messages /\ PayloadLength[Chosen(s)] \in Nat
         /\ s \ {Chosen(s)} \in SUBSET Messages
<1>1. Chosen(s) \in s
  BY DEF Chosen
<1> QED  BY <1>1, WaitingListAssumption DEF Messages

LEMMA SumsExists == \E f : Sums(f)
<1> DEFINE Upto(f, n) == /\ f \in [SUBSET Messages -> Nat]
                         /\ \A s \in SUBSET Messages : Cardinality(s) <= n => f[s] = SizeStep(f, s)
           Done == {n \in Nat : \E f : Upto(f, n)}
<1>1. ASSUME NEW n \in Nat, NEW f \in [SUBSET Messages -> Nat],
             \A s \in SUBSET Messages : s # {} /\ Cardinality(s) <= n =>
                f[s \ {Chosen(s)}] = SizeStep(f, s \ {Chosen(s)})
      PROVE  \E g : Upto(g, n)
  <2>1. PICK g : g = [s \in SUBSET Messages |-> SizeStep(f, s)]
    OBVIOUS
  <2>2. \A s \in SUBSET Messages : g[s] = SizeStep(f, s)
    BY <2>1
  <2>3. \A s \in SUBSET Messages : SizeStep(f, s) \in Nat
    BY ChosenFrom DEF SizeStep
  <2>4. g \in [SUBSET Messages -> Nat]
    BY <2>1, <2>3
  <2>5. ASSUME NEW s \in SUBSET Messages, Cardinality(s) <= n PROVE g[s] = SizeStep(g, s)
    <3>1. CASE s = {}
      BY <2>2, <3>1 DEF SizeStep
    <3>2. CASE s # {}
      <4>1. PICK r \in SUBSET Messages : r = s \ {Chosen(s)}
        BY <3>2, ChosenFrom
      <4>2. g[r] = SizeStep(f, r) /\ f[r] = SizeStep(f, r)
        BY <1>1, <2>2, <2>5, <3>2, <4>1
      <4> QED  BY <2>2, <3>2, <4>1, <4>2 DEF SizeStep
    <3> QED  BY <3>1, <3>2
  <2> QED  BY <2>4, <2>5
<1>2. 0 \in Done
  <2>1. PICK f : f = [s \in SUBSET Messages |-> 0]
    OBVIOUS
  <2>2. \A s \in SUBSET Messages : Cardinality(s) <= 0 => s = {}
    BY SetsOfMessages
  <2>3. Upto(f, 0)
    BY <2>1, <2>2 DEF SizeStep
  <2> QED  BY <2>3
<1>3. ASSUME NEW k \in Nat, k \in Done PROVE k + 1 \in Done
  <2>1. PICK f : Upto(f, k)
    BY <1>3
  <2>2. ASSUME NEW s \in SUBSET Messages, s # {}, Cardinality(s) <= k + 1
        PROVE  f[s \ {Chosen(s)}] = SizeStep(f, s \ {Chosen(s)})
    <3>1. PICK r \in SUBSET Messages : r = s \ {Chosen(s)}
      BY <2>2, ChosenFrom
    <3>2. Cardinality(s) \in Nat /\ Cardinality(r) = Cardinality(s) - 1
      BY <2>2, <3>1, ChosenFrom, SetsOfMessages
    <3>3. Cardinality(r) <= k
      BY <2>2, <3>2
    <3> QED  BY <2>1, <3>1, <3>3
  <2>3. k + 1 \in Nat
    OBVIOUS
  <2>4. \E g : Upto(g, k + 1)
    <3> HIDE DEF Upto
    <3>1. f \in [SUBSET Messages -> Nat]
      BY <2>1 DEF Upto
    <3> QED  BY <1>1, <2>2, <2>3, <3>1
  <2> QED  BY <2>3, <2>4
<1>4. \A k \in Nat : k \in Done
  <2> HIDE DEF Done
  <2> QED  BY <1>2, <1>3, CountUp
<1>5. PICK n : n = Cardinality(Messages)
  OBVIOUS
<1>6. n \in Nat /\ \A s \in SUBSET Messages : Cardinality(s) <= n
  BY <1>5, SetsOfMessages, FS_Subset
<1>7. PICK f : Upto(f, n)
  BY <1>4, <1>6
<1>8. Sums(f)
  BY <1>6, <1>7 DEF Sums
<1> QED  BY <1>8

\* Whatever set the recursion started from, it computes the same sums.
LEMMA SizeIsSum ==
  ASSUME NEW f, Sums(f), NEW S \in SUBSET Messages
  PROVE  SizeOf(S) = f[S]
<1>1. \A s \in SUBSET Messages : f[s] = SizeStep(f, s)
  BY DEF Sums
<1>2. PICK g : g = [s \in SUBSET S |-> f[s]]
  OBVIOUS
<1>3. IsSize(g, S)
  <2>1. ASSUME NEW s \in SUBSET S PROVE f[s] = SizeStep(g, s)
    <3>1. CASE s = {}
      BY <1>1, <3>1 DEF SizeStep
    <3>2. CASE s # {}
      <4>1. s \in SUBSET Messages
        OBVIOUS
      <4>2. PICK r \in SUBSET S : r = s \ {Chosen(s)}
        OBVIOUS
      <4>3. g[r] = f[r]
        BY <1>2
      <4> QED  BY <1>1, <3>2, <4>1, <4>2, <4>3 DEF SizeStep
    <3> QED  BY <3>1, <3>2
  <2> QED  BY <1>2, <2>1 DEF IsSize
<1>4. PICK h : h = (CHOOSE k : IsSize(k, S))
  OBVIOUS
<1>5. IsSize(h, S)
  BY <1>3, <1>4
<1>6. \A s \in SUBSET S : h[s] = SizeStep(h, s)
  BY <1>5 DEF IsSize
<1> DEFINE T == {s \in SUBSET Messages : s \in SUBSET S => h[s] = f[s]}
<1>7. ASSUME NEW s \in SUBSET Messages, \A x \in s : s \ {x} \in T PROVE s \in T
  <2>1. ASSUME s \in SUBSET S PROVE h[s] = f[s]
    <3>1. CASE s = {}
      BY <1>1, <1>6, <3>1 DEF SizeStep
    <3>2. CASE s # {}
      <4>1. PICK r \in SUBSET S : r = s \ {Chosen(s)}
        BY <2>1
      <4>2. r \in T
        BY <1>7, <3>2, <4>1, ChosenFrom
      <4>3. h[r] = f[r]
        BY <4>2
      <4> QED  BY <1>1, <1>6, <2>1, <3>2, <4>1, <4>3 DEF SizeStep
    <3> QED  BY <3>1, <3>2
  <2> QED  BY <2>1
<1>8. \A s \in SUBSET Messages : s \in T
  <2> HIDE DEF T
  <2> QED  BY <1>7, OneMore
<1>9. h[S] = f[S]
  BY <1>8
<1> QED  BY <1>4, <1>9, SizeOfIs

\* Any element may come out first.
LEMMA AnyFirst ==
  ASSUME NEW f, Sums(f)
  PROVE  \A s \in SUBSET Messages : \A x \in s : f[s] = PayloadLength[x] + f[s \ {x}]
<1>1. /\ f \in [SUBSET Messages -> Nat]
      /\ \A s \in SUBSET Messages : f[s] = SizeStep(f, s)
  BY DEF Sums
<1>2. \A x \in Messages : PayloadLength[x] \in Nat
  BY WaitingListAssumption DEF Messages
<1> DEFINE T == {s \in SUBSET Messages : \A x \in s : f[s] = PayloadLength[x] + f[s \ {x}]}
<1>3. ASSUME NEW s \in SUBSET Messages, \A x \in s : s \ {x} \in T PROVE s \in T
  <2>1. ASSUME NEW x \in s PROVE f[s] = PayloadLength[x] + f[s \ {x}]
    <3>1. PICK c \in s : c = Chosen(s) /\ f[s] = PayloadLength[c] + f[s \ {c}]
      BY <1>1, <2>1, ChosenFrom DEF SizeStep
    <3>2. CASE x = c
      BY <3>1, <3>2
    <3>3. CASE x # c
      <4>1. PICK r \in SUBSET Messages : r = (s \ {c}) \ {x} /\ r = (s \ {x}) \ {c}
        OBVIOUS
      <4>2. f[s \ {c}] = PayloadLength[x] + f[r]
        <5>1. s \ {c} \in T /\ x \in s \ {c}
          BY <1>3, <3>3
        <5> QED  BY <4>1, <5>1
      <4>3. f[s \ {x}] = PayloadLength[c] + f[r]
        <5>1. s \ {x} \in T /\ c \in s \ {x}
          BY <1>3, <3>3
        <5> QED  BY <4>1, <5>1
      <4>4. PayloadLength[x] \in Nat /\ PayloadLength[c] \in Nat /\ f[r] \in Nat
        BY <1>1, <1>2
      <4> QED  BY <3>1, <4>2, <4>3, <4>4
    <3> QED  BY <3>2, <3>3
  <2> QED  BY <2>1
<1>4. \A s \in SUBSET Messages : s \in T
  <2> HIDE DEF T
  <2> QED  BY <1>3, OneMore
<1> QED  BY <1>4

\* The sum of a part and the sum of the rest make the sum.
LEMMA PartAndRest ==
  ASSUME NEW f, Sums(f), NEW A \in SUBSET Messages
  PROVE  \A R \in SUBSET A : f[A] = f[A \ R] + f[R]
<1>1. /\ f \in [SUBSET Messages -> Nat]
      /\ \A s \in SUBSET Messages : f[s] = SizeStep(f, s)
  BY DEF Sums
<1>2. \A x \in Messages : PayloadLength[x] \in Nat
  BY WaitingListAssumption DEF Messages
<1> DEFINE T == {s \in SUBSET Messages : s \in SUBSET A => f[A] = f[A \ s] + f[s]}
<1>3. ASSUME NEW s \in SUBSET Messages, \A x \in s : s \ {x} \in T PROVE s \in T
  <2>1. ASSUME s \in SUBSET A PROVE f[A] = f[A \ s] + f[s]
    <3>1. CASE s = {}
      <4>1. f[s] = 0 /\ A \ s = A /\ f[A] \in Nat
        BY <1>1, <3>1 DEF SizeStep
      <4> QED  BY <4>1
    <3>2. CASE s # {}
      <4>1. PICK x \in s : TRUE
        BY <3>2
      <4>2. PICK r \in SUBSET Messages : r = s \ {x}
        OBVIOUS
      <4>3. PICK a \in SUBSET Messages : a = A \ r
        OBVIOUS
      <4>4. f[A] = f[a] + f[r]
        <5>1. r \in T /\ r \in SUBSET A
          BY <1>3, <2>1, <4>2
        <5> QED  BY <4>3, <5>1
      <4>5. f[s] = PayloadLength[x] + f[r]
        BY <4>2, AnyFirst
      <4>6. f[a] = PayloadLength[x] + f[A \ s]
        <5>1. x \in a /\ a \ {x} = A \ s
          BY <2>1, <4>2, <4>3
        <5> QED  BY <5>1, AnyFirst
      <4>7. PayloadLength[x] \in Nat /\ f[r] \in Nat /\ f[A \ s] \in Nat
        BY <1>1, <1>2
      <4> QED  BY <4>4, <4>5, <4>6, <4>7
    <3> QED  BY <3>1, <3>2
  <2> QED  BY <2>1
<1>4. \A s \in SUBSET Messages : s \in T
  <2> HIDE DEF T
  <2> QED  BY <1>3, OneMore
<1> QED  BY <1>4

(* The sum of the lengths of some messages: of none, of one more, of what remains. *)
LEMMA SizeProperties ==
  /\ SizeOf({}) = 0
  /\ \A S \in SUBSET Messages : SizeOf(S) \in Nat
  /\ \A S \in SUBSET Messages : \A m \in Messages \ S :
       SizeOf(S \union {m}) = SizeOf(S) + PayloadLength[m]
  /\ \A S \in SUBSET Messages : \A R \in SUBSET S : SizeOf(S \ R) = SizeOf(S) - SizeOf(R)
<1>1. PICK f : Sums(f)
  BY SumsExists
<1>2. /\ f \in [SUBSET Messages -> Nat]
      /\ f[{}] = 0
  BY <1>1 DEF Sums, SizeStep
<1>3. \A S \in SUBSET Messages : SizeOf(S) = f[S] /\ f[S] \in Nat
  BY <1>1, <1>2, SizeIsSum
<1>4. ASSUME NEW S \in SUBSET Messages, NEW m \in Messages \ S
      PROVE  SizeOf(S \union {m}) = SizeOf(S) + PayloadLength[m]
  <2>1. PICK U \in SUBSET Messages : U = S \union {m}
    OBVIOUS
  <2>2. m \in U /\ U \ {m} = S
    BY <2>1
  <2>3. f[U] = PayloadLength[m] + f[S]
    BY <1>1, <2>2, AnyFirst
  <2>4. PayloadLength[m] \in Nat /\ f[S] \in Nat
    BY <1>2, WaitingListAssumption DEF Messages
  <2>5. SizeOf(U) = f[U] /\ SizeOf(S) = f[S]
    BY <1>3
  <2> QED  BY <2>1, <2>3, <2>4, <2>5
<1>5. ASSUME NEW S \in SUBSET Messages, NEW R \in SUBSET S
      PROVE  SizeOf(S \ R) = SizeOf(S) - SizeOf(R)
  <2>1. R \in SUBSET Messages /\ S \ R \in SUBSET Messages
    OBVIOUS
  <2>2. f[S] = f[S \ R] + f[R]
    BY <1>1, PartAndRest
  <2>3. f[S \ R] \in Nat /\ f[R] \in Nat
    BY <1>2, <2>1
  <2>4. SizeOf(S \ R) = f[S \ R] /\ SizeOf(S) = f[S] /\ SizeOf(R) = f[R]
    BY <1>3, <2>1
  <2> QED  BY <2>2, <2>3, <2>4
<1>6. SizeOf({}) = 0
  BY <1>2, <1>3
<1> QED  BY <1>3, <1>4, <1>5, <1>6

\* dataSize is the sum of the lengths of what waits
SizeRight(w) == w.dataSize = SizeOf(ToSet(w.data))

LEMMA WaitAreMessages ==
  ASSUME NEW s \in Seq(Messages)
  PROVE  ToSet(s) \in SUBSET Messages
<1>1. \A i \in DOMAIN s : s[i] \in Messages
  OBVIOUS
<1> QED  BY <1>1 DEF ToSet

LEMMA SizePopped ==
  ASSUME NEW w, WLType(w), WLSorted(w), SizeRight(w)
  PROVE  SizeRight(Popped(w))
<1>1. CASE ~CanPop(w)
  BY <1>1 DEF Popped
<1>2. CASE CanPop(w)
  <2>1. w.data # <<>> /\ w.data \in Seq(Messages)
    BY <1>2 DEF CanPop, WLType
  <2>2. PICK popped : popped = ToSet(Run(w))
    OBVIOUS
  <2>3. ToSet(Popped(w).data) = ToSet(w.data) \ popped
    BY <1>2, <2>2, PoppedGone DEF PoppedRun
  <2>4. Popped(w).dataSize = w.dataSize - SizeOf(popped)
    <3>1. PICK u : u = PopRun(w)
      OBVIOUS
    <3>2. u = [w EXCEPT !.lastID = ID(w.data[RunLength(w)]),
                        !.firstSent = TRUE,
                        !.data = SubSeq(@, RunLength(w) + 1, Len(@)),
                        !.idsMap = @ \ {ID(m) : m \in popped},
                        !.dataSize = @ - SizeOf(popped),
                        !.firstMessageTs = IF RunLength(w) = Len(w.data) THEN 0 ELSE @]
      BY <2>2, <3>1 DEF PopRun
    <3>3. u.dataSize = w.dataSize - SizeOf(popped)
      BY <3>2 DEF WLType
    <3> QED  BY <1>2, <3>1, <3>3 DEF Popped
  <2>5. popped \in SUBSET ToSet(w.data)
    <3>1. PICK run : run = Run(w)
      OBVIOUS
    <3>2. /\ RunLength(w) \in 1 .. Len(w.data) /\ run \in Seq(Messages)
          /\ Len(run) = RunLength(w) /\ \A i \in 1 .. RunLength(w) : run[i] = w.data[i]
      BY <2>1, <3>1, PopRunFields
    <3>3. \A i \in DOMAIN run : i \in DOMAIN w.data /\ run[i] = w.data[i]
      BY <2>1, <3>2
    <3> QED  BY <2>2, <3>1, <3>3 DEF ToSet
  <2>6. SizeOf(ToSet(w.data) \ popped) = SizeOf(ToSet(w.data)) - SizeOf(popped)
    BY <2>1, <2>5, WaitAreMessages, SizeProperties
  <2> QED  BY <2>3, <2>4, <2>6 DEF SizeRight
<1> QED  BY <1>1, <1>2

LEMMA SizeDeliver ==
  ASSUME StreamInv, SizeRight(wl), NEW m \in Messages, Deliver(m)
  PROVE  SizeRight(wl')
<1>1. WLInv(wl) /\ WLType(wl) /\ WLSorted(wl) /\ ~CanPop(wl)
  BY HeadWaits DEF StreamInv, WLInv
<1>2. PICK w : w = Send(wl, m)
  OBVIOUS
<1>3. WLType(w) /\ w.data = wl.data /\ w.idsMap = wl.idsMap
  BY <1>1, <1>2, SendFields
<1>4. WLSorted(w)
  BY <1>1, <1>3 DEF WLSorted
<1>5. w.dataSize = wl.dataSize
  <2>1. w = [wl EXCEPT !.lastID = ID(m), !.firstSent = TRUE]
    BY <1>2 DEF Send
  <2> QED  BY <1>1, <2>1 DEF WLType
<1>6. wl' = Popped(w)
  BY <1>1, <1>2 DEF Deliver
<1>7. SizeRight(Popped(w))
  BY <1>3, <1>4, <1>5, SizePopped DEF SizeRight
<1> QED  BY <1>6, <1>7

LEMMA SizeHold ==
  ASSUME StreamInv, SizeRight(wl), NEW m \in Messages, Hold(m)
  PROVE  SizeRight(wl')
<1>1. WLInv(wl) /\ WLType(wl) /\ WLSorted(wl) /\ wl.data \in Seq(Messages)
  BY DEF StreamInv, WLInv, WLType
<1>2. ~Exists(wl, m) /\ ID(m) # 0 /\ ID(m) # Succ(wl.lastID)
  BY <1>1, HeldIdentifier DEF Hold
<1>3. PICK w : w = Push(wl, m, now)
  OBVIOUS
<1>4. ~PushFails(wl, m) /\ WLInv(w) /\ ToSet(w.data) = ToSet(wl.data) \union {m}
  BY <1>1, <1>2, <1>3, PushKeeps
<1>5. m \notin ToSet(wl.data)
  <2>1. \A i \in 1 .. Len(wl.data) : ID(wl.data[i]) # ID(m)
    BY <1>1, <1>2 DEF WLSorted, Exists
  <2> QED  BY <1>1, <2>1 DEF ToSet
<1>6. SizeRight(w)
  <2>1. w = [wl EXCEPT !.dataSize = @ + PayloadLength[m],
                       !.data = InsertAt(@, Position(wl, m), m),
                       !.idsMap = @ \union {ID(m)},
                       !.firstMessageTs = IF wl.data = <<>> THEN now ELSE @]
    BY <1>3 DEF Push
  <2>2. w.dataSize = wl.dataSize + PayloadLength[m]
    BY <1>1, <2>1 DEF WLType
  <2>3. SizeOf(ToSet(wl.data) \union {m}) = SizeOf(ToSet(wl.data)) + PayloadLength[m]
    BY <1>1, <1>5, WaitAreMessages, SizeProperties
  <2> QED  BY <1>4, <2>2, <2>3 DEF SizeRight
<1>7. SizeRight(Reset(w))
  <2>1. PICK u : u = Reset(w)
    OBVIOUS
  <2>2. u = [w EXCEPT !.lastID = IF w.data = <<>> THEN @ ELSE ID(w.data[Len(w.data)]),
                      !.firstSent = @ \/ w.data # <<>>,
                      !.data = <<>>,
                      !.idsMap = {},
                      !.dataSize = 0]
    BY <2>1 DEF Reset
  <2>3. u.dataSize = 0 /\ u.data = <<>>
    BY <1>4, <2>2 DEF WLInv, WLType
  <2>4. ToSet(<<>>) = {}
    BY DEF ToSet
  <2> QED  BY <2>1, <2>3, <2>4, SizeProperties DEF SizeRight
<1>8. wl' = w \/ wl' = Reset(w)
  BY <1>3, <1>4 DEF Hold
<1> QED  BY <1>6, <1>7, <1>8

LEMMA SizeInit == Init => SizeRight(wl)
<1> SUFFICES ASSUME Init PROVE SizeRight(wl)
  OBVIOUS
<1>1. wl.dataSize = 0 /\ wl.data = <<>>
  BY DEF Init, NewWaitingList
<1>2. ToSet(<<>>) = {}
  BY DEF ToSet
<1> QED  BY <1>1, <1>2, SizeProperties DEF SizeRight

LEMMA SizeNext == StreamInv /\ SizeRight(wl) /\ [Next]_vars => SizeRight(wl')
<1> SUFFICES ASSUME StreamInv, SizeRight(wl), [Next]_vars PROVE SizeRight(wl')
  OBVIOUS
<1>1. CASE UNCHANGED wl
  BY <1>1
<1>2. ASSUME NEW m \in Messages, Duplicate(m) PROVE SizeRight(wl')
  BY <1>2 DEF Duplicate
<1>3. ASSUME NEW m \in Messages, Deliver(m) PROVE SizeRight(wl')
  BY <1>3, SizeDeliver
<1>4. ASSUME NEW m \in Messages, Hold(m) PROVE SizeRight(wl')
  BY <1>4, SizeHold
<1> QED  BY <1>1, <1>2, <1>3, <1>4 DEF Next, Emit, Tick, vars

\* What a stream holds back waits for one still missing and not too long, and dataSize,
\* which push adds to, pop takes from and the size limit looks at (wlist.go), is the sum
\* of what waits; the gap while identifiers do not wrap.
THEOREM StreamWaitsForReason ==
  ASSUME NoWrap
  PROVE  Spec => WaitsForReason
<1> DEFINE Right == wl.dataSize = SizeOf(waiting)
<1>1. StreamInv /\ SizeRight(wl) /\ [Next]_vars => SizeRight(wl)'
  BY SizeNext
<1>2. SizeRight(wl) => Right
  BY DEF SizeRight, waiting
<1>3. Spec => []Right
  <2> HIDE DEF Right
  <2> QED  BY <1>1, <1>2, SizeInit, StreamInvariant, PTL DEF Spec
<1>4. Spec => []HeldForGap
  BY StreamHeldForGap
<1>5. WaitsForReason <=> [](HeldForGap /\ Right) /\ HeldInTime
  BY DEF WaitsForReason
<1> HIDE DEF Right
<1> QED  BY <1>3, <1>4, <1>5, StreamHeldInTime, PTL
================================================================================
