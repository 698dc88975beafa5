----------------------------- MODULE WaitingList -----------------------------
(***************************************************************************)
(* The waiting list of one stream (adapter/merger/wlist.go): what a stream *)
(* holds back until the messages that precede it arrive.                   *)
(*                                                                         *)
(* A message is the absolute number the peer gave it: message m is the     *)
(* m-th one of its endpoint.  The code only sees ID(m), a uint32 that      *)
(* wraps to 0 after MaxUint32.  The list is a record with the fields of    *)
(* the struct; sender and the loggers are not part of it.                  *)
(***************************************************************************)
EXTENDS Integers, SequencesExt

CONSTANTS
  MaxUint32,            (* largest uint32: identifiers wrap after it            *)
  MaxMsg,               (* how many messages the peer sends on this stream      *)
  PayloadLength,        (* message -> its length in bytes                       *)
  WaitingListMaxSize,   (* cfg.WaitingListMaxSize, in bytes                     *)
  WaitingListMaxTTL     (* cfg.WaitingListMaxTTL, in seconds                    *)

\* At most one wrap of the identifier: ID needs no modulo.
ASSUME WaitingListAssumption ==
  /\ MaxUint32 \in Nat \ {0}
  /\ MaxMsg \in Nat
  /\ MaxMsg <= 2 * MaxUint32 + 1
  /\ PayloadLength \in [1 .. MaxMsg -> Nat]
  /\ WaitingListMaxSize \in Nat
  /\ WaitingListMaxTTL \in Nat

Messages == 1 .. MaxMsg
Uint32 == 0 .. MaxUint32

\* endpointSequence.id++ of the peer's interface: the first message is 1, and
\* 0 comes after MaxUint32.
ID(m) == IF m <= MaxUint32 THEN m ELSE m - (MaxUint32 + 1)

\* x+1 and x-y of uint32
Succ(x) == IF x = MaxUint32 THEN 0 ELSE x + 1
MinusSigned(x, y) == x - y      \* mutant: int instead of uint32
Minus(x, y) == IF x >= y THEN x - y ELSE x - y + MaxUint32 + 1

SizeOf(S) == MapThenSumSet(LAMBDA m : PayloadLength[m], S)

\* in the order of the identifiers, none twice
Sorted(s) == \A i, j \in 1 .. Len(s) : i < j => ID(s[i]) < ID(s[j])

NewWaitingList ==
  [lastID |-> 0, firstSent |-> FALSE, data |-> <<>>, dataSize |-> 0,
   firstMessageTs |-> 0, idsMap |-> {}]

-----------------------------------------------------------------------------

Exists(w, m) == ID(m) \in w.idsMap

\* send: the message goes to the receiver, and is now the last one sent.
Send(w, m) == [w EXCEPT !.lastID = ID(m), !.firstSent = TRUE]

-----------------------------------------------------------------------------
(***************************************************************************)
(* push: after the last element, before the first, or else before the      *)
(* first element whose uint32 distance to the new one grows.               *)
(***************************************************************************)
Grows(w, m, i) ==
  LET Distance(j) == Minus(ID(m), ID(w.data[j]))
  IN  Distance(i) > (IF i = 1 THEN MaxUint32 ELSE Distance(i - 1))

Growths(w, m) == {i \in 1 .. Len(w.data) : Grows(w, m, i)}

AfterLast(w, m) == w.data = <<>> \/ ID(w.data[Len(w.data)]) < ID(m)
BeforeFirst(w, m) == ID(w.data[1]) > ID(m)

\* push returns the error "wrong waiting list sort"
PushFails(w, m) ==
  ~AfterLast(w, m) /\ ~BeforeFirst(w, m) /\ Growths(w, m) = {}

\* mutant: behind the element it found
PositionBehind(w, m) ==
  IF AfterLast(w, m) THEN Len(w.data) + 1
  ELSE IF BeforeFirst(w, m) THEN 1
  ELSE Min(Growths(w, m)) + 1

Position(w, m) ==
  IF AfterLast(w, m) THEN Len(w.data) + 1
  ELSE IF BeforeFirst(w, m) THEN 1
  ELSE Min(Growths(w, m))

Push(w, m, now) ==
  [w EXCEPT !.dataSize = @ + PayloadLength[m],
            !.data = InsertAt(@, Position(w, m), m),
            !.idsMap = @ \union {ID(m)},
            !.firstMessageTs = IF w.data = <<>> THEN now ELSE @]

-----------------------------------------------------------------------------
(***************************************************************************)
(* pop: when the head follows the last identifier sent, or is 0, the run   *)
(* of consecutive identifiers at the head leaves the list.                 *)
(***************************************************************************)
CanPop(w) ==
  /\ w.data # <<>>
  /\ ID(w.data[1]) = Succ(w.lastID) \/ ID(w.data[1]) = 0

RunLengthOne(w) == 1            \* mutant: only the head is popped

RunLength(w) ==
  Min({k \in 1 .. Len(w.data) :
         k = Len(w.data) \/ ID(w.data[k + 1]) # Succ(ID(w.data[k]))})

Run(w) == SubSeq(w.data, 1, RunLength(w))

PopRun(w) ==
  LET k == RunLength(w)
      popped == ToSet(Run(w))
  IN  [w EXCEPT !.lastID = ID(w.data[k]),
                !.firstSent = TRUE,
                !.data = SubSeq(@, k + 1, Len(@)),
                !.idsMap = @ \ {ID(m) : m \in popped},
                !.dataSize = @ - SizeOf(popped),
                !.firstMessageTs = IF k = Len(w.data) THEN 0 ELSE @]

\* pop(nil): the list after it, and what it sent
Popped(w) == IF CanPop(w) THEN PopRun(w) ELSE w
PoppedRun(w) == IF CanPop(w) THEN Run(w) ELSE <<>>

-----------------------------------------------------------------------------
\* reset: everything waiting is sent, whatever is missing before it.
\* firstMessageTs stays as it was.
Reset(w) ==
  [w EXCEPT !.lastID = IF w.data = <<>> THEN @ ELSE ID(w.data[Len(w.data)]),
            !.firstSent = @ \/ w.data # <<>>,
            !.data = <<>>,
            !.idsMap = {},
            !.dataSize = 0]

\* mutant: > for >=
LimitExceededLate(w, now) ==
  \/ w.dataSize > WaitingListMaxSize
  \/ w.firstMessageTs # 0 /\ now - w.firstMessageTs > WaitingListMaxTTL

\* the two limits the stream looks at after a push
LimitExceeded(w, now) ==
  \/ w.dataSize > WaitingListMaxSize
  \/ w.firstMessageTs # 0 /\ now - w.firstMessageTs >= WaitingListMaxTTL
==============================================================================
