--------------------------- MODULE PipelineProofs ---------------------------
(***************************************************************************)
(* For every number of processors, every batch size and every capacity of  *)
(* the channel: no packet that was read disappears without being counted   *)
(* as refused or discarded, none is in two places or handled twice, and    *)
(* the channel hands packets out in the order they were read.  From that   *)
(* invariant follows that the pipeline implements PacketFeed.              *)
(*                                                                         *)
(* The inductive invariant adds that every batch, and the channel as a     *)
(* whole, is in increasing order: without it taking the head of a batch    *)
(* could leave a copy behind.                                              *)
(***************************************************************************)
EXTENDS Pipeline, TLAPS

Increasing(s) == \A i, j \in DOMAIN s : i < j => s[i] < s[j]

QueueIncreasing(q) ==
  /\ \A i \in DOMAIN q : Increasing(q[i])
  /\ \A i, j \in DOMAIN q : i < j => \A x \in Range(q[i]), y \in Range(q[j]) : x < y

QueueSet(q) == UNION {Range(q[i]) : i \in DOMAIN q}
HandSet(h) == UNION {Range(h[p]) : p \in Processors}

Packets == 1..nread

(* Every packet the capture thread read is accounted for: it is in the     *)
(* batch, in the channel, in a processor's hands, handled, refused by the  *)
(* full channel or discarded when a thread ended.                          *)
NothingVanishes ==
  Packets = Range(batch) \cup InQueue \cup InHand \cup handled \cup dropped \cup lost

(* No packet is in two of those places, in the hands of two processors, or *)
(* handled twice.                                                          *)
NothingTwice ==
  /\ \A p, q \in Processors : p # q => Range(hand[p]) \cap Range(hand[q]) = {}
  /\ handled \cap (Range(batch) \cup InQueue \cup InHand \cup dropped \cup lost) = {}
  /\ InHand \cap (Range(batch) \cup InQueue \cup dropped \cup lost) = {}
  /\ InQueue \cap (Range(batch) \cup dropped \cup lost) = {}
  /\ Range(batch) \cap (dropped \cup lost) = {}
  /\ dropped \cap lost = {}

(* The channel hands packets out in the order they were read: whatever is  *)
(* still queued is younger than everything a processor has got, and the    *)
(* batch being filled is younger than the queue.  So packets overtake each *)
(* other only between the hands of two processors.                         *)
HandedOutInOrder ==
  /\ \A x \in InHand \cup handled, y \in InQueue : x < y
  /\ \A x \in InHand \cup handled \cup InQueue, y \in Range(batch) : x < y

(* The channel never holds more than QueueMax batches of BatchMax packets. *)
QueueBound ==
  /\ Len(queue) <= QueueMax
  /\ \A i \in DOMAIN queue : Len(queue[i]) <= BatchMax
  /\ Len(batch) < BatchMax

FlowInv ==
  /\ NothingVanishes
  /\ NothingTwice
  /\ HandedOutInOrder
  /\ Increasing(batch)
  /\ QueueIncreasing(queue)
  /\ \A p \in Processors : Increasing(hand[p])

-----------------------------------------------------------------------------
(* An empty sequence holds nothing and is in order.                        *)
LEMMA EmptyFacts ==
  /\ Range(<<>>) = {} /\ Increasing(<<>>)
  /\ QueueSet(<<>>) = {} /\ QueueIncreasing(<<>>)
BY DEF Range, Increasing, QueueSet, QueueIncreasing

(* A push adds one element, at the end of the order if it is the greatest. *)
LEMMA PushFacts ==
  ASSUME NEW s \in Seq(Nat), NEW x \in Nat
  PROVE  /\ Append(s, x) \in Batches
         /\ Range(Append(s, x)) = Range(s) \cup {x}
         /\ (\A y \in Range(s) : y < x) /\ Increasing(s) => Increasing(Append(s, x))
<1>1. DOMAIN Append(s, x) = 1..(Len(s) + 1) /\ DOMAIN s = 1..Len(s)
  OBVIOUS
<1>2. Append(s, x)[Len(s) + 1] = x /\ \A i \in 1..Len(s) : Append(s, x)[i] = s[i]
  OBVIOUS
<1>3. Append(s, x) \in Seq(Nat) /\ Len(s) \in Nat
  OBVIOUS
<1>4. Range(Append(s, x)) = Range(s) \cup {x}
  BY <1>1, <1>2, <1>3 DEF Range
<1>5. ASSUME \A y \in Range(s) : y < x, Increasing(s)
      PROVE  Increasing(Append(s, x))
  BY <1>1, <1>2, <1>3, <1>5 DEF Range, Increasing
<1>7. Append(s, x) # <<>>
  <2>1. Len(Append(s, x)) = Len(s) + 1 /\ Len(s) + 1 # 0
    BY <1>3
  <2>2. Len(<<>>) = 0
    OBVIOUS
  <2> QED BY <2>1, <2>2
<1> QED BY <1>3, <1>4, <1>5, <1>7 DEF Batches

(* Taking the head of an increasing sequence leaves no copy behind.        *)
LEMMA PopFacts ==
  ASSUME NEW s \in Seq(Nat), s # <<>>, Increasing(s)
  PROVE  /\ Head(s) \in Nat /\ Tail(s) \in Seq(Nat)
         /\ Head(s) \in Range(s)
         /\ Range(Tail(s)) = Range(s) \ {Head(s)}
         /\ Increasing(Tail(s))
<1>1. Len(s) \in Nat /\ Len(s) >= 1 /\ DOMAIN s = 1..Len(s)
  OBVIOUS
<1>2. Head(s) = s[1] /\ Head(s) \in Nat /\ Tail(s) \in Seq(Nat)
  BY <1>1
<1>3. DOMAIN Tail(s) = 1..(Len(s) - 1) /\ \A i \in 1..(Len(s) - 1) : Tail(s)[i] = s[i + 1]
  BY <1>1
<1>4. \A i \in 1..Len(s) : s[i] \in Nat
  BY <1>1
<1>5. Increasing(Tail(s))
  <2>1. ASSUME NEW i \in 1..(Len(s) - 1), NEW j \in 1..(Len(s) - 1), i < j
        PROVE  Tail(s)[i] < Tail(s)[j]
    <3>1. i + 1 \in 1..Len(s) /\ j + 1 \in 1..Len(s) /\ i + 1 < j + 1
      BY <1>1, <2>1
    <3>2. s[i + 1] < s[j + 1]
      BY <3>1, <1>1 DEF Increasing
    <3> QED BY <3>2, <1>3
  <2> QED BY <2>1, <1>3 DEF Increasing
<1>6. ASSUME NEW y \in Range(Tail(s)) PROVE y \in Range(s) \ {Head(s)}
  <2>1. PICK i \in 1..(Len(s) - 1) : y = s[i + 1]
    BY <1>3, <1>6 DEF Range
  <2>2. i + 1 \in 1..Len(s) /\ 1 \in 1..Len(s) /\ 1 < i + 1
    BY <1>1
  <2>3. s[1] < s[i + 1]
    BY <2>2, <1>1 DEF Increasing
  <2> QED BY <2>1, <2>2, <2>3, <1>1, <1>2, <1>4 DEF Range
<1>7. ASSUME NEW y \in Range(s), y # Head(s) PROVE y \in Range(Tail(s))
  <2>1. PICK i \in 1..Len(s) : y = s[i]
    BY <1>1, <1>7 DEF Range
  <2>2. i # 1
    BY <2>1, <1>2, <1>7
  <2>3. i - 1 \in 1..(Len(s) - 1) /\ (i - 1) + 1 = i
    BY <2>2, <1>1
  <2> QED BY <2>1, <2>3, <1>3 DEF Range
<1>8. Head(s) \in Range(s)
  BY <1>1, <1>2 DEF Range
<1> QED BY <1>2, <1>5, <1>6, <1>7, <1>8

(* A batch sent joins the end of the channel.                              *)
LEMMA SendFacts ==
  ASSUME NEW q \in Seq(Batches), NEW b \in Batches
  PROVE  /\ Append(q, b) \in Seq(Batches)
         /\ QueueSet(Append(q, b)) = QueueSet(q) \cup Range(b)
         /\ QueueIncreasing(q) /\ Increasing(b)
              /\ (\A x \in QueueSet(q), y \in Range(b) : x < y)
              => QueueIncreasing(Append(q, b))
<1>1. DOMAIN Append(q, b) = 1..(Len(q) + 1) /\ DOMAIN q = 1..Len(q)
  OBVIOUS
<1>2. Append(q, b)[Len(q) + 1] = b /\ \A i \in 1..Len(q) : Append(q, b)[i] = q[i]
  OBVIOUS
<1>3. Append(q, b) \in Seq(Batches) /\ Len(q) \in Nat
  OBVIOUS
<1>4. QueueSet(Append(q, b)) = QueueSet(q) \cup Range(b)
  <2>1. ASSUME NEW x \in QueueSet(Append(q, b)) PROVE x \in QueueSet(q) \cup Range(b)
    <3>1. PICK i \in 1..(Len(q) + 1) : x \in Range(Append(q, b)[i])
      BY <1>1, <2>1 DEF QueueSet
    <3>2. CASE i = Len(q) + 1
      BY <3>1, <3>2, <1>2
    <3>3. CASE i \in 1..Len(q)
      BY <3>1, <3>3, <1>1, <1>2 DEF QueueSet
    <3> QED BY <3>2, <3>3, <1>3
  <2>2. ASSUME NEW x \in QueueSet(q) PROVE x \in QueueSet(Append(q, b))
    <3>1. PICK i \in 1..Len(q) : x \in Range(q[i])
      BY <1>1, <2>2 DEF QueueSet
    <3>2. i \in 1..(Len(q) + 1) /\ Append(q, b)[i] = q[i]
      BY <1>2, <1>3
    <3> QED BY <3>1, <3>2, <1>1 DEF QueueSet
  <2>3. ASSUME NEW x \in Range(b) PROVE x \in QueueSet(Append(q, b))
    <3>1. Len(q) + 1 \in 1..(Len(q) + 1)
      BY <1>3
    <3> QED BY <2>3, <3>1, <1>1, <1>2 DEF QueueSet
  <2> QED BY <2>1, <2>2, <2>3
<1>5. ASSUME QueueIncreasing(q), Increasing(b), \A x \in QueueSet(q), y \in Range(b) : x < y
      PROVE  QueueIncreasing(Append(q, b))
  <2>1. ASSUME NEW i \in 1..(Len(q) + 1) PROVE Increasing(Append(q, b)[i])
    BY <1>1, <1>2, <1>3, <1>5 DEF QueueIncreasing
  <2>2. ASSUME NEW i \in 1..(Len(q) + 1), NEW j \in 1..(Len(q) + 1), i < j,
               NEW x \in Range(Append(q, b)[i]), NEW y \in Range(Append(q, b)[j])
        PROVE  x < y
    <3>1. i \in 1..Len(q) /\ Append(q, b)[i] = q[i]
      BY <2>2, <1>2, <1>3
    <3>2. CASE j \in 1..Len(q)
      <4>1. Append(q, b)[j] = q[j]
        BY <3>2, <1>2
      <4> QED BY <3>1, <3>2, <4>1, <2>2, <1>1, <1>5 DEF QueueIncreasing
    <3>3. CASE j = Len(q) + 1
      <4>1. x \in QueueSet(q)
        BY <3>1, <2>2, <1>1 DEF QueueSet
      <4>2. y \in Range(b)
        BY <3>3, <2>2, <1>2
      <4> QED BY <4>1, <4>2, <1>5
    <3> QED BY <3>2, <3>3, <1>3
  <2> QED BY <2>1, <2>2, <1>1 DEF QueueIncreasing
<1> QED BY <1>3, <1>4, <1>5

(* The first batch leaves the channel whole and is older than the rest.    *)
LEMMA ReceiveFacts ==
  ASSUME NEW q \in Seq(Batches), q # <<>>, QueueIncreasing(q),
         \A i \in DOMAIN q : \A x \in Range(q[i]) : x \in Nat
  PROVE  /\ Head(q) \in Batches /\ Tail(q) \in Seq(Batches)
         /\ Increasing(Head(q)) /\ QueueIncreasing(Tail(q))
         /\ QueueSet(q) = Range(Head(q)) \cup QueueSet(Tail(q))
         /\ \A x \in Range(Head(q)), y \in QueueSet(Tail(q)) : x < y
         /\ Range(Head(q)) \cap QueueSet(Tail(q)) = {}
<1>1. Len(q) \in Nat /\ Len(q) >= 1 /\ DOMAIN q = 1..Len(q)
  OBVIOUS
<1>2. Head(q) = q[1] /\ Head(q) \in Batches /\ Tail(q) \in Seq(Batches) /\ 1 \in 1..Len(q)
  BY <1>1
<1>3. DOMAIN Tail(q) = 1..(Len(q) - 1) /\ \A i \in 1..(Len(q) - 1) : Tail(q)[i] = q[i + 1]
  BY <1>1
<1>4. \A i \in 1..(Len(q) - 1) : i + 1 \in 1..Len(q)
  BY <1>1
<1>5. Increasing(Head(q))
  BY <1>1, <1>2 DEF QueueIncreasing
<1>6. QueueIncreasing(Tail(q))
  <2>1. \A i \in DOMAIN Tail(q) : Increasing(Tail(q)[i])
    BY <1>1, <1>3, <1>4 DEF QueueIncreasing
  <2>2. ASSUME NEW i \in 1..(Len(q) - 1), NEW j \in 1..(Len(q) - 1), i < j,
               NEW x \in Range(Tail(q)[i]), NEW y \in Range(Tail(q)[j])
        PROVE  x < y
    <3>1. Tail(q)[i] = q[i + 1] /\ Tail(q)[j] = q[j + 1] /\ i + 1 < j + 1
      BY <1>3, <2>2
    <3> QED BY <3>1, <2>2, <1>1, <1>4 DEF QueueIncreasing
  <2> QED BY <2>1, <2>2, <1>3 DEF QueueIncreasing
<1>7. ASSUME NEW x \in Range(Head(q)), NEW y \in QueueSet(Tail(q))
      PROVE  x < y /\ x \in Nat
  <2>1. PICK j \in 1..(Len(q) - 1) : y \in Range(q[j + 1])
    BY <1>3, <1>7 DEF QueueSet
  <2>2. 1 < j + 1 /\ j + 1 \in 1..Len(q)
    BY <1>4
  <2>3. x \in Range(q[1])
    BY <1>2, <1>7
  <2> QED BY <2>1, <2>2, <2>3, <1>1, <1>2 DEF QueueIncreasing
<1>8. ASSUME NEW x \in QueueSet(q) PROVE x \in Range(Head(q)) \cup QueueSet(Tail(q))
  <2>1. PICK i \in 1..Len(q) : x \in Range(q[i])
    BY <1>1, <1>8 DEF QueueSet
  <2>2. CASE i = 1
    BY <2>1, <2>2, <1>2
  <2>3. CASE i # 1
    <3>1. i - 1 \in 1..(Len(q) - 1) /\ (i - 1) + 1 = i
      BY <2>3, <1>1
    <3>2. Tail(q)[i - 1] = q[i]
      BY <3>1, <1>3
    <3> QED BY <3>1, <3>2, <2>1, <1>3 DEF QueueSet
  <2> QED BY <2>2, <2>3
<1>9. ASSUME NEW x \in Range(Head(q)) \cup QueueSet(Tail(q)) PROVE x \in QueueSet(q)
  <2>1. CASE x \in Range(Head(q))
    BY <2>1, <1>1, <1>2 DEF QueueSet
  <2>2. CASE x \in QueueSet(Tail(q))
    <3>1. PICK j \in 1..(Len(q) - 1) : x \in Range(q[j + 1])
      BY <1>3, <2>2 DEF QueueSet
    <3> QED BY <3>1, <1>1, <1>4 DEF QueueSet
  <2> QED BY <1>9, <2>1, <2>2
<1>10. Range(Head(q)) \cap QueueSet(Tail(q)) = {}
  <2>1. ASSUME NEW x \in Range(Head(q)), x \in QueueSet(Tail(q)) PROVE FALSE
    <3>1. x < x /\ x \in Nat
      BY <2>1, <1>7
    <3> QED BY <3>1
  <2> QED BY <2>1
<1> QED BY <1>2, <1>5, <1>6, <1>7, <1>8, <1>9, <1>10

(* A batch taken by an idle processor.                                     *)
LEMMA TakeFacts ==
  ASSUME NEW h \in [Processors -> Seq(Nat)], NEW p \in Processors, NEW b \in Seq(Nat),
         h[p] = <<>>
  PROVE  HandSet([h EXCEPT ![p] = b]) = HandSet(h) \cup Range(b)
<1> DEFINE g == [h EXCEPT ![p] = b]
<1>1. g[p] = b /\ \A q \in Processors : q # p => g[q] = h[q]
  OBVIOUS
<1>2. Range(h[p]) = {}
  BY EmptyFacts
<1>3. ASSUME NEW x \in HandSet(g) PROVE x \in HandSet(h) \cup Range(b)
  <2>1. PICK q \in Processors : x \in Range(g[q])
    BY <1>3 DEF HandSet
  <2> QED BY <2>1, <1>1 DEF HandSet
<1>4. ASSUME NEW x \in HandSet(h) PROVE x \in HandSet(g)
  <2>1. PICK q \in Processors : x \in Range(h[q])
    BY <1>4 DEF HandSet
  <2>2. q # p
    BY <2>1, <1>2
  <2> QED BY <2>1, <2>2, <1>1 DEF HandSet
<1>5. ASSUME NEW x \in Range(b) PROVE x \in HandSet(g)
  BY <1>1, <1>5 DEF HandSet
<1> QED BY <1>3, <1>4, <1>5

(* A packet a processor is done with leaves all hands.                     *)
LEMMA HandleFacts ==
  ASSUME NEW h \in [Processors -> Seq(Nat)], NEW p \in Processors,
         h[p] # <<>>, Increasing(h[p]),
         \A q, r \in Processors : q # r => Range(h[q]) \cap Range(h[r]) = {}
  PROVE  /\ Head(h[p]) \in HandSet(h)
         /\ HandSet([h EXCEPT ![p] = Tail(@)]) = HandSet(h) \ {Head(h[p])}
<1> DEFINE g == [h EXCEPT ![p] = Tail(@)]
           x0 == Head(h[p])
<1>1. g[p] = Tail(h[p]) /\ \A q \in Processors : q # p => g[q] = h[q]
  OBVIOUS
<1>2. x0 \in Range(h[p]) /\ Range(Tail(h[p])) = Range(h[p]) \ {x0}
  BY PopFacts
<1>3. ASSUME NEW x \in HandSet(g) PROVE x \in HandSet(h) \ {x0}
  <2>1. PICK q \in Processors : x \in Range(g[q])
    BY <1>3 DEF HandSet
  <2>2. CASE q = p
    BY <2>1, <2>2, <1>1, <1>2 DEF HandSet
  <2>3. CASE q # p
    BY <2>1, <2>3, <1>1, <1>2 DEF HandSet
  <2> QED BY <2>2, <2>3
<1>4. ASSUME NEW x \in HandSet(h), x # x0 PROVE x \in HandSet(g)
  <2>1. PICK q \in Processors : x \in Range(h[q])
    BY <1>4 DEF HandSet
  <2>2. CASE q = p
    BY <2>1, <2>2, <1>1, <1>2, <1>4 DEF HandSet
  <2>3. CASE q # p
    BY <2>1, <2>3, <1>1 DEF HandSet
  <2> QED BY <2>2, <2>3
<1>5. x0 \in HandSet(h)
  BY <1>2 DEF HandSet
<1> QED BY <1>3, <1>4, <1>5

-----------------------------------------------------------------------------
(* The counters stay counters.                                             *)
LEMMA CounterFacts ==
  /\ [processed |-> 0, dropped |-> 0] \in Counters
  /\ \A s \in Counters, n \in Nat :
       /\ [s EXCEPT !.dropped = n] \in Counters
       /\ [s EXCEPT !.processed = n] \in Counters
       /\ [s EXCEPT !.dropped = @ + n] \in Counters
       /\ [s EXCEPT !.processed = @ + n] \in Counters
BY DEF Counters

(* What an exit, a send or a processor's exit does to the types.           *)
LEMMA TypeStep == TypeOK /\ [Next]_vars => TypeOK'
<1> SUFFICES ASSUME TypeOK, [Next]_vars PROVE TypeOK'
  OBVIOUS
<1>e. <<>> \in Seq(Nat) /\ <<>> \in Seq(Batches)
  OBVIOUS
<1>a. Range(batch) \subseteq Nat /\ InQueue \subseteq Nat
  <2>1. \A s \in Seq(Nat) : Range(s) \subseteq Nat
    BY DEF Range
  <2>2. \A i \in DOMAIN queue : queue[i] \in Seq(Nat)
    BY DEF TypeOK, Batches
  <2> QED BY <2>1, <2>2 DEF TypeOK, InQueue
<1>b. ASSUME NEW b \in Batches, NEW n \in {"check", "stats"}, Range(b) \subseteq Nat,
             TrySend(b, n)
      PROVE  /\ queue' \in Seq(Batches) /\ batch' \in Seq(Nat)
             /\ capture' \in {"check", "stats", "ended"} /\ due' \in BOOLEAN
             /\ dropped' \subseteq Nat /\ lost' \subseteq Nat
             /\ stats' \in Counters
             /\ refused' \in Nat
  <2>1. Len(b) \in Nat /\ <<>> \in Seq(Nat)
    BY DEF Batches
  <2>2. Append(queue, b) \in Seq(Batches)
    BY SendFacts DEF TypeOK, Batches
  <2>3. queue \in Seq(Batches) /\ dropped \subseteq Nat /\ lost \subseteq Nat
        /\ stats \in Counters /\ refused \in Nat /\ due \in BOOLEAN
    BY DEF TypeOK
  <2>4a. refused + Len(b) \in Nat
    BY <2>1, <2>3
  <2>4. [stats EXCEPT !.dropped = @ + Len(b)] \in Counters
    BY CounterFacts, <2>1, <2>3
  <2>5. stats' \in Counters /\ refused' \in Nat
    BY <1>b, <2>3, <2>4, <2>4a DEF TrySend
  <2>6. queue' \in Seq(Batches)
    BY <1>b, <2>2, <2>3 DEF TrySend, CaptureExit
  <2>7. dropped' \subseteq Nat /\ lost' \subseteq Nat
    BY <1>b, <2>3 DEF TrySend, CaptureExit
  <2>8. batch' \in Seq(Nat) /\ capture' \in {"check", "stats", "ended"} /\ due' \in BOOLEAN
    BY <1>b, <2>1, <2>3 DEF TrySend, CaptureExit
  <2> QED BY <2>5, <2>6, <2>7, <2>8
<1>c. ASSUME NEW p \in Processors, ProcessorExit(p), hand' = hand,
             proc[p] \in {"check", "recv"}
      PROVE  /\ queue' \in Seq(Batches) /\ lost' \subseteq Nat
             /\ proc' \in [Processors ->
                           {"unborn", "linktype", "check", "recv", "work", "ended"}]
             /\ \A q \in Processors : proc'[q] # "work" => hand'[q] = <<>>
  BY <1>a, <1>c, <1>e DEF ProcessorExit, TypeOK
<1>1. CASE CaptureSetup
  BY <1>1 DEF CaptureSetup, mainVars, procVars, TypeOK
<1>2. CASE CaptureCheck
  BY <1>2, <1>a, <1>e DEF CaptureCheck, CaptureExit, mainVars, procVars, TypeOK
<1>3. CASE CapturePacket
  <2> DEFINE b == Append(batch, nread + 1)
  <2>1. b \in Batches /\ nread + 1 \in Nat
    <3>1. nread + 1 \in Nat
      BY DEF TypeOK
    <3>2. batch \in Seq(Nat)
      BY DEF TypeOK
    <3> QED BY <3>1, <3>2, PushFacts
  <2>2. Range(b) \subseteq Nat
    BY <1>a, PushFacts DEF TypeOK
  <2>3. CASE TrySend(b, "check")
    BY <1>3, <2>1, <2>2, <2>3, <1>b DEF CapturePacket, mainVars, procVars, TypeOK
  <2>4. CASE ~TrySend(b, "check")
    BY <1>3, <2>1, <2>4 DEF CapturePacket, mainVars, procVars, TypeOK, Batches
  <2> QED BY <2>3, <2>4
<1>4. CASE CaptureTimeout
  <2>1. CASE batch # <<>> /\ due
    <3>1. batch \in Batches
      BY <2>1 DEF TypeOK, Batches
    <3> QED BY <1>4, <1>a, <2>1, <3>1, <1>b DEF CaptureTimeout, mainVars, procVars, TypeOK
  <2>2. CASE ~(batch # <<>> /\ due)
    BY <1>4, <2>2 DEF CaptureTimeout, mainVars, procVars, TypeOK
  <2> QED BY <2>1, <2>2
<1>5. CASE CaptureStats
  <2>1. stats' \in Counters
    <3>1. stats \in Counters /\ kernel \in Nat
      BY DEF TypeOK
    <3>2. stats' = [stats EXCEPT !.dropped = kernel] \/ stats' = stats
      BY <1>5 DEF CaptureStats
    <3> QED BY <3>1, <3>2, CounterFacts
  <2> QED BY <1>5, <2>1 DEF CaptureStats, mainVars, procVars, TypeOK
<1>6. CASE CaptureError
  BY <1>6, <1>a, <1>e DEF CaptureError, CaptureExit, mainVars, procVars, TypeOK
<1>7. CASE Deadline
  BY <1>7 DEF Deadline, TypeOK
<1>8. CASE KernelDrop
  BY <1>8 DEF KernelDrop, TypeOK
<1>9. ASSUME NEW p \in Processors, Processor(p) PROVE TypeOK'
  <2>1. CASE AwaitLinktype(p)
    BY <2>1 DEF AwaitLinktype, mainVars, captureVars, TypeOK
  <2>2. CASE ProcessorCheck(p)
    <3>1. CASE shouldStop
      BY <2>2, <3>1, <1>c DEF ProcessorCheck, mainVars, captureVars, TypeOK
    <3>2. CASE ~shouldStop
      BY <2>2, <3>2 DEF ProcessorCheck, mainVars, captureVars, TypeOK
    <3> QED BY <3>1, <3>2
  <2>3. CASE Receive(p)
    <3>1. Head(queue) \in Seq(Nat) /\ Tail(queue) \in Seq(Batches)
      BY <2>3 DEF Receive, TypeOK, Batches
    <3>2. Len(Head(queue)) \in Nat
      BY <3>1
    <3> QED BY <2>3, <3>1, <3>2 DEF Receive, mainVars, captureVars, TypeOK
  <2>4. CASE ReceiveNothing(p)
    <3>1. CASE capture = "ended"
      BY <2>4, <3>1, <1>c DEF ReceiveNothing, mainVars, captureVars, TypeOK
    <3>2. CASE capture # "ended"
      BY <2>4, <3>2 DEF ReceiveNothing, mainVars, captureVars, TypeOK
    <3> QED BY <3>1, <3>2
  <2>5. CASE HandlePacket(p)
    <3>1. Head(hand[p]) \in Nat /\ Tail(hand[p]) \in Seq(Nat)
      BY <2>5 DEF HandlePacket, TypeOK
    <3> QED BY <2>5, <3>1 DEF HandlePacket, mainVars, captureVars, TypeOK
  <2>7. CASE BatchDone(p)
    BY CounterFacts, <2>7 DEF BatchDone, mainVars, captureVars, TypeOK
  <2> QED BY <1>9, <2>1, <2>2, <2>3, <2>4, <2>5, <2>7 DEF Processor
<1>10. CASE MainThread
  <2>1. CASE StartWorkers
    BY <2>1 DEF StartWorkers, captureVars, TypeOK
  <2>2. CASE Stop
    BY <2>2 DEF Stop, captureVars, procVars, TypeOK
  <2>3. CASE DropApp
    BY <2>3, <1>a, <1>e DEF DropApp, captureVars, procVars, TypeOK
  <2>4. CASE ClearProcessed
    <3>1. stats' \in Counters /\ refused' \in Nat
      BY CounterFacts, <2>4 DEF ClearProcessed, TypeOK
    <3> QED BY <2>4, <3>1 DEF ClearProcessed, captureVars, procVars, TypeOK
  <2>5. CASE ClearDropped
    BY CounterFacts, <2>5 DEF ClearDropped, captureVars, procVars, TypeOK
  <2> QED BY <1>10, <2>1, <2>2, <2>3, <2>4, <2>5 DEF MainThread
<1>11. CASE UNCHANGED vars
  BY <1>11 DEF vars, TypeOK
<1> QED BY <1>1, <1>2, <1>3, <1>4, <1>5, <1>6, <1>7, <1>8, <1>9, <1>10, <1>11
        DEF Next, CaptureThread, Finished

LEMMA TypeInit == Init => TypeOK
<1>1. <<>> \in Seq(Nat) /\ <<>> \in Seq(Batches)
  OBVIOUS
<1> SUFFICES ASSUME Init PROVE TypeOK
  OBVIOUS
<1>2. stats \in Counters /\ refused \in Nat
  BY CounterFacts DEF Init
<1> QED BY <1>1, <1>2 DEF Init, TypeOK

-----------------------------------------------------------------------------
(* Init establishes the flow invariant.                                    *)
LEMMA FlowInit == Init => FlowInv
<1> SUFFICES ASSUME Init PROVE FlowInv
  OBVIOUS
<1>1. Range(batch) = {} /\ InQueue = {} /\ InHand = {} /\ handled = {} /\ Packets = {}
  <2>1. InQueue = {}
    BY EmptyFacts DEF Init, InQueue, QueueSet
  <2>2. InHand = {}
    BY EmptyFacts DEF Init, InHand
  <2> QED BY <2>1, <2>2, EmptyFacts DEF Init, Packets
<1>2. NothingVanishes /\ HandedOutInOrder
  BY <1>1 DEF Init, NothingVanishes, HandedOutInOrder
<1>3. NothingTwice
  BY <1>1, EmptyFacts DEF Init, NothingTwice
<1> QED BY <1>2, <1>3, EmptyFacts DEF Init, FlowInv

(* The sets a step moves packets between.                                  *)
LEMMA StateFacts ==
  /\ InQueue = QueueSet(queue) /\ InHand = HandSet(hand)
  /\ InQueue' = QueueSet(queue') /\ InHand' = HandSet(hand')
BY DEF InQueue, InHand, QueueSet, HandSet

(* A step that leaves every place alone.                                   *)
LEMMA FlowUnchanged ==
  ASSUME FlowInv,
         UNCHANGED <<nread, batch, queue, hand, handled, dropped, lost>>
  PROVE  FlowInv'
<1>1. InQueue' = InQueue /\ InHand' = InHand /\ handled' = handled /\ Packets' = Packets
  BY DEF InQueue, InHand, Packets
<1>2. Range(batch)' = Range(batch)
  OBVIOUS
<1>3. NothingVanishes'
  BY <1>1, <1>2 DEF FlowInv, NothingVanishes
<1>4. NothingTwice'
  BY <1>1, <1>2 DEF FlowInv, NothingTwice
<1>5. HandedOutInOrder'
  BY <1>1, <1>2 DEF FlowInv, HandedOutInOrder
<1> QED BY <1>3, <1>4, <1>5 DEF FlowInv

(* Packets that leave the channel because nobody can receive them.         *)
LEMMA FlowDiscardQueue ==
  ASSUME FlowInv, queue' = <<>>, lost' = lost \cup InQueue,
         UNCHANGED <<nread, batch, hand, handled, dropped>>
  PROVE  FlowInv'
<1>1. InQueue' = {} /\ InHand' = InHand /\ handled' = handled /\ Packets' = Packets
  BY EmptyFacts, StateFacts DEF InHand, Packets
<1>2. Range(batch)' = Range(batch)
  OBVIOUS
<1>3. NothingVanishes'
  BY <1>1, <1>2 DEF FlowInv, NothingVanishes
<1>4. NothingTwice'
  BY <1>1, <1>2 DEF FlowInv, NothingTwice
<1>5. HandedOutInOrder'
  BY <1>1, <1>2 DEF FlowInv, HandedOutInOrder
<1> QED BY <1>3, <1>4, <1>5, EmptyFacts DEF FlowInv

(* The capture thread with the packet it has just read, if any, in b: what *)
(* becomes of b keeps the invariant.                                       *)
LEMMA FlowBatch ==
  ASSUME TypeOK, FlowInv, NEW b \in Seq(Nat), Increasing(b),
         nread' \in Nat,
         Packets' = Packets \cup Range(b), Range(batch) \subseteq Range(b),
         Range(b) \cap Packets = Range(batch),
         \A x \in InHand \cup handled \cup InQueue, y \in Range(b) : x < y,
         UNCHANGED <<hand, handled>>,
         \/ batch' = b /\ UNCHANGED <<queue, dropped, lost>>
         \/ b \in Batches /\ batch' = <<>> /\ queue' = Append(queue, b)
              /\ UNCHANGED <<dropped, lost>>
         \/ batch' = <<>> /\ dropped' = dropped \cup Range(b) /\ UNCHANGED <<queue, lost>>
         \/ batch' = <<>> /\ lost' = lost \cup Range(b) /\ UNCHANGED <<queue, dropped>>
  PROVE  FlowInv'
<1>1. InHand' = InHand /\ handled' = handled
  BY DEF InHand
<1>2. /\ handled \cap Range(b) = {} /\ InHand \cap Range(b) = {}
      /\ InQueue \cap Range(b) = {} /\ dropped \cap Range(b) = {} /\ lost \cap Range(b) = {}
  BY DEF FlowInv, NothingVanishes, NothingTwice
<1>3. Packets' = Range(b) \cup InQueue \cup InHand \cup handled \cup dropped \cup lost
  BY DEF FlowInv, NothingVanishes
<1>4. Range(<<>>) = {}
  BY EmptyFacts
<1>5. \A p \in Processors : Increasing(hand[p])'
  BY DEF FlowInv
<1>6. CASE batch' = b /\ UNCHANGED <<queue, dropped, lost>>
  <2>1. InQueue' = InQueue /\ Range(batch)' = Range(b)
    BY <1>6 DEF InQueue
  <2>2. NothingVanishes'
    BY <2>1, <1>1, <1>3, <1>6 DEF NothingVanishes
  <2>3. NothingTwice'
    BY <2>1, <1>1, <1>2, <1>6 DEF NothingTwice, FlowInv
  <2>4. HandedOutInOrder'
    BY <2>1, <1>1 DEF HandedOutInOrder, FlowInv
  <2> QED BY <2>2, <2>3, <2>4, <1>5, <1>6 DEF FlowInv
<1>7. CASE b \in Batches /\ batch' = <<>> /\ queue' = Append(queue, b)
             /\ UNCHANGED <<dropped, lost>>
  <2>1. InQueue' = InQueue \cup Range(b) /\ QueueIncreasing(queue)'
    BY <1>7, SendFacts, StateFacts DEF TypeOK, FlowInv
  <2>2. Range(batch)' = {} /\ Increasing(batch)'
    BY <1>7, EmptyFacts
  <2>3. NothingVanishes'
    BY <2>1, <2>2, <1>1, <1>3, <1>7 DEF NothingVanishes
  <2>4. NothingTwice'
    BY <2>1, <2>2, <1>1, <1>2, <1>7 DEF NothingTwice, FlowInv
  <2>5. HandedOutInOrder'
    BY <2>1, <2>2, <1>1 DEF HandedOutInOrder, FlowInv
  <2> QED BY <2>1, <2>2, <2>3, <2>4, <2>5, <1>5 DEF FlowInv
<1>8. CASE batch' = <<>> /\ dropped' = dropped \cup Range(b) /\ UNCHANGED <<queue, lost>>
  <2>1. InQueue' = InQueue
    BY <1>8 DEF InQueue
  <2>2. Range(batch)' = {} /\ Increasing(batch)'
    BY <1>8, EmptyFacts
  <2>3. NothingVanishes'
    BY <2>1, <2>2, <1>1, <1>3, <1>8 DEF NothingVanishes
  <2>4. NothingTwice'
    BY <2>1, <2>2, <1>1, <1>2, <1>8 DEF NothingTwice, FlowInv
  <2>5. HandedOutInOrder'
    BY <2>1, <2>2, <1>1 DEF HandedOutInOrder, FlowInv
  <2> QED BY <2>2, <2>3, <2>4, <2>5, <1>5, <1>8 DEF FlowInv
<1>9. CASE batch' = <<>> /\ lost' = lost \cup Range(b) /\ UNCHANGED <<queue, dropped>>
  <2>1. InQueue' = InQueue
    BY <1>9 DEF InQueue
  <2>2. Range(batch)' = {} /\ Increasing(batch)'
    BY <1>9, EmptyFacts
  <2>3. NothingVanishes'
    BY <2>1, <2>2, <1>1, <1>3, <1>9 DEF NothingVanishes
  <2>4. NothingTwice'
    BY <2>1, <2>2, <1>1, <1>2, <1>9 DEF NothingTwice, FlowInv
  <2>5. HandedOutInOrder'
    BY <2>1, <2>2, <1>1 DEF HandedOutInOrder, FlowInv
  <2> QED BY <2>2, <2>3, <2>4, <2>5, <1>5, <1>9 DEF FlowInv
<1> QED BY <1>6, <1>7, <1>8, <1>9

(* A step of the capture thread that sends, drops or discards the batch as *)
(* it is.                                                                  *)
LEMMA FlowOldBatch ==
  ASSUME TypeOK, FlowInv, nread' = nread, UNCHANGED <<hand, handled>>,
         \/ batch \in Batches /\ batch' = <<>> /\ queue' = Append(queue, batch)
              /\ UNCHANGED <<dropped, lost>>
         \/ batch' = <<>> /\ dropped' = dropped \cup Range(batch) /\ UNCHANGED <<queue, lost>>
         \/ batch' = <<>> /\ lost' = lost \cup Range(batch) /\ UNCHANGED <<queue, dropped>>
  PROVE  FlowInv'
<1>1. batch \in Seq(Nat) /\ nread' \in Nat /\ Increasing(batch)
  BY DEF TypeOK, FlowInv
<1>2. Packets' = Packets /\ Range(batch) \subseteq Packets
  BY DEF Packets, FlowInv, NothingVanishes
<1>3. \A x \in InHand \cup handled \cup InQueue, y \in Range(batch) : x < y
  BY DEF FlowInv, HandedOutInOrder
<1>4. Packets' = Packets \cup Range(batch) /\ Range(batch) \cap Packets = Range(batch)
  BY <1>2
<1> QED BY <1>1, <1>3, <1>4, FlowBatch

(* A packet is read: b is the batch with it.                               *)
LEMMA FlowNewPacket ==
  ASSUME TypeOK, FlowInv, CapturePacket
  PROVE  FlowInv'
<1> DEFINE n == nread + 1
           b == Append(batch, n)
<1>1. batch \in Seq(Nat) /\ n \in Nat /\ nread' = n /\ nread \in Nat /\ Increasing(batch)
  BY DEF TypeOK, CapturePacket, FlowInv
<1>2. Packets' = Packets \cup {n} /\ \A x \in Packets : x < n
  BY <1>1 DEF Packets
<1>3. \A x \in Range(batch) \cup InHand \cup handled \cup InQueue : x \in Packets
  BY DEF FlowInv, NothingVanishes
<1>4. b \in Batches /\ b \in Seq(Nat) /\ Range(b) = Range(batch) \cup {n}
  BY <1>1, PushFacts DEF Batches
<1>5. Increasing(b)
  BY <1>1, <1>2, <1>3, PushFacts
<1>6. \A x \in InHand \cup handled \cup InQueue, y \in Range(b) : x < y
  BY <1>2, <1>3, <1>4 DEF FlowInv, HandedOutInOrder
<1>7. n \notin Packets
  BY <1>1 DEF Packets
<1>8. /\ Packets' = Packets \cup Range(b) /\ Range(batch) \subseteq Range(b)
      /\ Range(b) \cap Packets = Range(batch)
  BY <1>2, <1>3, <1>4, <1>7
<1>9. /\ UNCHANGED <<hand, handled>> /\ nread' \in Nat
      /\ \/ batch' = b /\ UNCHANGED <<queue, dropped, lost>>
         \/ b \in Batches /\ batch' = <<>> /\ queue' = Append(queue, b)
              /\ UNCHANGED <<dropped, lost>>
         \/ batch' = <<>> /\ dropped' = dropped \cup Range(b) /\ UNCHANGED <<queue, lost>>
         \/ batch' = <<>> /\ lost' = lost \cup Range(b) /\ UNCHANGED <<queue, dropped>>
  BY <1>1, <1>4 DEF CapturePacket, TrySend, CaptureExit, procVars
<1> HIDE DEF b, n
<1> QED BY <1>4, <1>5, <1>6, <1>8, <1>9, FlowBatch

(* A processor takes the first batch of the channel.                       *)
LEMMA FlowReceive ==
  ASSUME TypeOK, FlowInv, NEW p \in Processors, Receive(p)
  PROVE  FlowInv'
<1> DEFINE b == Head(queue)
<1>1. queue \in Seq(Batches) /\ queue # <<>> /\ QueueIncreasing(queue)
  BY DEF TypeOK, Receive, FlowInv
<1>2. \A i \in DOMAIN queue : \A x \in Range(queue[i]) : x \in Nat
  BY <1>1 DEF Batches, Range
<1>3. /\ b \in Batches /\ Increasing(b) /\ QueueIncreasing(queue')
      /\ InQueue = Range(b) \cup InQueue'
      /\ \A x \in Range(b), y \in InQueue' : x < y
      /\ Range(b) \cap InQueue' = {}
  BY <1>1, <1>2, ReceiveFacts, StateFacts DEF Receive
<1>4. hand \in [Processors -> Seq(Nat)] /\ hand[p] = <<>> /\ b \in Seq(Nat)
  BY <1>3 DEF TypeOK, Receive, Batches
<1>5. hand' = [hand EXCEPT ![p] = b]
  BY DEF Receive
<1> HIDE DEF b
<1>6. InHand' = InHand \cup Range(b)
  BY <1>4, <1>5, TakeFacts, StateFacts
<1>7. UNCHANGED <<nread, batch, handled, dropped, lost>>
  BY DEF Receive, captureVars
<1>8. Packets' = Packets /\ handled' = handled /\ Range(batch)' = Range(batch)
  BY <1>7 DEF Packets
<1>9. NothingVanishes'
  BY <1>3, <1>6, <1>7, <1>8 DEF NothingVanishes, FlowInv
<1>10. NothingTwice'
  <2>1. \A q \in Processors : q # p => hand'[q] = hand[q]
    BY <1>4, <1>5
  <2>2. hand'[p] = b
    BY <1>4, <1>5
  <2>3. \A q \in Processors : Range(hand[q]) \cap Range(b) = {}
    BY <1>3 DEF FlowInv, NothingTwice, InHand
  <2>4. \A q, r \in Processors : q # r => Range(hand'[q]) \cap Range(hand'[r]) = {}
    BY <2>1, <2>2, <2>3 DEF FlowInv, NothingTwice
  <2> QED BY <2>4, <1>3, <1>6, <1>7, <1>8 DEF NothingTwice, FlowInv
<1>11. HandedOutInOrder'
  BY <1>3, <1>6, <1>8 DEF HandedOutInOrder, FlowInv
<1>12. \A q \in Processors : Increasing(hand'[q])
  BY <1>3, <1>4, <1>5 DEF FlowInv
<1> QED BY <1>3, <1>7, <1>9, <1>10, <1>11, <1>12 DEF FlowInv

(* A processor is done with the next packet of its batch.                  *)
LEMMA FlowHandle ==
  ASSUME TypeOK, FlowInv, NEW p \in Processors, hand[p] # <<>>,
         hand' = [hand EXCEPT ![p] = Tail(@)],
         UNCHANGED <<nread, batch, queue, dropped, lost>>,
         handled' = handled \cup {Head(hand[p])}
  PROVE  FlowInv'
<1> DEFINE x == Head(hand[p])
<1>1. /\ hand \in [Processors -> Seq(Nat)] /\ hand[p] \in Seq(Nat)
      /\ Increasing(hand[p])
  BY DEF TypeOK, FlowInv
<1>2. x \in InHand /\ InHand' = InHand \ {x}
  BY <1>1, HandleFacts, StateFacts DEF FlowInv, NothingTwice
<1>3. /\ x \in Nat /\ Tail(hand[p]) \in Seq(Nat) /\ Increasing(Tail(hand[p]))
      /\ Range(Tail(hand[p])) \subseteq Range(hand[p])
  BY <1>1, PopFacts
<1>4. x \notin handled
  BY <1>2 DEF FlowInv, NothingTwice
<1>5. handled' = handled \cup {x}
  OBVIOUS
<1>7. Packets' = Packets /\ InQueue' = InQueue /\ Range(batch)' = Range(batch)
  BY DEF Packets, InQueue
<1>8. NothingVanishes'
  BY <1>2, <1>5, <1>7 DEF NothingVanishes, FlowInv
<1>9. \A q \in Processors : /\ Range(hand'[q]) \subseteq Range(hand[q])
                            /\ Increasing(hand'[q])
  BY <1>1, <1>3 DEF FlowInv
<1>10. NothingTwice'
  <2>1. \A q, r \in Processors : q # r => Range(hand'[q]) \cap Range(hand'[r]) = {}
    BY <1>9 DEF FlowInv, NothingTwice
  <2>2. x \notin Range(batch) \cup InQueue \cup dropped \cup lost
    BY <1>2 DEF FlowInv, NothingTwice
  <2>3. handled' \cap (Range(batch) \cup InQueue \cup InHand' \cup dropped \cup lost) = {}
    BY <2>2, <1>2, <1>5 DEF FlowInv, NothingTwice
  <2>4. InHand' \cap (Range(batch) \cup InQueue \cup dropped \cup lost) = {}
    BY <1>2 DEF FlowInv, NothingTwice
  <2>5. /\ InQueue \cap (Range(batch) \cup dropped \cup lost) = {}
        /\ Range(batch) \cap (dropped \cup lost) = {} /\ dropped \cap lost = {}
    BY DEF FlowInv, NothingTwice
  <2> QED BY <2>1, <2>3, <2>4, <2>5, <1>7 DEF NothingTwice
<1>11. HandedOutInOrder'
  BY <1>2, <1>5, <1>7 DEF HandedOutInOrder, FlowInv
<1> QED BY <1>8, <1>9, <1>10, <1>11 DEF FlowInv

-----------------------------------------------------------------------------
(* Every step keeps the flow invariant.                                    *)
LEMMA FlowStep == TypeOK /\ FlowInv /\ [Next]_vars => FlowInv'
<1> SUFFICES ASSUME TypeOK, FlowInv, [Next]_vars PROVE FlowInv'
  OBVIOUS
<1>1. CASE CaptureSetup
  BY <1>1, FlowUnchanged DEF CaptureSetup, procVars
<1>2. CASE CaptureCheck
  <2>1. CASE shouldStop
    BY <1>2, <2>1, FlowOldBatch DEF CaptureCheck, CaptureExit, procVars
  <2>2. CASE ~shouldStop
    BY <1>2, <2>2, FlowUnchanged DEF CaptureCheck, procVars
  <2> QED BY <2>1, <2>2
<1>3. CASE CapturePacket
  BY <1>3, FlowNewPacket
<1>4. CASE CaptureTimeout
  <2>1. CASE batch # <<>> /\ due
    <3>1. batch \in Batches
      BY <2>1 DEF TypeOK, Batches
    <3> QED BY <1>4, <2>1, <3>1, FlowOldBatch
              DEF CaptureTimeout, TrySend, CaptureExit, procVars
  <2>2. CASE ~(batch # <<>> /\ due)
    BY <1>4, <2>2, FlowUnchanged DEF CaptureTimeout, procVars
  <2> QED BY <2>1, <2>2
<1>5. CASE CaptureStats
  BY <1>5, FlowUnchanged DEF CaptureStats, procVars
<1>6. CASE CaptureError
  BY <1>6, FlowOldBatch DEF CaptureError, CaptureExit, procVars
<1>7. CASE Deadline \/ KernelDrop
  BY <1>7, FlowUnchanged DEF Deadline, KernelDrop
<1>8. ASSUME NEW p \in Processors, Processor(p) PROVE FlowInv'
  <2>1. CASE AwaitLinktype(p)
    BY <2>1, FlowUnchanged DEF AwaitLinktype, captureVars
  <2>2. CASE ProcessorCheck(p)
    <3>1. UNCHANGED <<nread, batch, hand, handled, dropped>>
      BY <2>2 DEF ProcessorCheck, captureVars
    <3>2. \/ queue' = <<>> /\ lost' = lost \cup InQueue
          \/ UNCHANGED <<queue, lost>>
      BY <2>2 DEF ProcessorCheck, ProcessorExit
    <3> QED BY <3>1, <3>2, FlowUnchanged, FlowDiscardQueue
  <2>3. CASE Receive(p)
    BY <2>3, FlowReceive
  <2>4. CASE ReceiveNothing(p)
    <3>1. UNCHANGED <<nread, batch, hand, handled, dropped>>
      BY <2>4 DEF ReceiveNothing, captureVars
    <3>2. \/ queue' = <<>> /\ lost' = lost \cup InQueue
          \/ UNCHANGED <<queue, lost>>
      BY <2>4 DEF ReceiveNothing, ProcessorExit
    <3> QED BY <3>1, <3>2, FlowUnchanged, FlowDiscardQueue
  <2>5. CASE HandlePacket(p)
    BY <2>5, FlowHandle DEF HandlePacket, captureVars
  <2>6. CASE BatchDone(p)
    BY <2>6, FlowUnchanged DEF BatchDone, captureVars
  <2> QED BY <1>8, <2>1, <2>2, <2>3, <2>4, <2>5, <2>6 DEF Processor
<1>9. CASE MainThread
  <2>1. CASE StartWorkers
    BY <2>1, FlowUnchanged DEF StartWorkers, captureVars
  <2>2. CASE Stop \/ ClearProcessed \/ ClearDropped
    BY <2>2, FlowUnchanged DEF Stop, ClearProcessed, ClearDropped, captureVars, procVars
  <2>3. CASE DropApp
    BY <2>3, FlowUnchanged, FlowDiscardQueue DEF DropApp, captureVars, procVars
  <2> QED BY <1>9, <2>1, <2>2, <2>3 DEF MainThread
<1>10. CASE UNCHANGED vars
  BY <1>10, FlowUnchanged DEF vars
<1> QED BY <1>1, <1>2, <1>3, <1>4, <1>5, <1>6, <1>7, <1>8, <1>9, <1>10
        DEF Next, CaptureThread, Finished

(* Every packet the capture thread reads is accounted for, is in one place *)
(* only, and leaves the channel in the order it was read, however the      *)
(* threads of start_capture_thread, start_packet_processor, stop and       *)
(* clear_all_connections interleave.                                       *)
THEOREM FlowCorrect ==
  Spec => [](TypeOK /\ NothingVanishes /\ NothingTwice /\ HandedOutInOrder)
<1>1. Init => TypeOK /\ FlowInv
  BY TypeInit, FlowInit
<1>2. TypeOK /\ FlowInv /\ [Next]_vars => (TypeOK /\ FlowInv)'
  BY TypeStep, FlowStep
<1>3. TypeOK /\ FlowInv => TypeOK /\ NothingVanishes /\ NothingTwice /\ HandedOutInOrder
  BY DEF FlowInv
<1> QED BY <1>1, <1>2, <1>3, PTL DEF Spec

-----------------------------------------------------------------------------
(* Sending, dropping or discarding a batch of at most BatchMax packets     *)
(* respects the bounds.                                                    *)
LEMMA SendBound ==
  ASSUME TypeOK, QueueBound, NEW b \in Seq(Nat), Len(b) <= BatchMax,
         NEW n, TrySend(b, n)
  PROVE  QueueBound'
<1>1. queue \in Seq(Batches) /\ BatchMax \in Nat \ {0} /\ QueueMax \in Nat
  BY PipelineAssumption DEF TypeOK
<1>2. Len(batch') < BatchMax
  BY <1>1 DEF TrySend, CaptureExit
<1>3. CASE queue' = queue
  BY <1>2, <1>3 DEF QueueBound
<1>4. CASE Len(queue) < QueueMax /\ queue' = Append(queue, b)
  <2>1. /\ Len(queue') = Len(queue) + 1 /\ Len(queue) \in Nat
        /\ DOMAIN queue' = 1..(Len(queue) + 1)
    BY <1>1, <1>4
  <2>2. queue'[Len(queue) + 1] = b /\ \A i \in 1..Len(queue) : queue'[i] = queue[i]
    BY <1>1, <1>4
  <2>3. \A i \in 1..Len(queue) : Len(queue[i]) <= BatchMax
    BY <1>1 DEF QueueBound
  <2>4. \A i \in DOMAIN queue' : Len(queue'[i]) <= BatchMax
    BY <2>1, <2>2, <2>3
  <2>5. Len(queue') <= QueueMax
    BY <2>1, <1>1, <1>4
  <2> QED BY <2>4, <2>5, <1>2 DEF QueueBound
<1> QED BY <1>3, <1>4 DEF TrySend, CaptureExit

(* Every step respects the bounds.                                         *)
LEMMA BoundStep == TypeOK /\ QueueBound /\ [Next]_vars => QueueBound'
<1> SUFFICES ASSUME TypeOK, QueueBound, [Next]_vars PROVE QueueBound'
  OBVIOUS
<1>a. BatchMax \in Nat \ {0} /\ QueueMax \in Nat /\ Len(<<>>) = 0 /\ DOMAIN <<>> = {}
  BY PipelineAssumption
<1>b. /\ batch \in Seq(Nat) /\ Len(batch) \in Nat /\ Len(batch) < BatchMax
      /\ queue \in Seq(Batches)
  BY DEF TypeOK, QueueBound
<1>u. ASSUME UNCHANGED <<batch, queue>> PROVE QueueBound'
  BY <1>u DEF QueueBound
<1>d. ASSUME batch' = <<>> \/ batch' = batch, queue' = <<>> \/ queue' = queue PROVE QueueBound'
  <2>1. Len(batch') < BatchMax
    BY <1>a, <1>b, <1>d
  <2>2. CASE queue' = queue
    BY <2>1, <2>2 DEF QueueBound
  <2>3. CASE queue' = <<>>
    BY <2>1, <2>3, <1>a DEF QueueBound
  <2> QED BY <1>d, <2>2, <2>3
<1>1. CASE CapturePacket
  <2> DEFINE b == Append(batch, nread + 1)
  <2>1. b \in Seq(Nat) /\ Len(b) = Len(batch) + 1
    <3>1. nread + 1 \in Nat
      BY DEF TypeOK
    <3> QED BY <3>1, <1>b
  <2>2. CASE TrySend(b, "check")
    <3>1. Len(b) <= BatchMax
      BY <2>1, <1>a, <1>b
    <3> HIDE DEF b
    <3> QED BY <2>1, <2>2, <3>1, SendBound
  <2>3. CASE ~TrySend(b, "check")
    <3>1. batch' = b /\ queue' = queue /\ ~(Len(b) >= BatchMax)
      BY <1>1, <2>3 DEF CapturePacket
    <3>2. Len(batch') < BatchMax
      BY <3>1, <2>1, <1>a, <1>b
    <3> QED BY <3>1, <3>2 DEF QueueBound
  <2> QED BY <2>2, <2>3
<1>2. CASE CaptureTimeout
  <2>1. CASE TrySend(batch, "stats")
    BY <2>1, <1>a, <1>b, SendBound
  <2>2. CASE ~TrySend(batch, "stats")
    BY <1>2, <2>2, <1>u DEF CaptureTimeout
  <2> QED BY <2>1, <2>2
<1>3. CASE \/ CaptureSetup \/ CaptureCheck \/ CaptureStats \/ CaptureError
           \/ Deadline \/ KernelDrop
  BY <1>3, <1>d DEF CaptureSetup, CaptureCheck, CaptureStats, CaptureError, CaptureExit,
                    Deadline, KernelDrop
<1>4. ASSUME NEW p \in Processors, Processor(p) PROVE QueueBound'
  <2>1. CASE Receive(p)
    <3>1. queue' = Tail(queue) /\ queue # <<>> /\ batch' = batch
      BY <2>1 DEF Receive, captureVars
    <3>2. /\ Len(queue') = Len(queue) - 1 /\ Len(queue) \in Nat
          /\ DOMAIN queue' = 1..(Len(queue) - 1)
          /\ \A i \in 1..(Len(queue) - 1) : queue'[i] = queue[i + 1]
      BY <3>1, <1>b
    <3>3. \A i \in 1..(Len(queue) - 1) : i + 1 \in DOMAIN queue
      BY <1>b
    <3>4. \A i \in DOMAIN queue' : Len(queue'[i]) <= BatchMax
      BY <3>2, <3>3 DEF QueueBound
    <3>5. Len(queue') <= QueueMax
      BY <3>2, <1>a DEF QueueBound
    <3> QED BY <3>1, <3>4, <3>5 DEF QueueBound
  <2>2. CASE ~Receive(p)
    <3>1. batch' = batch /\ (queue' = <<>> \/ queue' = queue)
      BY <1>4, <2>2 DEF Processor, AwaitLinktype, ProcessorCheck, ReceiveNothing,
                        HandlePacket, BatchDone, ProcessorExit, captureVars
    <3> QED BY <3>1, <1>d
  <2> QED BY <2>1, <2>2
<1>5. CASE MainThread
  BY <1>5, <1>d DEF MainThread, StartWorkers, Stop, DropApp, ClearProcessed, ClearDropped,
                    captureVars
<1>6. CASE UNCHANGED vars
  BY <1>6, <1>u DEF vars
<1> QED BY <1>1, <1>2, <1>3, <1>4, <1>5, <1>6 DEF Next, CaptureThread, Finished

(* The channel never holds more than QueueMax batches and no batch more    *)
(* than BatchMax packets: memory is bounded by their product, whatever the *)
(* processors do.                                                          *)
THEOREM QueueBoundCorrect == Spec => []QueueBound
<1>1. Init => QueueBound
  BY PipelineAssumption DEF Init, QueueBound
<1>2. TypeOK /\ QueueBound /\ [Next]_vars => QueueBound'
  BY BoundStep
<1> QED BY <1>1, <1>2, TypeInit, TypeStep, PTL DEF Spec

-----------------------------------------------------------------------------
(* The drop counter.                                                       *)

(* A refused batch adds as much to the counter as it adds to the refused.  *)
LEMMA SendDrops ==
  ASSUME TypeOK, DropsReal, kernel' = kernel,
         NEW b, Len(b) \in Nat, NEW next, TrySend(b, next)
  PROVE  DropsReal'
<1>1. /\ stats.dropped \in Nat /\ refused \in Nat /\ kernel \in Nat
      /\ stats \in Counters /\ refused \in Nat
  BY DEF TypeOK, Counters
<1>2. \/ stats' = stats /\ refused' = refused
      \/ /\ stats' = [stats EXCEPT !.dropped = @ + Len(b)]
         /\ refused' = refused + Len(b)
  BY DEF TrySend
<1>3. CASE stats' = stats /\ refused' = refused
  BY <1>3 DEF DropsReal
<1>4. CASE /\ stats' = [stats EXCEPT !.dropped = @ + Len(b)]
           /\ refused' = refused + Len(b)
  <2>1. stats'.dropped = stats.dropped + Len(b) /\ refused' = refused + Len(b)
    BY <1>1, <1>4 DEF Counters
  <2> QED BY <2>1, <1>1 DEF DropsReal
<1> QED BY <1>2, <1>3, <1>4

LEMMA DropsStep == TypeOK /\ DropsReal /\ [Next]_vars => DropsReal'
<1> SUFFICES ASSUME TypeOK, DropsReal, [Next]_vars PROVE DropsReal'
  OBVIOUS
<1>1. /\ stats.dropped \in Nat /\ refused \in Nat /\ kernel \in Nat
      /\ stats \in Counters /\ refused \in Nat
  BY DEF TypeOK, Counters
<1>b. batch \in Seq(Nat) /\ nread \in Nat
  BY DEF TypeOK
<1>u. ASSUME kernel' = kernel, refused' = refused, stats'.dropped = stats.dropped
      PROVE  DropsReal'
  BY <1>u DEF DropsReal
<1>2. CASE CapturePacket
  <2> DEFINE b == Append(batch, nread + 1)
  <2>1. b \in Seq(Nat) /\ Len(b) \in Nat /\ kernel' = kernel
    BY <1>2, <1>b DEF CapturePacket
  <2>2. CASE TrySend(b, "check")
    <3> HIDE DEF b
    <3> QED BY <2>1, <2>2, SendDrops
  <2>3. CASE ~TrySend(b, "check")
    <3>1. stats' = stats /\ refused' = refused
      BY <1>2, <2>3 DEF CapturePacket
    <3> QED BY <3>1, <2>1, <1>u
  <2> QED BY <2>2, <2>3
<1>3. CASE CaptureTimeout
  <2>1. kernel' = kernel /\ Len(batch) \in Nat
    BY <1>3, <1>b DEF CaptureTimeout
  <2>2. CASE TrySend(batch, "stats")
    BY <2>1, <2>2, SendDrops
  <2>3. CASE ~TrySend(batch, "stats")
    <3>1. stats' = stats /\ refused' = refused
      BY <1>3, <2>3 DEF CaptureTimeout
    <3> QED BY <3>1, <2>1, <1>u
  <2> QED BY <2>2, <2>3
<1>4. CASE CaptureStats
  <2>1. kernel' = kernel /\ refused' = refused
    BY <1>4 DEF CaptureStats
  <2>2. stats'.dropped = kernel \/ stats' = stats
    BY <1>4, <1>1 DEF CaptureStats, Counters
  <2> QED BY <2>1, <2>2, <1>1 DEF DropsReal
<1>5. CASE KernelDrop
  <2>1. kernel' = kernel + 1 /\ stats' = stats /\ refused' = refused
    BY <1>5 DEF KernelDrop
  <2> QED BY <2>1, <1>1 DEF DropsReal
<1>6. CASE CaptureSetup \/ CaptureCheck \/ CaptureError \/ Deadline
  <2>1. kernel' = kernel /\ stats' = stats /\ refused' = refused
    BY <1>6 DEF CaptureSetup, CaptureCheck, CaptureError, CaptureExit, Deadline
  <2> QED BY <2>1, <1>u
<1>7. ASSUME NEW p \in Processors, Processor(p) PROVE DropsReal'
  <2>1. kernel' = kernel
    BY <1>7 DEF Processor, AwaitLinktype, ProcessorCheck, Receive, ReceiveNothing,
                HandlePacket, BatchDone, ProcessorExit, captureVars
  <2>2. stats'.dropped = stats.dropped
    BY <1>7, <1>1 DEF Processor, AwaitLinktype, ProcessorCheck, Receive, ReceiveNothing,
                      HandlePacket, BatchDone, ProcessorExit, Counters
  <2>3. refused' = refused
    BY <1>7, <1>1 DEF Processor, AwaitLinktype, ProcessorCheck, Receive, ReceiveNothing,
                      HandlePacket, BatchDone, ProcessorExit
  <2> QED BY <2>1, <2>2, <2>3, <1>u
<1>8. CASE MainThread
  <2>1. kernel' = kernel
    BY <1>8 DEF MainThread, StartWorkers, Stop, DropApp, ClearProcessed, ClearDropped,
                captureVars
  <2>2. CASE ClearDropped
    <3>1. stats'.dropped = 0 /\ refused' = 0
      BY <2>2, <1>1 DEF ClearDropped, Counters
    <3> QED BY <3>1, <2>1, <1>1 DEF DropsReal
  <2>3. CASE ClearProcessed
    <3>1. stats'.dropped = stats.dropped /\ refused' = refused
      BY <2>3, <1>1 DEF ClearProcessed, Counters
    <3> QED BY <3>1, <2>1, <1>u
  <2>4. CASE StartWorkers \/ Stop \/ DropApp
    <3>1. stats' = stats /\ refused' = refused
      BY <2>4 DEF StartWorkers, Stop, DropApp
    <3> QED BY <3>1, <2>1, <1>u
  <2> QED BY <1>8, <2>2, <2>3, <2>4 DEF MainThread
<1>9. CASE UNCHANGED vars
  BY <1>9, <1>u DEF vars
<1> QED BY <1>2, <1>3, <1>4, <1>5, <1>6, <1>7, <1>8, <1>9 DEF Next, CaptureThread, Finished

(* The count of dropped packets that the user sees never exceeds what the  *)
(* kernel dropped and the full channel refused since the last clear.       *)
THEOREM DropsRealCorrect == Spec => []DropsReal
<1>1. Init => DropsReal
  BY DEF Init, DropsReal
<1>2. TypeOK /\ DropsReal /\ [Next]_vars => DropsReal'
  BY DropsStep
<1> QED BY <1>1, <1>2, TypeInit, TypeStep, PTL DEF Spec

-----------------------------------------------------------------------------
(* The refinement.  The abstract queue sees the packets in the batch and   *)
(* in the channel as the ones that wait.                                   *)
Waiting == Range(batch) \cup InQueue
Gone == dropped \cup lost
FeedStep == [Feed!Next]_(Feed!feedVars)

(* A step that leaves every place alone is a stutter.                      *)
LEMMA FeedUnchanged ==
  ASSUME UNCHANGED <<nread, batch, queue, hand, handled, dropped, lost>>
  PROVE  FeedStep
<1>1. Waiting' = Waiting /\ InHand' = InHand /\ Gone' = Gone
  BY DEF Waiting, Gone, InQueue, InHand
<1> QED BY <1>1 DEF FeedStep, Feed!feedVars, Waiting, Gone

(* Losing the oldest or the youngest of the packets that wait.             *)
LEMMA FeedGiveUp ==
  ASSUME NEW S \in SUBSET Waiting,
         \/ \A x \in S, y \in Waiting \ S : x < y
         \/ \A x \in Waiting \ S, y \in S : x < y,
         Waiting' = Waiting \ S, Gone' = Gone \cup S,
         InHand' = InHand, UNCHANGED <<nread, handled>>
  PROVE  FeedStep
<1>1. CASE S = {}
  BY <1>1 DEF FeedStep, Feed!feedVars, Waiting, Gone
<1>2. CASE S # {}
  BY <1>2 DEF FeedStep, Feed!Next, Feed!GiveUp, Feed!Older, Waiting, Gone
<1> QED BY <1>1, <1>2

(* The channel is discarded: its packets are older than the batch.         *)
LEMMA FeedDiscardQueue ==
  ASSUME FlowInv, queue' = <<>>, lost' = lost \cup InQueue,
         UNCHANGED <<nread, batch, hand, handled, dropped>>
  PROVE  FeedStep
<1>1. InQueue' = {} /\ InHand' = InHand /\ Range(batch)' = Range(batch)
  BY EmptyFacts, StateFacts DEF InHand
<1>2. InQueue \cap Range(batch) = {} /\ \A x \in InQueue, y \in Range(batch) : x < y
  BY DEF FlowInv, NothingTwice, HandedOutInOrder
<1>3. InQueue \in SUBSET Waiting /\ Waiting \ InQueue = Range(batch)
  BY <1>2 DEF Waiting
<1>4. Waiting' = Waiting \ InQueue /\ Gone' = Gone \cup InQueue
  BY <1>1, <1>3 DEF Waiting, Gone
<1> QED BY <1>1, <1>2, <1>3, <1>4, FeedGiveUp

(* The batch as it is goes to the channel, or is refused or discarded.     *)
LEMMA FeedOldBatch ==
  ASSUME TypeOK, FlowInv, nread' = nread, UNCHANGED <<hand, handled>>,
         \/ batch \in Batches /\ batch' = <<>> /\ queue' = Append(queue, batch)
              /\ UNCHANGED <<dropped, lost>>
         \/ batch' = <<>> /\ dropped' = dropped \cup Range(batch) /\ UNCHANGED <<queue, lost>>
         \/ batch' = <<>> /\ lost' = lost \cup Range(batch) /\ UNCHANGED <<queue, dropped>>
  PROVE  FeedStep
<1>1. InHand' = InHand /\ Range(batch)' = {}
  BY EmptyFacts DEF InHand
<1>2. InQueue \cap Range(batch) = {} /\ \A x \in InQueue, y \in Range(batch) : x < y
  BY DEF FlowInv, NothingTwice, HandedOutInOrder
<1>3. CASE batch \in Batches /\ queue' = Append(queue, batch) /\ UNCHANGED <<dropped, lost>>
  <2>1. InQueue' = InQueue \cup Range(batch)
    BY <1>3, SendFacts, StateFacts DEF TypeOK
  <2>2. Waiting' = Waiting /\ Gone' = Gone
    BY <2>1, <1>1, <1>3 DEF Waiting, Gone
  <2> QED BY <2>2, <1>1 DEF FeedStep, Feed!feedVars, Waiting, Gone
<1>4. CASE Gone' = Gone \cup Range(batch) /\ queue' = queue
  <2>1. InQueue' = InQueue
    BY <1>4 DEF InQueue
  <2>2. Range(batch) \in SUBSET Waiting /\ Waiting \ Range(batch) = InQueue
    BY <1>2 DEF Waiting
  <2>3. Waiting' = Waiting \ Range(batch)
    BY <2>1, <2>2, <1>1 DEF Waiting
  <2> QED BY <2>2, <2>3, <1>1, <1>2, <1>4, FeedGiveUp
<1> QED BY <1>3, <1>4 DEF Gone

(* A packet is read: it waits, or what is left of the batch goes with it.  *)
LEMMA FeedNewPacket ==
  ASSUME TypeOK, FlowInv, CapturePacket
  PROVE  FeedStep
<1> DEFINE n == nread + 1
           b == Append(batch, n)
<1>1. batch \in Seq(Nat) /\ n \in Nat /\ nread' = n /\ nread \in Nat
  BY DEF TypeOK, CapturePacket
<1>2. b \in Batches /\ Range(b) = Range(batch) \cup {n}
  BY <1>1, PushFacts
<1>3. \A x \in Waiting : x \in 1..nread
  BY DEF FlowInv, NothingVanishes, Waiting, Packets
<1>4. n \notin Waiting /\ \A x \in Waiting : x < n
  BY <1>1, <1>3
<1>5. InQueue \cap Range(batch) = {} /\ \A x \in InQueue, y \in Range(batch) : x < y
  BY DEF FlowInv, NothingTwice, HandedOutInOrder
<1>6. /\ UNCHANGED <<hand, handled>>
      /\ \/ batch' = b /\ UNCHANGED <<queue, dropped, lost>>
         \/ batch' = <<>> /\ queue' = Append(queue, b) /\ UNCHANGED <<dropped, lost>>
         \/ batch' = <<>> /\ dropped' = dropped \cup Range(b) /\ UNCHANGED <<queue, lost>>
         \/ batch' = <<>> /\ lost' = lost \cup Range(b) /\ UNCHANGED <<queue, dropped>>
  BY DEF CapturePacket, TrySend, CaptureExit, procVars
<1> HIDE DEF b, n
<1>7. InHand' = InHand
  BY <1>6 DEF InHand
<1>8. CASE Gone' = Gone /\ Waiting' = Waiting \cup {n}
  <2>1. Feed!Read
    <3>1. /\ {} \in SUBSET (Waiting \cup {n})
          /\ (Waiting \cup {n}) \ {} = Waiting \cup {n} /\ Gone \cup {} = Gone
      OBVIOUS
    <3> QED BY <3>1, <1>1, <1>6, <1>7, <1>8 DEF Feed!Read, Feed!Older, Waiting, Gone, n
  <2> QED BY <2>1 DEF FeedStep, Feed!Next
<1>9. CASE Gone' = Gone \cup Range(b) /\ Waiting' = InQueue
  <2>1. /\ Range(b) \in SUBSET (Waiting \cup {n})
        /\ (Waiting \cup {n}) \ Range(b) = InQueue
    BY <1>2, <1>4, <1>5 DEF Waiting
  <2>2. \A x \in InQueue, y \in Range(b) : x < y
    BY <1>2, <1>4, <1>5 DEF Waiting
  <2>3. Feed!Read
    BY <2>1, <2>2, <1>1, <1>6, <1>7, <1>9 DEF Feed!Read, Feed!Older, Waiting, Gone, n
  <2> QED BY <2>3 DEF FeedStep, Feed!Next
<1>10. CASE batch' = b /\ UNCHANGED <<queue, dropped, lost>>
  <2>1. InQueue' = InQueue /\ Range(batch)' = Range(b)
    BY <1>10 DEF InQueue
  <2> QED BY <2>1, <1>2, <1>8, <1>10 DEF Waiting, Gone
<1>11. CASE batch' = <<>> /\ queue' = Append(queue, b) /\ UNCHANGED <<dropped, lost>>
  <2>1. InQueue' = InQueue \cup Range(b) /\ Range(batch)' = {}
    BY <1>2, <1>11, SendFacts, StateFacts, EmptyFacts DEF TypeOK
  <2> QED BY <2>1, <1>2, <1>8, <1>11 DEF Waiting, Gone
<1>12. CASE batch' = <<>> /\ Gone' = Gone \cup Range(b) /\ queue' = queue
  <2>1. InQueue' = InQueue /\ Range(batch)' = {}
    BY <1>12, EmptyFacts DEF InQueue
  <2> QED BY <2>1, <1>9, <1>12 DEF Waiting
<1> QED BY <1>6, <1>10, <1>11, <1>12 DEF Gone

(* A processor gets the oldest packets.                                    *)
LEMMA FeedReceive ==
  ASSUME TypeOK, FlowInv, NEW p \in Processors, Receive(p)
  PROVE  FeedStep
<1> DEFINE b == Head(queue)
<1>1. queue \in Seq(Batches) /\ queue # <<>> /\ QueueIncreasing(queue)
  BY DEF TypeOK, Receive, FlowInv
<1>2. \A i \in DOMAIN queue : \A x \in Range(queue[i]) : x \in Nat
  BY <1>1 DEF Batches, Range
<1>3. /\ b \in Batches
      /\ InQueue = Range(b) \cup InQueue'
      /\ \A x \in Range(b), y \in InQueue' : x < y
      /\ Range(b) \cap InQueue' = {}
  BY <1>1, <1>2, ReceiveFacts, StateFacts DEF Receive
<1>4. hand \in [Processors -> Seq(Nat)] /\ hand[p] = <<>> /\ b \in Seq(Nat)
  BY <1>3 DEF TypeOK, Receive, Batches
<1>5. hand' = [hand EXCEPT ![p] = b] /\ UNCHANGED <<nread, batch, handled, dropped, lost>>
  BY DEF Receive, captureVars
<1> HIDE DEF b
<1>6. InHand' = InHand \cup Range(b)
  BY <1>4, <1>5, TakeFacts, StateFacts
<1>7. \A x \in Range(b), y \in Range(batch) : x < y
  BY <1>3 DEF FlowInv, HandedOutInOrder
<1>8. Range(b) \cap Range(batch) = {}
  BY <1>3 DEF FlowInv, NothingTwice
<1>9. /\ Range(b) \in SUBSET Waiting
      /\ Waiting \ Range(b) = Range(batch) \cup InQueue'
  BY <1>3, <1>8 DEF Waiting
<1>10. Waiting' = Waiting \ Range(b) /\ Gone' = Gone
  BY <1>5, <1>9 DEF Waiting, Gone
<1>11. CASE Range(b) = {}
  BY <1>5, <1>6, <1>10, <1>11 DEF FeedStep, Feed!feedVars, Waiting, Gone
<1>12. CASE Range(b) # {}
  <2>1. \A x \in Range(b), y \in Waiting \ Range(b) : x < y
    BY <1>3, <1>7, <1>9
  <2>2. Feed!Give
    BY <2>1, <1>5, <1>6, <1>9, <1>10, <1>12 DEF Feed!Give, Feed!Older, Waiting, Gone
  <2> QED BY <2>2 DEF FeedStep, Feed!Next
<1> QED BY <1>11, <1>12

(* A processor is done with a packet it was given.                         *)
LEMMA FeedHandle ==
  ASSUME TypeOK, FlowInv, NEW p \in Processors, HandlePacket(p)
  PROVE  FeedStep
<1> DEFINE x == Head(hand[p])
<1>1. /\ hand \in [Processors -> Seq(Nat)] /\ Increasing(hand[p]) /\ hand[p] # <<>>
      /\ hand' = [hand EXCEPT ![p] = Tail(@)] /\ handled' = handled \cup {x}
      /\ UNCHANGED <<nread, batch, queue, dropped, lost>>
  BY DEF TypeOK, FlowInv, HandlePacket, captureVars
<1>2. x \in InHand /\ InHand' = InHand \ {x}
  BY <1>1, HandleFacts, StateFacts DEF FlowInv, NothingTwice
<1>3. Waiting' = Waiting /\ Gone' = Gone
  BY <1>1 DEF Waiting, Gone, InQueue
<1> HIDE DEF x
<1>4. Feed!Finish
  BY <1>1, <1>2, <1>3 DEF Feed!Finish, Waiting, Gone
<1> QED BY <1>4 DEF FeedStep, Feed!Next

(* Every step of the pipeline is a step of the abstract queue or a stutter.*)
LEMMA FeedRefined == TypeOK /\ FlowInv /\ [Next]_vars => FeedStep
<1> SUFFICES ASSUME TypeOK, FlowInv, [Next]_vars PROVE FeedStep
  OBVIOUS
<1>1. CASE CaptureSetup
  BY <1>1, FeedUnchanged DEF CaptureSetup, procVars
<1>2. CASE CaptureCheck
  <2>1. CASE shouldStop
    BY <1>2, <2>1, FeedOldBatch DEF CaptureCheck, CaptureExit, procVars
  <2>2. CASE ~shouldStop
    BY <1>2, <2>2, FeedUnchanged DEF CaptureCheck, procVars
  <2> QED BY <2>1, <2>2
<1>3. CASE CapturePacket
  BY <1>3, FeedNewPacket
<1>4. CASE CaptureTimeout
  <2>1. CASE batch # <<>> /\ due
    <3>1. batch \in Batches
      BY <2>1 DEF TypeOK, Batches
    <3> QED BY <1>4, <2>1, <3>1, FeedOldBatch
              DEF CaptureTimeout, TrySend, CaptureExit, procVars
  <2>2. CASE ~(batch # <<>> /\ due)
    BY <1>4, <2>2, FeedUnchanged DEF CaptureTimeout, procVars
  <2> QED BY <2>1, <2>2
<1>5. CASE CaptureStats
  BY <1>5, FeedUnchanged DEF CaptureStats, procVars
<1>6. CASE CaptureError
  BY <1>6, FeedOldBatch DEF CaptureError, CaptureExit, procVars
<1>7. CASE Deadline \/ KernelDrop
  BY <1>7, FeedUnchanged DEF Deadline, KernelDrop
<1>8. ASSUME NEW p \in Processors, Processor(p) PROVE FeedStep
  <2>1. CASE AwaitLinktype(p)
    BY <2>1, FeedUnchanged DEF AwaitLinktype, captureVars
  <2>2. CASE ProcessorCheck(p) \/ ReceiveNothing(p)
    <3>1. UNCHANGED <<nread, batch, hand, handled, dropped>>
      BY <2>2 DEF ProcessorCheck, ReceiveNothing, captureVars
    <3>2. \/ queue' = <<>> /\ lost' = lost \cup InQueue
          \/ UNCHANGED <<queue, lost>>
      BY <2>2 DEF ProcessorCheck, ReceiveNothing, ProcessorExit
    <3> QED BY <3>1, <3>2, FeedUnchanged, FeedDiscardQueue
  <2>3. CASE Receive(p)
    BY <2>3, FeedReceive
  <2>4. CASE HandlePacket(p)
    BY <2>4, FeedHandle
  <2>5. CASE BatchDone(p)
    BY <2>5, FeedUnchanged DEF BatchDone, captureVars
  <2> QED BY <1>8, <2>1, <2>2, <2>3, <2>4, <2>5 DEF Processor
<1>9. CASE MainThread
  <2>1. CASE StartWorkers
    BY <2>1, FeedUnchanged DEF StartWorkers, captureVars
  <2>2. CASE Stop \/ ClearProcessed \/ ClearDropped
    BY <2>2, FeedUnchanged DEF Stop, ClearProcessed, ClearDropped, captureVars, procVars
  <2>3. CASE DropApp
    BY <2>3, FeedUnchanged, FeedDiscardQueue DEF DropApp, captureVars, procVars
  <2> QED BY <1>9, <2>1, <2>2, <2>3 DEF MainThread
<1>10. CASE UNCHANGED vars
  BY <1>10, FeedUnchanged DEF vars
<1> QED BY <1>1, <1>2, <1>3, <1>4, <1>5, <1>6, <1>7, <1>8, <1>9, <1>10
        DEF Next, CaptureThread, Finished

(* The capture thread, the bounded channel and the packet processors of    *)
(* app.rs implement PacketFeed, a queue that may lose packets but neither  *)
(* repeats nor reorders them.                                              *)
THEOREM ImplementsFeedCorrect == Spec => ImplementsFeed
<1>1. Init => TypeOK /\ FlowInv
  BY TypeInit, FlowInit
<1>2. TypeOK /\ FlowInv /\ [Next]_vars => (TypeOK /\ FlowInv)'
  BY TypeStep, FlowStep
<1>3. Init => Feed!Init
  <2>1. ASSUME Init PROVE Range(batch) = {} /\ InQueue = {} /\ InHand = {}
    <3>1. InQueue = {}
      BY <2>1, EmptyFacts DEF Init, InQueue, QueueSet
    <3>2. InHand = {}
      BY <2>1, EmptyFacts DEF Init, InHand
    <3> QED BY <2>1, <3>1, <3>2, EmptyFacts DEF Init
  <2> QED BY <2>1 DEF Init, Feed!Init
<1>4. TypeOK /\ FlowInv /\ [Next]_vars => [Feed!Next]_(Feed!feedVars)
  BY FeedRefined DEF FeedStep
<1> QED BY <1>1, <1>2, <1>3, <1>4, PTL DEF Spec, ImplementsFeed, Feed!Spec

-----------------------------------------------------------------------------
(* Who ends, and what is discarded, before anybody asked to stop.          *)

(* A processor ends only after stop, or once the capture has ended; and    *)
(* only stop leads to the drop of the App.                                 *)
StopInv == /\ main \in {"stopping", "dropped"} => shouldStop
           /\ NotBlind

LEMMA StopInit == Init => StopInv
BY DEF Init, StopInv, NotBlind

(* The capture thread's steps and the environment's touch no other thread. *)
LEMMA CaptureFrame ==
  CaptureThread \/ Deadline \/ KernelDrop
    => UNCHANGED mainVars /\ UNCHANGED procVars /\ (capture = "ended" => capture' = "ended")
<1>1. CaptureSetup \/ CaptureCheck \/ CaptureError \/ CaptureStats
        => UNCHANGED mainVars /\ UNCHANGED procVars /\ capture # "ended"
  BY DEF CaptureSetup, CaptureCheck, CaptureError, CaptureStats
<1>2. CapturePacket \/ CaptureTimeout
        => UNCHANGED mainVars /\ UNCHANGED procVars /\ capture # "ended"
  BY DEF CapturePacket, CaptureTimeout
<1>3. Deadline \/ KernelDrop
        => UNCHANGED mainVars /\ UNCHANGED procVars /\ capture # "ended"
  BY DEF Deadline, KernelDrop, mainVars, procVars
<1> QED BY <1>1, <1>2, <1>3 DEF CaptureThread

LEMMA StopNext == TypeOK /\ StopInv /\ [Next]_vars => StopInv'
<1> SUFFICES ASSUME TypeOK, StopInv, [Next]_vars PROVE StopInv'
  OBVIOUS
<1>1. CASE CaptureThread \/ Deadline \/ KernelDrop
  BY <1>1, CaptureFrame DEF StopInv, NotBlind, mainVars, procVars
<1>2. ASSUME NEW p \in Processors, Processor(p) PROVE StopInv'
  <2>0. UNCHANGED mainVars /\ UNCHANGED captureVars
    BY <1>2 DEF Processor, AwaitLinktype, ProcessorCheck, Receive, ReceiveNothing,
                HandlePacket, BatchDone
  <2>1. CASE ProcessorCheck(p) \/ ReceiveNothing(p)
    <3>1. \/ shouldStop \/ capture = "ended"
          \/ proc' = [proc EXCEPT ![p] = "recv"] \/ proc' = [proc EXCEPT ![p] = "check"]
      BY <2>1 DEF ProcessorCheck, ReceiveNothing
    <3> QED BY <3>1, <2>0 DEF StopInv, NotBlind, mainVars, captureVars, TypeOK
  <2>2. CASE ~(ProcessorCheck(p) \/ ReceiveNothing(p))
    <3>1. proc' = proc \/ \E s \in {"check", "work"} : proc' = [proc EXCEPT ![p] = s]
      BY <1>2, <2>2 DEF Processor, AwaitLinktype, Receive, HandlePacket, BatchDone
    <3> QED BY <3>1, <2>0 DEF StopInv, NotBlind, mainVars, captureVars, TypeOK
  <2> QED BY <2>1, <2>2
<1>3. CASE MainThread
  <2>1. UNCHANGED captureVars /\ (shouldStop => shouldStop')
    BY <1>3 DEF MainThread, StartWorkers, Stop, DropApp, ClearProcessed, ClearDropped
  <2>2. main' \in {"stopping", "dropped"} => shouldStop'
    BY <1>3 DEF MainThread, StartWorkers, Stop, DropApp, ClearProcessed, ClearDropped, StopInv
  <2>3. proc' = proc \/ proc' = [p \in Processors |-> "linktype"]
    BY <1>3 DEF MainThread, StartWorkers, Stop, DropApp, ClearProcessed, ClearDropped, procVars
  <2> QED BY <2>1, <2>2, <2>3 DEF StopInv, NotBlind, captureVars
<1>4. CASE UNCHANGED vars
  BY <1>4 DEF vars, StopInv, NotBlind
<1> QED BY <1>1, <1>2, <1>3, <1>4 DEF Next, Finished

(* While the capture runs and nobody asked to stop no processor has ended: *)
(* the loop of start_packet_processor survives whatever it is given.       *)
THEOREM NotBlindCorrect == Spec => []NotBlind
<1>1. StopInv => NotBlind
  BY DEF StopInv
<1> QED BY <1>1, TypeInit, TypeStep, StopInit, StopNext, PTL DEF Spec

(* What a step can discard: the batch with the packet just read, or the    *)
(* channel, and the latter only when it is empty or after stop.            *)
LEMMA LossCauses ==
  ASSUME TypeOK, FlowInv, StopInv, [Next]_vars
  PROVE  \/ lost' \subseteq lost \cup Range(batch) \cup {nread + 1}
         \/ InQueue = {} /\ lost' \subseteq lost \cup InQueue
         \/ shouldStop
<1>1. CASE CapturePacket
  <2>1. Range(Append(batch, nread + 1)) = Range(batch) \cup {nread + 1}
    BY PushFacts DEF TypeOK
  <2>2. lost' = lost \/ lost' = lost \cup Range(Append(batch, nread + 1))
    BY <1>1 DEF CapturePacket, TrySend, CaptureExit
  <2> QED BY <2>1, <2>2
<1>2. CASE CaptureThread /\ ~CapturePacket
  <2>1. lost' = lost \/ lost' = lost \cup Range(batch)
    BY <1>2 DEF CaptureThread, CaptureSetup, CaptureCheck, CaptureTimeout, CaptureStats,
                CaptureError, TrySend, CaptureExit
  <2> QED BY <2>1
<1>3. ASSUME NEW p \in Processors, Processor(p)
      PROVE  \/ lost' = lost
             \/ InQueue = {} /\ lost' = lost \cup InQueue
             \/ shouldStop
  <2>1. CASE ReceiveNothing(p)
    <3>1. InQueue = {}
      BY <2>1, EmptyFacts, StateFacts DEF ReceiveNothing
    <3> QED BY <2>1, <3>1 DEF ReceiveNothing, ProcessorExit
  <2>2. CASE ProcessorCheck(p)
    BY <2>2 DEF ProcessorCheck
  <2>3. CASE ~(ReceiveNothing(p) \/ ProcessorCheck(p))
    BY <1>3, <2>3 DEF Processor, AwaitLinktype, Receive, HandlePacket, BatchDone
  <2> QED BY <2>1, <2>2, <2>3
<1>4. CASE MainThread
  BY <1>4 DEF MainThread, StartWorkers, Stop, DropApp, ClearProcessed, ClearDropped, StopInv
<1>5. CASE Deadline \/ KernelDrop \/ UNCHANGED vars
  BY <1>5 DEF Deadline, KernelDrop, vars
<1> QED BY <1>1, <1>2, <1>3, <1>4, <1>5 DEF Next, Finished

(* A packet in the channel is discarded only after stop; a capture that    *)
(* fails leaves the channel to the processors.                             *)
THEOREM QueuedSurvivesCorrect == Spec => QueuedSurvives
<1>1. ASSUME TypeOK, FlowInv, StopInv, [Next]_vars
      PROVE  [lost' \cap InQueue # {} => shouldStop]_vars
  <2>1. InQueue \cap (lost \cup Range(batch)) = {}
    BY <1>1 DEF FlowInv, NothingTwice
  <2>2. nread + 1 \notin InQueue
    <3>1. InQueue \subseteq Packets
      BY <1>1 DEF FlowInv, NothingVanishes
    <3>2. nread + 1 \notin Packets
      BY <1>1 DEF TypeOK, Packets
    <3> QED BY <3>1, <3>2
  <2> QED BY <1>1, <2>1, <2>2, LossCauses
<1>2. Init => TypeOK /\ FlowInv /\ StopInv
  BY TypeInit, FlowInit, StopInit
<1>3. TypeOK /\ FlowInv /\ StopInv /\ [Next]_vars => (TypeOK /\ FlowInv /\ StopInv)'
  BY TypeStep, FlowStep, StopNext
<1> QED BY <1>1, <1>2, <1>3, PTL DEF Spec, QueuedSurvives
=============================================================================
