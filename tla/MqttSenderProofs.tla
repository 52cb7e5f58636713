-------------------------- MODULE MqttSenderProofs --------------------------
(***************************************************************************)
(* Proofs about MqttSender, for every list of files and every number of    *)
(* lost connections.                                                       *)
(***************************************************************************)
EXTENDS MqttSender, SequenceTheorems, FiniteSetTheorems,
        WellFoundedInduction, TLAPS

(* Every set of natural numbers that is not empty has a least element.     *)
LEMMA NatMinimum ==
    ASSUME NEW T, T \subseteq Nat, T # {}
    PROVE  \E x \in T : \A y \in T : x <= y
<1> DEFINE Less == {p \in Nat \X Nat : p[1] < p[2]}
<1>1. IsWellFoundedOn(Less, Nat)
    BY NatLessThanWellFounded DEF OpToRel
<1>2. PICK x \in T : \A y \in T : <<y, x>> \notin Less
    BY <1>1, WFMin
<1>3. ASSUME NEW y \in T PROVE ~(y < x)
    BY <1>2
<1> QED
    BY <1>3

PacketType == [job : Jobs, mid : Nat \ {0}, body : Message]

-----------------------------------------------------------------------------
(* Queues of packets, and what the broker has taken.                       *)

(* Before place i of the queue q there is message n of run j.              *)
InFront(q, i, j, n) == \E k \in 1 .. i - 1 : q[k].job = j /\ q[k].mid = n

(* Everything a packet's run published before it has been taken, or is in  *)
(* front of it in the queue.                                               *)
Backed(q, taken) ==
    \A i \in 1 .. Len(q) : \A n \in 1 .. q[i].mid - 1 :
        <<q[i].job, n>> \in taken \/ InFront(q, i, q[i].job, n)

(* The messages 1 .. top of run j have been taken or are in the queue.     *)
Holds(q, taken, j, top) ==
    \A n \in 1 .. top : <<j, n>> \in taken \/ InFront(q, Len(q) + 1, j, n)

(* What has been taken of a run is a beginning of it.                      *)
Closed(taken) ==
    \A j, m \in Nat : <<j, m>> \in taken => \A n \in 1 .. m : <<j, n>> \in taken

(* A queue stays backed when its run's next message joins it, ...          *)
LEMMA BackedAppend ==
    ASSUME NEW q \in Seq(PacketType), NEW p \in PacketType, NEW taken,
           Backed(q, taken), Holds(q, taken, p.job, p.mid - 1)
    PROVE  /\ Append(q, p) \in Seq(PacketType)
           /\ Backed(Append(q, p), taken)
           /\ Holds(Append(q, p), taken, p.job, p.mid)
<1> DEFINE r == Append(q, p)
<1>1. /\ r \in Seq(PacketType) /\ Len(r) = Len(q) + 1
      /\ Len(q) \in Nat
      /\ \A i \in 1 .. Len(q) : r[i] = q[i]
      /\ r[Len(q) + 1] = p
    BY AppendProperties, LenProperties
<1>2. p.mid \in Nat \ {0}
    BY DEF PacketType
<1> HIDE DEF r
<1>3. \A i \in 1 .. Len(q) + 1 : \A j, n : InFront(q, i, j, n) => InFront(r, i, j, n)
    BY <1>1 DEF InFront
<1>4. ASSUME NEW i \in 1 .. Len(r), NEW n \in 1 .. r[i].mid - 1
      PROVE  <<r[i].job, n>> \in taken \/ InFront(r, i, r[i].job, n)
  <2>1. CASE i <= Len(q)
      BY <1>1, <1>3, <1>4, <2>1 DEF Backed
  <2>2. CASE i = Len(q) + 1
      BY <1>1, <1>3, <1>4, <2>2 DEF Holds
  <2> QED
      BY <1>1, <2>1, <2>2
<1>5. ASSUME NEW n \in 1 .. p.mid
      PROVE  <<p.job, n>> \in taken \/ InFront(r, Len(r) + 1, p.job, n)
  <2>1. CASE n = p.mid
      BY <1>1, <2>1 DEF InFront
  <2>2. CASE n \in 1 .. p.mid - 1
      BY <1>1, <2>2 DEF Holds, InFront
  <2> QED
      BY <1>2, <2>1, <2>2
<1>6. Backed(r, taken) /\ Holds(r, taken, p.job, p.mid)
    BY <1>4, <1>5 DEF Backed, Holds
<1> QED
    BY <1>1, <1>6 DEF r

(* ... when one queue is put behind another, ...                           *)
LEMMA BackedConcat ==
    ASSUME NEW q \in Seq(PacketType), NEW s \in Seq(PacketType), NEW taken,
           Backed(q, taken), Backed(s, taken)
    PROVE  /\ q \o s \in Seq(PacketType)
           /\ Backed(q \o s, taken)
           /\ \A j, top \in Nat : Holds(s, taken, j, top) => Holds(q \o s, taken, j, top)
<1> DEFINE r == q \o s
<1>1. /\ r \in Seq(PacketType) /\ Len(r) = Len(q) + Len(s)
      /\ Len(q) \in Nat /\ Len(s) \in Nat
      /\ \A i \in 1 .. Len(q) : r[i] = q[i]
      /\ \A i \in 1 .. Len(s) : r[Len(q) + i] = s[i]
    BY ConcatProperties, LenProperties
<1> HIDE DEF r
<1>2. \A i \in 1 .. Len(q) : \A j, n : InFront(q, i, j, n) => InFront(r, i, j, n)
    BY <1>1 DEF InFront
<1>3. ASSUME NEW i \in 1 .. Len(s) + 1, NEW j, NEW n, InFront(s, i, j, n)
      PROVE  InFront(r, Len(q) + i, j, n)
  <2>1. PICK k \in 1 .. i - 1 : s[k].job = j /\ s[k].mid = n
      BY <1>3 DEF InFront
  <2>2. Len(q) + k \in 1 .. (Len(q) + i) - 1 /\ r[Len(q) + k] = s[k]
      BY <1>1
  <2> QED
      BY <2>1, <2>2 DEF InFront
<1>4. ASSUME NEW i \in 1 .. Len(r), NEW n \in 1 .. r[i].mid - 1
      PROVE  <<r[i].job, n>> \in taken \/ InFront(r, i, r[i].job, n)
  <2>1. CASE i <= Len(q)
      BY <1>1, <1>2, <1>4, <2>1 DEF Backed
  <2>2. CASE i > Len(q)
    <3>1. PICK l \in 1 .. Len(s) : i = Len(q) + l
        BY <1>1, <2>2, i - Len(q) \in 1 .. Len(s), Len(q) + (i - Len(q)) = i
    <3>2. r[i] = s[l]
        BY <1>1, <3>1
    <3>3. <<r[i].job, n>> \in taken \/ InFront(s, l, r[i].job, n)
        BY <1>4, <3>2 DEF Backed
    <3> QED
        BY <1>1, <1>3, <3>1, <3>3
  <2> QED
      BY <1>1, <2>1, <2>2
<1>5. ASSUME NEW j \in Nat, NEW top \in Nat, Holds(s, taken, j, top)
      PROVE  Holds(r, taken, j, top)
    BY <1>1, <1>3, <1>5, Len(s) + 1 \in 1 .. Len(s) + 1 DEF Holds
<1>6. Backed(r, taken)
    BY <1>4 DEF Backed
<1> QED
    BY <1>1, <1>5, <1>6 DEF r

(* ... when its end is cut off, ...                                        *)
LEMMA BackedPrefix ==
    ASSUME NEW q \in Seq(PacketType), NEW n \in 0 .. Len(q), NEW taken,
           Backed(q, taken)
    PROVE  /\ SubSeq(q, 1, n) \in Seq(PacketType)
           /\ Backed(SubSeq(q, 1, n), taken)
<1> DEFINE r == SubSeq(q, 1, n)
<1>1. Len(q) \in Nat /\ \A i \in 1 .. n : q[i] \in PacketType
    BY LenProperties, ElementOfSeq
<1>2. /\ r \in Seq(PacketType) /\ Len(r) = n
      /\ \A i \in 1 .. n : r[i] = q[i]
    BY <1>1, SubSeqProperties
<1> HIDE DEF r
<1>3. ASSUME NEW i \in 1 .. n PROVE \A j, m : InFront(q, i, j, m) => InFront(r, i, j, m)
    BY <1>1, <1>2 DEF InFront
<1>4. Backed(r, taken)
    BY <1>1, <1>2, <1>3 DEF Backed
<1> QED
    BY <1>2, <1>4 DEF r

(* ... when its head is taken, ...                                         *)
LEMMA BackedTail ==
    ASSUME NEW q \in Seq(PacketType), q # <<>>, NEW taken, Backed(q, taken)
    PROVE  LET more == taken \cup {<<Head(q).job, Head(q).mid>>} IN
           /\ Head(q) \in PacketType
           /\ Tail(q) \in Seq(PacketType)
           /\ Backed(Tail(q), more)
           /\ \A j, top \in Nat : Holds(q, taken, j, top) => Holds(Tail(q), more, j, top)
<1> DEFINE r == Tail(q)
           more == taken \cup {<<q[1].job, q[1].mid>>}
<1>1. /\ r \in Seq(PacketType) /\ Len(r) = Len(q) - 1 /\ Len(q) \in Nat \ {0}
      /\ \A i \in 1 .. Len(r) : r[i] = q[i + 1]
      /\ Head(q) = q[1]
    BY HeadTailProperties, EmptySeq, LenProperties
<1>2. q[1] \in PacketType
    BY <1>1, ElementOfSeq
<1> HIDE DEF r
<1>3. ASSUME NEW i \in 1 .. Len(r) + 1, NEW j, NEW n, InFront(q, i + 1, j, n)
      PROVE  <<j, n>> \in more \/ InFront(r, i, j, n)
  <2>1. PICK k \in 1 .. i : q[k].job = j /\ q[k].mid = n
      BY <1>1, <1>3 DEF InFront
  <2>2. CASE k = 1
      BY <2>1, <2>2
  <2>3. CASE k # 1
    <3>1. k - 1 \in 1 .. i - 1 /\ k - 1 \in 1 .. Len(r) /\ (k - 1) + 1 = k
        BY <1>1, <2>3
    <3>2. r[k - 1] = q[k]
        BY <1>1, <3>1
    <3> QED
        BY <2>1, <3>1, <3>2 DEF InFront
  <2> QED
      BY <2>2, <2>3
<1>4. ASSUME NEW i \in 1 .. Len(r), NEW n \in 1 .. r[i].mid - 1
      PROVE  <<r[i].job, n>> \in more \/ InFront(r, i, r[i].job, n)
  <2>1. i + 1 \in 1 .. Len(q) /\ r[i] = q[i + 1]
      BY <1>1
  <2>2. <<r[i].job, n>> \in taken \/ InFront(q, i + 1, r[i].job, n)
      BY <2>1 DEF Backed
  <2> QED
      BY <1>3, <2>2
<1>5. ASSUME NEW j \in Nat, NEW top \in Nat, Holds(q, taken, j, top)
      PROVE  Holds(r, more, j, top)
    BY <1>1, <1>3, <1>5, Len(r) + 1 \in 1 .. Len(r) + 1, Len(r) + 2 = Len(q) + 1
    DEF Holds
<1>6. Backed(r, more)
    BY <1>4 DEF Backed
<1> QED
    BY <1>1, <1>2, <1>5, <1>6 DEF r

(* ... and when more is taken.                                             *)
LEMMA BackedGrow ==
    ASSUME NEW q, NEW taken, NEW more, taken \subseteq more
    PROVE  /\ Backed(q, taken) => Backed(q, more)
           /\ \A j, top : Holds(q, taken, j, top) => Holds(q, more, j, top)
    BY DEF Backed, Holds

(* What an empty queue holds has all been taken.                           *)
LEMMA HoldsWhatIsTaken ==
    ASSUME NEW q, NEW taken, NEW j, NEW top,
           \A n \in 1 .. top : <<j, n>> \in taken
    PROVE  Holds(q, taken, j, top)
    BY DEF Holds

LEMMA EmptyHoldsTaken ==
    ASSUME NEW taken, NEW j, NEW top, Holds(<<>>, taken, j, top)
    PROVE  \A n \in 1 .. top : <<j, n>> \in taken
<1>1. Len(<<>>) = 0
    BY EmptySeq
<1> QED
    BY <1>1 DEF Holds, InFront

(* RemoveAt closes the place k of a queue.                                 *)
LEMMA RemovedPlace ==
    ASSUME NEW q \in Seq(PacketType), NEW k \in 1 .. Len(q)
    PROVE  /\ RemoveAt(q, k) \in Seq(PacketType)
           /\ Len(RemoveAt(q, k)) = Len(q) - 1
           /\ \A i \in 1 .. Len(q) - 1 :
                 RemoveAt(q, k)[i] = IF i < k THEN q[i] ELSE q[i + 1]
<1> DEFINE before == SubSeq(q, 1, k - 1)
           after == SubSeq(q, k + 1, Len(q))
<1>1. Len(q) \in Nat /\ \A i \in 1 .. Len(q) : q[i] \in PacketType
    BY LenProperties, ElementOfSeq
<1>2. /\ before \in Seq(PacketType) /\ Len(before) = k - 1
      /\ \A i \in 1 .. k - 1 : before[i] = q[i]
    BY <1>1, SubSeqProperties
<1>3. /\ after \in Seq(PacketType) /\ Len(after) = Len(q) - k
      /\ \A i \in 1 .. Len(q) - k : after[i] = q[k + i]
  <2>1. \A i \in k + 1 .. Len(q) : q[i] \in PacketType
      BY <1>1
  <2>2. /\ after \in Seq(PacketType)
        /\ Len(after) = IF k + 1 <= Len(q) THEN Len(q) - (k + 1) + 1 ELSE 0
        /\ \A i \in 1 .. Len(q) - (k + 1) + 1 : after[i] = q[(k + 1) + i - 1]
      BY <1>1, <2>1, SubSeqProperties
  <2> QED
      BY <1>1, <2>2
<1>4. RemoveAt(q, k) = before \o after
    BY DEF RemoveAt
<1> HIDE DEF before, after
<1> DEFINE r == before \o after
<1>5. /\ r \in Seq(PacketType) /\ Len(r) = Len(q) - 1
      /\ \A i \in 1 .. Len(q) - 1 :
            r[i] = IF i <= k - 1 THEN before[i] ELSE after[i - (k - 1)]
  <2>1. /\ r \in Seq(PacketType) /\ Len(r) = Len(before) + Len(after)
        /\ \A i \in 1 .. Len(before) + Len(after) :
              r[i] = IF i <= Len(before) THEN before[i] ELSE after[i - Len(before)]
      BY <1>2, <1>3, ConcatProperties
  <2>2. Len(before) + Len(after) = Len(q) - 1
      BY <1>1, <1>2, <1>3
  <2> HIDE DEF r
  <2> QED
      BY <1>2, <2>1, <2>2
<1> HIDE DEF r
<1>6. ASSUME NEW i \in 1 .. Len(q) - 1
      PROVE  r[i] = IF i < k THEN q[i] ELSE q[i + 1]
  <2>1. CASE i < k
      BY <1>1, <1>2, <1>5, <2>1
  <2>2. CASE ~(i < k)
    <3>1. i - (k - 1) \in 1 .. Len(q) - k /\ k + (i - (k - 1)) = i + 1
        BY <1>1, <2>2
    <3>2. r[i] = after[i - (k - 1)]
        BY <1>1, <1>5, <2>2
    <3> QED
        BY <1>3, <2>2, <3>1, <3>2
  <2> QED
      BY <2>1, <2>2
<1> QED
    BY <1>4, <1>5, <1>6 DEF r

(* What RemoveFirstMatch does to paho's messages: the place k of a message *)
(* with that id is closed, or there is none and nothing happens.           *)
LEMMA WithoutPlace ==
    ASSUME NEW q \in Seq(PacketType), NEW mid
    PROVE  \/ /\ Without(q, mid) = q
              /\ \A i \in 1 .. Len(q) : q[i].mid # mid
           \/ \E k \in 1 .. Len(q) :
                 q[k].mid = mid /\ Without(q, mid) = RemoveAt(q, k)
<1>1. CASE \A i \in 1 .. Len(q) : q[i].mid # mid
    BY <1>1 DEF Without, RemoveFirstMatch
<1>2. CASE \E i \in 1 .. Len(q) : q[i].mid = mid
  <2> DEFINE Places == {i \in 1 .. Len(q) : q[i].mid = mid}
             k == SelectInSeq(q, LAMBDA p : p.mid = mid)
  <2>1. Places \subseteq Nat /\ Places # {}
      BY <1>2, LenProperties
  <2>2. \E x \in Places : \A y \in Places : x <= y
      BY <2>1, NatMinimum
  <2>3. k \in Places
      BY <2>1, <2>2 DEF SelectInSeq, Min
  <2>4. Without(q, mid) = RemoveAt(q, k)
      BY <1>2 DEF Without, RemoveFirstMatch
  <2> QED
      BY <2>3, <2>4
<1> QED
    BY <1>1, <1>2

(* The ids of a queue rise.                                                *)
Rising(q) == \A i, k \in 1 .. Len(q) : i < k => q[i].mid < q[k].mid

(* Paho's messages stay backed and complete when an acknowledged one goes. *)
LEMMA WithoutKeeps ==
    ASSUME NEW q \in Seq(PacketType), NEW j, NEW mid, NEW taken,
           \A i \in 1 .. Len(q) : q[i].job = j,
           <<j, mid>> \in taken, Backed(q, taken), Rising(q)
    PROVE  LET r == Without(q, mid) IN
           /\ r \in Seq(PacketType)
           /\ \A i \in 1 .. Len(r) : /\ r[i].job = j /\ r[i].mid # mid
                                     /\ \E k \in 1 .. Len(q) : r[i] = q[k]
           /\ Backed(r, taken)
           /\ Rising(r)
           /\ \A top \in Nat : Holds(q, taken, j, top) => Holds(r, taken, j, top)
<1> DEFINE r == Without(q, mid)
<1>1. CASE r = q /\ \A i \in 1 .. Len(q) : q[i].mid # mid
    BY <1>1
<1>2. ASSUME NEW k \in 1 .. Len(q), q[k].mid = mid, r = RemoveAt(q, k)
      PROVE  /\ r \in Seq(PacketType)
             /\ \A i \in 1 .. Len(r) : /\ r[i].job = j /\ r[i].mid # mid
                                       /\ \E l \in 1 .. Len(q) : r[i] = q[l]
             /\ Backed(r, taken)
             /\ Rising(r)
             /\ \A top \in Nat : Holds(q, taken, j, top) => Holds(r, taken, j, top)
  <2> HIDE DEF r
  <2>0. /\ r \in Seq(PacketType) /\ Len(r) = Len(q) - 1
        /\ \A i \in 1 .. Len(q) - 1 : r[i] = IF i < k THEN q[i] ELSE q[i + 1]
      BY <1>2, RemovedPlace
  <2> DEFINE Old(i) == IF i < k THEN i ELSE i + 1
  <2>1. /\ Len(q) \in Nat
        /\ \A i \in 1 .. Len(q) : q[i] \in PacketType
      BY LenProperties, ElementOfSeq
  <2>2. \A i \in 1 .. Len(r) : /\ Old(i) \in 1 .. Len(q) /\ Old(i) # k
                               /\ r[i] = q[Old(i)]
      BY <1>2, <2>0, <2>1
  <2>3. \A i, l \in 1 .. Len(r) : i < l => Old(i) < Old(l)
      BY <2>0, <2>1, <1>2
  <2>4. \A i \in 1 .. Len(q) : q[i].mid \in Nat
      BY <2>1 DEF PacketType
  <2>5. \A i \in 1 .. Len(q) : i # k => q[i].mid # mid
      BY <1>2, <2>0, <2>1, <2>4 DEF Rising
  <2>6. Rising(r)
      BY <2>2, <2>3, <2>4 DEF Rising
  <2>7. ASSUME NEW i \in 1 .. Len(r) + 1, NEW n, InFront(q, Old(i), j, n)
        PROVE  <<j, n>> \in taken \/ InFront(r, i, j, n)
    <3>1. PICK l \in 1 .. Old(i) - 1 : q[l].job = j /\ q[l].mid = n
        BY <2>7 DEF InFront
    <3>2. CASE l = k
        BY <1>2, <3>1, <3>2
    <3>3. CASE l < k
      <4>1. l \in 1 .. i - 1 /\ l \in 1 .. Len(r) /\ r[l] = q[l]
          BY <1>2, <2>0, <2>1, <3>1, <3>3
      <4> QED
          BY <3>1, <4>1 DEF InFront
    <3>4. CASE l > k
      <4>1. PICK o \in 1 .. i - 1 : o + 1 = l
          BY <1>2, <2>0, <2>1, <3>1, <3>4, l - 1 \in 1 .. i - 1, (l - 1) + 1 = l
      <4>2. o \in 1 .. Len(q) - 1 /\ ~(o < k)
          BY <1>2, <2>0, <2>1, <3>4, <4>1
      <4>3. r[o] = q[l]
          BY <2>0, <4>1, <4>2
      <4> QED
          BY <3>1, <4>1, <4>3 DEF InFront
    <3> QED
        BY <2>1, <3>1, <3>2, <3>3, <3>4
  <2>8. ASSUME NEW i \in 1 .. Len(r), NEW n \in 1 .. r[i].mid - 1
        PROVE  <<r[i].job, n>> \in taken \/ InFront(r, i, r[i].job, n)
    <3>1. r[i].job = j /\ n \in 1 .. q[Old(i)].mid - 1 /\ Old(i) \in 1 .. Len(q)
        BY <2>2
    <3>2. <<j, n>> \in taken \/ InFront(q, Old(i), j, n)
        BY <3>1 DEF Backed
    <3> QED
        BY <1>2, <2>0, <2>1, <2>7, <3>1, <3>2
  <2>9. ASSUME NEW top \in Nat, Holds(q, taken, j, top)
        PROVE  Holds(r, taken, j, top)
    <3>1. Old(Len(r) + 1) = Len(q) + 1 /\ Len(r) + 1 \in 1 .. Len(r) + 1
        BY <1>2, <2>0, <2>1
    <3> QED
        BY <2>7, <2>9, <3>1 DEF Holds
  <2> QED
      BY <2>0, <2>2, <2>5, <2>6, <2>8, <2>9 DEF Backed
<1> QED
    BY <1>1, <1>2, WithoutPlace

(* The runs are numbered from 1, and each has a file and a level.          *)
LEMMA JobsNumbered ==
    /\ Cardinality(Jobs) \in Nat
    /\ Len(Files) \in Nat /\ Jobs = 1 .. 2 * Len(Files)
    /\ Jobs = 1 .. Cardinality(Jobs)
    /\ \A j \in Jobs : JobFile(j) \in File /\ JobQos(j) \in Levels
<1>1. Len(Files) \in Nat
    BY FilesAssumption, LenProperties
<1>2. Cardinality(Levels) = 2
  <2>1. Cardinality(1 .. 2) = IF 1 > 2 THEN 0 ELSE 2 - 1 + 1
      BY FS_Interval, 1 \in Int, 2 \in Int, Zenon
  <2> QED
      BY <2>1 DEF Levels
<1>3. Jobs = 1 .. 2 * Len(Files) /\ 2 * Len(Files) \in Nat
    BY <1>1, <1>2 DEF Jobs
<1>4. Cardinality(1 .. 2 * Len(Files)) = 2 * Len(Files)
    BY <1>3, FS_Interval
<1>5. ASSUME NEW j \in Jobs PROVE JobFile(j) \in File /\ JobQos(j) \in Levels
  <2> DEFINE n == Len(Files)
  <2>1. n \in Nat \ {0} /\ j - 1 \in 0 .. 2 * n - 1
      BY <1>1, <1>3
  <2> HIDE DEF n
  <2>2. (j - 1) % n \in 0 .. n - 1
      BY <2>1
  <2>3. (j - 1) \div n \in {0, 1}
      BY <2>1
  <2>4. ((j - 1) % n) + 1 \in 1 .. n
      BY <2>1, <2>2
  <2>5. Files[((j - 1) % n) + 1] \in File
      BY <2>4, FilesAssumption, ElementOfSeq DEF n
  <2> QED
      BY <2>3, <2>5 DEF JobFile, JobQos, Levels, n
<1> QED
    BY <1>1, <1>3, <1>4, <1>5

(* What is left when a run's packets go is the queue up to the first of    *)
(* them.                                                                   *)
LEMMA EarlierRunsPlace ==
    ASSUME wire \in Seq(PacketType)
    PROVE  \E n \in 0 .. Len(wire) :
               /\ EarlierRuns = SubSeq(wire, 1, n)
               /\ \A i \in 1 .. n : wire[i].job # job
               /\ n < Len(wire) => wire[n + 1].job = job
<1> DEFINE Places == {i \in 1 .. Len(wire) : wire[i].job = job}
           first == SelectInSeq(wire, LAMBDA p : p.job = job)
<1>1. Len(wire) \in Nat
    BY LenProperties
<1>2. CASE Places = {}
  <2>1. first = 0
      BY <1>2 DEF SelectInSeq
  <2>2. EarlierRuns = SubSeq(wire, 1, Len(wire))
      BY <2>1, SubSeqFull DEF EarlierRuns
  <2> QED
      BY <1>1, <1>2, <2>2
<1>3. CASE Places # {}
  <2>1. \E x \in Places : \A y \in Places : x <= y
    <3>1. Places \subseteq Nat
        BY <1>1
    <3> HIDE DEF Places
    <3> QED
        BY <1>3, <3>1, NatMinimum
  <2>2. first = CHOOSE x \in Places : \A y \in Places : x <= y
    <3>1. first = Min(Places)
        BY <1>3 DEF SelectInSeq
    <3> HIDE DEF first, Places
    <3> QED
        BY <3>1 DEF Min
  <2>3. first \in Places /\ \A y \in Places : first <= y
      BY <2>1, <2>2
  <2>4. EarlierRuns = IF first = 0 THEN wire ELSE SubSeq(wire, 1, first - 1)
      BY DEF EarlierRuns
  <2> HIDE DEF first
  <2>5. /\ first - 1 \in 0 .. Len(wire) /\ (first - 1) + 1 = first /\ first # 0
        /\ \A i \in 1 .. first - 1 : i \in 1 .. Len(wire) /\ ~(first <= i)
      BY <1>1, <2>3
  <2>6. \A i \in 1 .. first - 1 : wire[i].job # job
      BY <2>3, <2>5
  <2>7. wire[(first - 1) + 1].job = job
      BY <2>3, <2>5
  <2> QED
      BY <2>4, <2>5, <2>6, <2>7
<1> QED
    BY <1>2, <1>3

-----------------------------------------------------------------------------
(* What the broker has taken, and every message of the runs whose messages *)
(* overtook one another: of those nothing is said about the order.         *)
Granted == accepted \cup (overtaken \X (Nat \ {0}))

(* The client has a connection on which nothing waits for the CONNACK.     *)
Up == connected /\ unsent = 0

(* The inductive invariant: types; where the run is; what paho keeps for   *)
(* the run; and what is on the wire.                                       *)
SenderTyped ==
    /\ job \in 1 .. Cardinality(Jobs) + 1
    /\ pc \in {"manager", "metadata", "assign", "ack", "chunks", "wait", "failed"}
    /\ metadata_mid \in {0, 1}
    /\ metadata_ack_event \in BOOLEAN
    /\ ack_latency \in {0, 1}
    /\ chunk_num \in Nat
    /\ last_mid \in Nat
    /\ out_messages \in Seq(PacketType)
    /\ published \subseteq Mids
    /\ connected \in BOOLEAN
    /\ unsent \in 0 .. Len(out_messages)
    /\ wire \in Seq(PacketType)
    /\ acks \in Seq(Nat \ {0})
    /\ accepted \subseteq (Jobs \X (Nat \ {0}))
    /\ overdue \in BOOLEAN
    /\ sender_rows \in Seq(SenderRow)
    /\ disconnects \in 0 .. MaxDisconnects
    /\ overtaken \subseteq Jobs

Phases ==
    /\ Running => job \in Jobs
    /\ pc = "metadata" => last_mid = 0 /\ chunk_num = 0 /\ metadata_mid = 0
    /\ pc = "assign" => last_mid = 1 /\ chunk_num = 0 /\ metadata_mid = 0
    /\ pc = "ack" => last_mid = 1 /\ chunk_num = 0 /\ metadata_mid = 1
    /\ pc = "chunks" => /\ last_mid = chunk_num + 1 /\ chunk_num <= total_chunks
                        /\ metadata_mid = 1
    /\ pc = "wait" => /\ last_mid = chunk_num + 2 /\ chunk_num < total_chunks
                      /\ metadata_mid = 1
    /\ Running /\ metadata_ack_event => 1 \in published
    /\ pc \in {"chunks", "wait"} /\ ~overdue => 1 .. chunk_num + 1 \subseteq published
    /\ connected => Running
    /\ unsent > 0 => connected
    /\ unsent > 0 \/ (Running /\ ~connected) => disconnects > 0
    /\ ~connected => acks = <<>>
    /\ ~Running => out_messages = <<>>

(* Which runs overtook themselves, and what waits for the CONNACK when the *)
(* current one has not.                                                    *)
Overtaking ==
    /\ \A j \in overtaken : j <= job
    /\ pc = "manager" => job \notin overtaken
    /\ job \in overtaken => overdue /\ disconnects > 0
    /\ unsent > 0 /\ job \notin overtaken => unsent = Len(out_messages)

Owned ==
    /\ \A i \in 1 .. Len(out_messages) : /\ out_messages[i].job = job
                                        /\ out_messages[i].mid \in Mids \ published
    /\ Rising(out_messages)
    /\ Backed(out_messages, Granted)
    /\ Running =>
          /\ Holds(out_messages, Granted, job, last_mid)
          /\ \A m \in published : <<job, m>> \in accepted
          /\ ack_latency = 1 => 1 \in published
    /\ \A i \in 1 .. Len(acks) : acks[i] \in Mids /\ <<job, acks[i]>> \in accepted

Queued ==
    /\ Closed(Granted)
    /\ Backed(wire, Granted)
    /\ Up => Holds(wire, Granted, job, last_mid)
    /\ \A i, k \in 1 .. Len(wire) : i <= k => wire[i].job <= wire[k].job
    /\ \A i \in 1 .. Len(wire) :
          /\ wire[i].job <= job
          /\ pc = "manager" => wire[i].job < job
          /\ Running /\ wire[i].job = job => wire[i].mid <= last_mid

SenderInv == SenderTyped /\ Phases /\ Overtaking /\ Owned /\ Queued

(* An empty queue is everything a queue should be.                         *)
LEMMA EmptyQueue ==
    /\ <<>> \in Seq(PacketType) /\ Len(<<>>) = 0 /\ <<>> \in Seq(Nat \ {0})
    /\ \A taken : Backed(<<>>, taken) /\ Rising(<<>>)
    /\ \A taken, j : Holds(<<>>, taken, j, 0)
    /\ Closed({})
<1>1. <<>> \in Seq(PacketType) /\ Len(<<>>) = 0 /\ <<>> \in Seq(Nat \ {0})
    BY EmptySeq
<1> QED
    BY <1>1 DEF Backed, Rising, Holds, Closed

(* No message is asked for below the first.                                *)
LEMMA HoldsNothing == \A q, taken, j : Holds(q, taken, j, 0)
    BY DEF Holds

(* The elements of the two queues.                                         *)
LEMMA QueuesTyped ==
    ASSUME SenderTyped
    PROVE  /\ Len(wire) \in Nat
           /\ \A i \in 1 .. Len(wire) : /\ wire[i] \in PacketType
                                       /\ wire[i].job \in Jobs
                                       /\ wire[i].job \in Nat
                                       /\ wire[i].mid \in Nat \ {0}
           /\ Len(out_messages) \in Nat
           /\ \A i \in 1 .. Len(out_messages) :
                 /\ out_messages[i] \in PacketType
                 /\ out_messages[i].mid \in Nat \ {0}
           /\ job \in Nat \ {0}
<1>1. /\ wire \in Seq(PacketType) /\ out_messages \in Seq(PacketType)
      /\ job \in 1 .. Cardinality(Jobs) + 1
    BY DEF SenderTyped
<1>2. job \in Nat \ {0}
    BY <1>1, JobsNumbered
<1>3. /\ Len(wire) \in Nat /\ Len(out_messages) \in Nat
      /\ \A i \in 1 .. Len(wire) : wire[i] \in PacketType
      /\ \A i \in 1 .. Len(out_messages) : out_messages[i] \in PacketType
    BY <1>1, LenProperties, ElementOfSeq
<1>4. \A p \in PacketType : p.job \in Jobs /\ p.job \in Nat /\ p.mid \in Nat \ {0}
    BY JobsNumbered DEF PacketType
<1> QED
    BY <1>2, <1>3, <1>4

LEMMA InitSenderInv == SenderInit => SenderInv
<1> SUFFICES ASSUME SenderInit PROVE SenderInv
    OBVIOUS
<1> USE DEF SenderInit
<1>1. SenderTyped
  <2>1. <<>> \in Seq(SenderRow)
      BY EmptySeq
  <2>2. 1 \in 1 .. Cardinality(Jobs) + 1
      BY JobsNumbered
  <2>3. <<>> \in Seq(PacketType) /\ <<>> \in Seq(Nat \ {0})
      BY EmptyQueue
  <2>4. 0 \in 0 .. MaxDisconnects
      BY DisconnectsAssumption
  <2>5. 0 \in 0 .. Len(<<>>)
      BY EmptyQueue
  <2> QED
      BY <2>1, <2>2, <2>3, <2>4, <2>5 DEF SenderTyped
<1>2. Phases
    BY DEF Phases, Running
<1>3. Overtaking
    BY DEF Overtaking
<1>4. Owned
    BY EmptyQueue DEF Owned, Running
<1>5. Queued
  <2>1. Granted = {}
      BY DEF Granted
  <2> QED
      BY <2>1, EmptyQueue DEF Queued, Up
<1> QED
    BY <1>1, <1>2, <1>3, <1>4, <1>5 DEF SenderInv

(* What a run's process sets up is sound whatever is left on the wire.     *)
LEMMA LaunchKeeps == SenderInv /\ Launch => SenderInv'
<1> SUFFICES ASSUME SenderInv, Launch PROVE SenderInv'
    OBVIOUS
<1> USE DEF SenderInv
<1>1. acks = <<>> /\ Running' /\ ~Running
    BY DEF Phases, Launch, Running
<1>2. SenderTyped'
  <2>1. unsent' \in 0 .. Len(out_messages')
      BY EmptyQueue DEF Launch, make_client
  <2> QED
      BY <2>1, EmptyQueue DEF SenderTyped, Launch, make_client, network, past, Mids
<1>3. Phases'
    BY <1>1 DEF Phases, Launch, make_client, network, Running
<1>4. Owned'
    BY <1>1, EmptyQueue, HoldsNothing DEF Owned, Launch, make_client, network
<1>5. Queued'
  <2>1. Granted' = Granted
      BY DEF Launch, network, past, Granted
  <2> QED
      BY <1>1, <2>1, HoldsNothing, QueuesTyped
      DEF Queued, Launch, make_client, network
<1>6. Overtaking'
    BY DEF Overtaking, Launch, make_client, past
<1> QED
    BY <1>2, <1>3, <1>4, <1>5, <1>6

(* The next run's number, when there is no process.                        *)
LEMMA LaunchMissingKeeps == SenderInv /\ LaunchMissing => SenderInv'
<1> SUFFICES ASSUME SenderInv, LaunchMissing PROVE SenderInv'
    OBVIOUS
<1> USE DEF SenderInv, LaunchMissing, globals, client, network, past, Granted, Up
<1>1. out_messages = <<>> /\ acks = <<>> /\ ~Running /\ ~Running' /\ ~connected
    BY DEF Phases, Running
<1>2. SenderTyped'
    BY JobsNumbered DEF SenderTyped, Mids
<1>3. Phases'
    BY <1>1 DEF Phases
<1>4. Owned'
    BY <1>1, EmptyQueue DEF Owned
<1>5. Queued'
    BY <1>1, QueuesTyped DEF Queued
<1>6. Overtaking'
  <2>1. job \in Nat /\ overtaken \subseteq Nat
      BY QueuesTyped, JobsNumbered DEF SenderTyped
  <2> QED
      BY <1>1, <2>1 DEF Overtaking, Phases
<1> QED
    BY <1>2, <1>3, <1>4, <1>5, <1>6

LEMMA LaunchFailsKeeps == SenderInv /\ LaunchFails => SenderInv'
<1> SUFFICES ASSUME SenderInv, LaunchFails PROVE SenderInv'
    OBVIOUS
<1> USE DEF SenderInv, LaunchFails, globals, client, network, past, Granted, Up
<1>1. ~Running /\ ~Running'
    BY DEF Running
<1>2. SenderTyped'
    BY DisconnectsAssumption DEF SenderTyped, Mids
<1>3. Phases'
    BY <1>1 DEF Phases
<1>4. Owned'
    BY <1>1 DEF Owned, Mids
<1>5. Queued'
    BY <1>1 DEF Queued
<1>6. Overtaking'
  <2>1. job \in Nat /\ overtaken \subseteq Nat
      BY QueuesTyped, JobsNumbered DEF SenderTyped
  <2> QED
      BY <1>1, <2>1 DEF Overtaking, Phases
<1> QED
    BY <1>2, <1>3, <1>4, <1>5, <1>6

-----------------------------------------------------------------------------
(* paho's publish, for the run's next message.                             *)
LEMMA PublishFacts ==
    ASSUME SenderInv, Running, NEW body \in Message, Publish(body)
    PROVE  /\ last_mid' = last_mid + 1
           /\ out_messages' \in Seq(PacketType)
           /\ wire' \in Seq(PacketType)
           /\ Rising(out_messages')
           /\ \A i \in 1 .. Len(out_messages') :
                 /\ out_messages'[i].job = job
                 /\ out_messages'[i].mid \in 1 .. last_mid' \ published
           /\ unsent' \in 0 .. Len(out_messages')
           /\ overtaken' \subseteq overtaken \cup {job}
           /\ unsent > 0 => job \in overtaken'
           /\ unsent = 0 => overtaken' = overtaken
           /\ overtaken' \subseteq Jobs
           /\ Closed(Granted')
           /\ Backed(out_messages', Granted')
           /\ Holds(out_messages', Granted', job, last_mid')
           /\ Backed(wire', Granted')
           /\ connected => Holds(wire', Granted', job, last_mid')
           /\ \A i, k \in 1 .. Len(wire') : i <= k => wire'[i].job <= wire'[k].job
           /\ \A i \in 1 .. Len(wire') :
                 /\ wire'[i].job <= job
                 /\ wire'[i].job = job => wire'[i].mid <= last_mid'
<1> DEFINE packet == Packet(job, last_mid + 1, body)
<1>1. /\ last_mid \in Nat /\ published \subseteq Mids
      /\ out_messages \in Seq(PacketType) /\ wire \in Seq(PacketType)
    BY DEF SenderInv, SenderTyped
<1>2. /\ packet \in PacketType /\ packet.job = job /\ packet.mid = last_mid + 1
      /\ packet.mid - 1 = last_mid
    BY <1>1 DEF SenderInv, Phases, Packet, PacketType
<1>3. /\ last_mid' = last_mid + 1 /\ out_messages' = Append(out_messages, packet)
      /\ wire' = IF connected THEN Append(wire, packet) ELSE wire
    BY DEF Publish
<1>4. /\ job \in Nat
      /\ Len(wire) \in Nat /\ Len(out_messages) \in Nat
      /\ \A i \in 1 .. Len(wire) : wire[i].job \in Nat /\ wire[i].mid \in Nat
      /\ \A i \in 1 .. Len(out_messages) : out_messages[i].mid \in Nat
    BY QueuesTyped DEF SenderInv
<1> HIDE DEF packet
<1>12. /\ overtaken' = IF connected /\ unsent > 0 THEN overtaken \cup {job} ELSE overtaken
       /\ unsent' = unsent /\ accepted' = accepted
       /\ unsent > 0 => connected
       /\ job \in Jobs /\ overtaken \subseteq Jobs
       /\ unsent \in 0 .. Len(out_messages)
    BY DEF Publish, SenderInv, Phases, SenderTyped
<1>13. Granted \subseteq Granted'
    BY <1>12 DEF Granted
<1>14. /\ Backed(out_messages, Granted') /\ Holds(out_messages, Granted', job, last_mid)
       /\ Backed(wire, Granted')
       /\ Up => Holds(wire, Granted', job, last_mid)
    BY <1>13, BackedGrow DEF SenderInv, Owned, Queued
<1>15. ASSUME connected, ~Up PROVE Holds(wire, Granted', job, last_mid)
  <2>1. \A n \in 1 .. last_mid : <<job, n>> \in Granted'
      BY <1>1, <1>12, <1>15 DEF Granted, Up
  <2> QED
      BY <2>1, HoldsWhatIsTaken
<1>16. Closed(Granted')
  <2>1. Closed(Granted)
      BY DEF SenderInv, Queued
  <2> SUFFICES ASSUME NEW j \in Nat, NEW m \in Nat, <<j, m>> \in Granted',
                      NEW n \in 1 .. m
               PROVE  <<j, n>> \in Granted'
      BY DEF Closed
  <2>2. CASE <<j, m>> \in Granted
      BY <1>13, <2>1, <2>2 DEF Closed
  <2>3. CASE <<j, m>> \notin Granted
    <3>1. j \in overtaken'
        BY <1>12, <2>3 DEF Granted
    <3> QED
        BY <3>1 DEF Granted
  <2> QED
      BY <2>2, <2>3
<1>17. /\ overtaken' \subseteq overtaken \cup {job} /\ overtaken' \subseteq Jobs
       /\ unsent > 0 => job \in overtaken'
       /\ unsent = 0 => overtaken' = overtaken
    BY <1>12
<1>5. /\ out_messages' \in Seq(PacketType)
      /\ Backed(out_messages', Granted')
      /\ Holds(out_messages', Granted', job, last_mid')
    BY <1>1, <1>2, <1>3, <1>14, BackedAppend
<1>6. /\ Len(out_messages') = Len(out_messages) + 1
      /\ \A i \in 1 .. Len(out_messages) : out_messages'[i] = out_messages[i]
      /\ out_messages'[Len(out_messages) + 1] = packet
    BY <1>1, <1>2, <1>3, AppendProperties
<1>18. unsent' \in 0 .. Len(out_messages')
    BY <1>4, <1>6, <1>12
<1>7. \A i \in 1 .. Len(out_messages) :
          out_messages[i].job = job /\ out_messages[i].mid \in Mids \ published
    BY DEF SenderInv, Owned
<1>8. \A i \in 1 .. Len(out_messages') :
          /\ out_messages'[i].job = job
          /\ out_messages'[i].mid \in 1 .. last_mid' \ published
    BY <1>1, <1>2, <1>3, <1>4, <1>6, <1>7 DEF Mids
<1>9. Rising(out_messages')
  <2>1. \A i, k \in 1 .. Len(out_messages) :
            i < k => out_messages[i].mid < out_messages[k].mid
      BY DEF SenderInv, Owned, Rising
  <2>2. \A i \in 1 .. Len(out_messages) : out_messages[i].mid <= last_mid
      BY <1>4, <1>7 DEF Mids
  <2>3. ASSUME NEW i \in 1 .. Len(out_messages'), NEW k \in 1 .. Len(out_messages'),
               i < k
        PROVE  out_messages'[i].mid < out_messages'[k].mid
    <3>1. i \in 1 .. Len(out_messages) /\ out_messages'[i] = out_messages[i]
        BY <1>4, <1>6, <2>3
    <3>2. CASE k \in 1 .. Len(out_messages)
        BY <1>6, <2>1, <2>3, <3>1, <3>2
    <3>3. CASE k = Len(out_messages) + 1
        BY <1>1, <1>2, <1>4, <1>6, <2>2, <3>1, <3>3
    <3> QED
        BY <1>4, <1>6, <3>2, <3>3
  <2> QED
      BY <2>3 DEF Rising
<1>10. CASE connected
  <2>1. Holds(wire, Granted', job, last_mid) /\ Backed(wire, Granted')
      BY <1>10, <1>14, <1>15
  <2>2. /\ wire' \in Seq(PacketType)
        /\ Backed(wire', Granted') /\ Holds(wire', Granted', job, last_mid')
      BY <1>1, <1>2, <1>3, <1>10, <2>1, BackedAppend
  <2>3. /\ Len(wire') = Len(wire) + 1
        /\ \A i \in 1 .. Len(wire) : wire'[i] = wire[i]
        /\ wire'[Len(wire) + 1] = packet
      BY <1>1, <1>2, <1>3, <1>10, AppendProperties
  <2>4. \A i \in 1 .. Len(wire) :
            /\ wire[i].job <= job
            /\ wire[i].job = job => wire[i].mid <= last_mid
      BY DEF SenderInv, Queued
  <2>5. \A i \in 1 .. Len(wire') :
            /\ wire'[i].job <= job
            /\ wire'[i].job = job => wire'[i].mid <= last_mid'
      BY <1>1, <1>2, <1>3, <1>4, <2>3, <2>4
  <2>7. \A i, k \in 1 .. Len(wire) : i <= k => wire[i].job <= wire[k].job
      BY DEF SenderInv, Queued
  <2>6. \A i, k \in 1 .. Len(wire') : i <= k => wire'[i].job <= wire'[k].job
    <3> SUFFICES ASSUME NEW i \in 1 .. Len(wire'), NEW k \in 1 .. Len(wire'), i <= k
                 PROVE  wire'[i].job <= wire'[k].job
        OBVIOUS
    <3>1. CASE k <= Len(wire)
      <4>1. i \in 1 .. Len(wire) /\ k \in 1 .. Len(wire)
          BY <1>4, <2>3, <3>1
      <4> QED
          BY <2>3, <2>7, <4>1
    <3>2. CASE k = Len(wire) + 1
        BY <1>2, <2>3, <2>5, <3>2
    <3> QED
        BY <1>4, <2>3, <3>1, <3>2
  <2> QED
      BY <1>3, <1>5, <1>8, <1>9, <1>16, <1>17, <1>18, <2>2, <2>5, <2>6
<1>11. CASE ~connected
  <2>1. wire' = wire
      BY <1>3, <1>11
  <2>2. \A i \in 1 .. Len(wire) :
            /\ wire[i].job <= job
            /\ wire[i].job = job => wire[i].mid <= last_mid'
      BY <1>1, <1>3, <1>4 DEF SenderInv, Queued
  <2> QED
      BY <1>1, <1>3, <1>5, <1>8, <1>9, <1>11, <1>14, <1>16, <1>17, <1>18, <2>1, <2>2
      DEF SenderInv, Queued
<1> QED
    BY <1>10, <1>11

LEMMA PublishMetadataKeeps == SenderInv /\ PublishMetadata => SenderInv'
<1> SUFFICES ASSUME SenderInv, PublishMetadata PROVE SenderInv'
    OBVIOUS
<1> USE DEF SenderInv
<1> DEFINE body == Metadata(filename, qos_level)
<1>1. Running /\ Running' /\ pc' = "assign" /\ pc = "metadata" /\ Publish(body)
    BY DEF PublishMetadata, Running
<1>2. body \in Message
  <2>1. filename \in File /\ qos_level \in Qos
      BY <1>1, JobsNumbered, QosAssumption
      DEF Phases, filename, qos_level, Levels
  <2> QED
      BY <2>1 DEF Message
<1> HIDE DEF body
<1>3. UNCHANGED <<job, chunk_num, overdue, sender_rows, metadata_mid,
                  metadata_ack_event, ack_latency, disconnects, published,
                  connected, unsent, acks, accepted>>
    BY <1>1 DEF PublishMetadata, globals, Publish
<1>4. last_mid' = last_mid + 1 /\ last_mid \in Nat /\ last_mid = 0
    BY <1>1, <1>2, PublishFacts DEF SenderTyped, Phases
<1>5. SenderTyped'
    BY <1>1, <1>2, <1>3, <1>4, PublishFacts DEF SenderTyped, Mids
<1>6. Phases'
    BY <1>1, <1>3, <1>4 DEF Phases, Running
<1>7. Owned'
    BY <1>1, <1>2, <1>3, <1>4, PublishFacts DEF Owned, Mids, SenderTyped
<1>8. Queued'
    BY <1>1, <1>2, <1>3, PublishFacts DEF Queued, Up
<1>9. Overtaking'
  <2>1. out_messages = <<>>
      BY <1>4, QueuesTyped DEF Owned, Mids, SenderTyped
  <2>2. unsent = 0
      BY <2>1, EmptySeq DEF SenderTyped
  <2> QED
      BY <1>1, <1>2, <1>3, <2>2, PublishFacts DEF Overtaking
<1> QED
    BY <1>5, <1>6, <1>7, <1>8, <1>9

LEMMA PublishChunkKeeps == SenderInv /\ PublishChunk => SenderInv'
<1> SUFFICES ASSUME SenderInv, PublishChunk PROVE SenderInv'
    OBVIOUS
<1> USE DEF SenderInv
<1> DEFINE body == ChunkMessage(Content[filename][chunk_num + 1])
<1>1. /\ Running /\ Running' /\ pc' = "wait" /\ pc = "chunks" /\ Publish(body)
      /\ chunk_num < total_chunks
    BY DEF PublishChunk, Running
<1>2. body \in Message
  <2>1. filename \in File
      BY <1>1, JobsNumbered DEF Phases, filename
  <2>2. Content[filename] \in Seq(Chunk) /\ Len(Content[filename]) \in Nat
      BY <2>1, ContentAssumption, LenProperties
  <2>5. chunk_num \in Nat
      BY DEF SenderTyped
  <2>3. chunk_num + 1 \in 1 .. Len(Content[filename])
      BY <1>1, <2>2, <2>5 DEF total_chunks
  <2>4. Content[filename][chunk_num + 1] \in Chunk
      BY <2>2, <2>3, ElementOfSeq
  <2> QED
      BY <2>4 DEF Message
<1> HIDE DEF body
<1>3. UNCHANGED <<job, chunk_num, overdue, sender_rows, metadata_mid,
                  metadata_ack_event, ack_latency, disconnects, published,
                  connected, unsent, acks, accepted>>
    BY <1>1 DEF PublishChunk, globals, Publish
<1>4. last_mid' = last_mid + 1 /\ last_mid \in Nat
    BY <1>1, <1>2, PublishFacts DEF SenderTyped
<1>5. SenderTyped'
    BY <1>1, <1>2, <1>3, <1>4, PublishFacts DEF SenderTyped, Mids
<1>6. Phases'
    BY <1>1, <1>3, <1>4
    DEF Phases, Running, SenderTyped, total_chunks, filename
<1>7. Owned'
  <2>1. \A i \in 1 .. Len(acks) : acks[i] \in 1 .. last_mid' /\ <<job, acks[i]>> \in accepted
      BY <1>4 DEF Owned, Mids
  <2>2. /\ \A m \in published : <<job, m>> \in accepted
        /\ ack_latency = 1 => 1 \in published
      BY <1>1 DEF Owned
  <2> QED
      BY <1>1, <1>2, <1>3, <1>4, <2>1, <2>2, PublishFacts DEF Owned, Mids
<1>8. Queued'
    BY <1>1, <1>2, <1>3, PublishFacts DEF Queued, Up
<1>9. Overtaking'
  <2>1. job \in overtaken' /\ job \notin overtaken => overdue /\ disconnects > 0
    <3>1. unsent > 0 \/ overtaken' = overtaken
        BY <1>1, <1>2, PublishFacts DEF SenderTyped
    <3>2. ASSUME ~overdue PROVE unsent = 0
      <4>1. 1 .. last_mid \subseteq published
          BY <1>1, <3>2 DEF Phases
      <4>2. Len(out_messages) = 0
          BY <4>1, QueuesTyped DEF Owned, Mids
      <4> QED
          BY <4>2 DEF SenderTyped
    <3> QED
        BY <3>1, <3>2 DEF Phases
  <2>2. job \in Nat
      BY QueuesTyped
  <2> QED
      BY <1>1, <1>2, <1>3, <2>1, <2>2, PublishFacts DEF Overtaking, SenderTyped
<1> QED
    BY <1>5, <1>6, <1>7, <1>8, <1>9

(* Steps of the main thread that publish nothing and stay in the run.      *)
LEMMA MainOnly ==
    ASSUME SenderInv, Running, Running',
           UNCHANGED <<job, ack_latency, client, network, past>>,
           overdue => overdue'
    PROVE  Overtaking' /\ Owned' /\ Queued'
<1>1. pc \in {"metadata", "assign", "ack", "chunks", "wait"} /\ pc' # "manager"
    BY DEF Running
<1>2. Owned'
    BY DEF SenderInv, Owned, client, network, past, Mids, Granted
<1>3. Queued'
    BY <1>1 DEF SenderInv, Queued, client, network, past, Granted, Up
<1>4. Overtaking'
    BY <1>1 DEF SenderInv, Overtaking, client, past
<1> QED
    BY <1>2, <1>3, <1>4

LEMMA AssignMidKeeps == SenderInv /\ AssignMid => SenderInv'
<1> SUFFICES ASSUME SenderInv, AssignMid PROVE SenderInv'
    OBVIOUS
<1> USE DEF SenderInv, AssignMid, client, network, past
<1>1. Running /\ Running'
    BY DEF Running
<1>2. SenderTyped'
    BY DEF SenderTyped, Phases, Mids
<1>3. Phases'
    BY <1>1 DEF Phases
<1> QED
    BY <1>1, <1>2, <1>3, MainOnly

LEMMA AckWaitKeeps == SenderInv /\ (AckSeen \/ AckTimeout) => SenderInv'
<1> SUFFICES ASSUME SenderInv, AckSeen \/ AckTimeout PROVE SenderInv'
    OBVIOUS
<1> USE DEF SenderInv
<1>1. /\ Running /\ Running' /\ pc = "ack" /\ pc' = "chunks"
      /\ overdue => overdue'
      /\ metadata_ack_event \/ ~overdue' => metadata_ack_event \/ 1 \in published
      /\ overdue' \in BOOLEAN
      /\ UNCHANGED <<job, chunk_num, sender_rows, globals, client, network, past>>
    BY DEF AckSeen, AckTimeout, globals, client, network, past, Running, SenderTyped
<1>2. SenderTyped'
    BY <1>1 DEF SenderTyped, Mids, globals, client, network, past
<1>3. Phases'
  <2>1. 0 <= total_chunks
      BY <1>1, JobsNumbered, ContentAssumption, LenProperties
      DEF Phases, total_chunks, filename
  <2>2. chunk_num = 0 /\ 1 .. 0 + 1 = {1} /\ last_mid = 1 /\ metadata_mid = 1
      BY <1>1 DEF Phases
  <2>3. ~overdue' => 1 \in published
      BY <1>1 DEF Phases
  <2> QED
      BY <1>1, <2>1, <2>2, <2>3
      DEF Phases, total_chunks, filename, globals, client, network, past
<1>4. UNCHANGED <<job, ack_latency, client, network, past>>
    BY <1>1 DEF globals
<1> QED
    BY <1>1, <1>2, <1>3, <1>4, MainOnly

LEMMA PublishWaitKeeps ==
    SenderInv /\ (PublishWaited \/ PublishTimeout) => SenderInv'
<1> SUFFICES ASSUME SenderInv, PublishWaited \/ PublishTimeout PROVE SenderInv'
    OBVIOUS
<1> USE DEF SenderInv, PublishWaited, PublishTimeout, client, network, past, globals
<1>1. Running /\ Running'
    BY DEF Running
<1>2. SenderTyped'
  <2>1. /\ chunk_num' = chunk_num + 1 /\ pc' = "chunks" /\ overdue' \in BOOLEAN
        /\ UNCHANGED <<job, sender_rows, globals, client, network, past>>
      BY DEF SenderTyped
  <2> QED
      BY <2>1 DEF SenderTyped, Mids
<1>3. Phases'
  <2>1. total_chunks \in Nat
      BY <1>1, JobsNumbered, ContentAssumption, LenProperties
      DEF Phases, total_chunks, filename
  <2> QED
      BY <1>1, <2>1 DEF Phases, SenderTyped, total_chunks, filename
<1> QED
    BY <1>1, <1>2, <1>3, MainOnly

LEMMA PublishChunkFailsKeeps == SenderInv /\ PublishChunkFails => SenderInv'
<1> SUFFICES ASSUME SenderInv, PublishChunkFails PROVE SenderInv'
    OBVIOUS
<1> USE DEF SenderInv, PublishChunkFails, network, past, globals
<1>1. ~Running' /\ ~connected /\ acks = <<>>
    BY DEF Running, Phases
<1>2. SenderTyped'
  <2>1. unsent' \in 0 .. Len(out_messages')
      BY <1>1, EmptyQueue DEF SenderTyped, Phases
  <2> QED
      BY <2>1, EmptyQueue DEF SenderTyped, Mids
<1>3. Phases'
    BY <1>1 DEF Phases
<1>4. Owned'
    BY <1>1, EmptyQueue DEF Owned, Granted
<1>5. Queued'
    BY <1>1 DEF Queued, Granted, Up
<1>6. Overtaking'
    BY <1>1 DEF Overtaking, Phases
<1> QED
    BY <1>2, <1>3, <1>4, <1>5, <1>6

-----------------------------------------------------------------------------
(* What is left of the wire when this run's packets go: the rest, in its   *)
(* order.  Nothing of this run is left, and nothing else is lost.          *)
LEMMA EarlierRunsFacts ==
    ASSUME SenderInv
    PROVE  /\ EarlierRuns \in Seq(PacketType)
           /\ Backed(EarlierRuns, Granted)
           /\ Len(EarlierRuns) <= Len(wire)
           /\ \A i \in 1 .. Len(EarlierRuns) : /\ EarlierRuns[i] = wire[i]
                                              /\ wire[i].job # job
           /\ \A i \in 1 .. Len(wire) : wire[i].job # job => i <= Len(EarlierRuns)
<1>1. wire \in Seq(PacketType) /\ Backed(wire, Granted)
    BY DEF SenderInv, SenderTyped, Queued
<1>2. PICK n \in 0 .. Len(wire) :
          /\ EarlierRuns = SubSeq(wire, 1, n)
          /\ \A i \in 1 .. n : wire[i].job # job
          /\ n < Len(wire) => wire[n + 1].job = job
    BY <1>1, EarlierRunsPlace
<1>3. EarlierRuns \in Seq(PacketType) /\ Backed(EarlierRuns, Granted)
    BY <1>1, <1>2, BackedPrefix
<1>4. /\ Len(wire) \in Nat /\ job \in Nat
      /\ \A i \in 1 .. Len(wire) : wire[i] \in PacketType /\ wire[i].job \in Nat
    BY QueuesTyped DEF SenderInv
<1>5. Len(EarlierRuns) = n /\ \A i \in 1 .. n : EarlierRuns[i] = wire[i]
  <2>1. \A i \in 1 .. n : wire[i] \in PacketType
      BY <1>4
  <2> QED
      BY <1>2, <2>1, SubSeqProperties
<1>6. ASSUME NEW i \in 1 .. Len(wire), wire[i].job # job PROVE i <= n
  <2>1. CASE n < Len(wire)
    <3>1. n + 1 \in 1 .. Len(wire) /\ wire[n + 1].job = job
        BY <1>2, <1>4, <2>1
    <3>2. n + 1 <= i => job <= wire[i].job
        BY <3>1 DEF SenderInv, Queued
    <3>3. wire[i].job <= job
        BY DEF SenderInv, Queued
    <3> QED
        BY <1>4, <1>6, <3>2, <3>3
  <2> QED
      BY <1>2, <1>4, <2>1
<1> QED
    BY <1>2, <1>3, <1>4, <1>5, <1>6

LEMMA FinishKeeps == SenderInv /\ Finish => SenderInv'
<1> SUFFICES ASSUME SenderInv, Finish PROVE SenderInv'
    OBVIOUS
<1> USE DEF SenderInv, Finish, globals, past
<1>1. Running /\ ~Running' /\ job \in Jobs
    BY DEF Running, Phases
<1>2. job \in Nat /\ Cardinality(Jobs) \in Nat /\ job' \in 1 .. Cardinality(Jobs) + 1
    BY <1>1, JobsNumbered
<1>3. /\ wire' \in Seq(PacketType)
      /\ Backed(wire', Granted)
      /\ Len(wire') <= Len(wire)
      /\ \A i \in 1 .. Len(wire') : wire'[i] = wire[i]
    BY EarlierRunsFacts, QueuesTyped DEF Queued, SenderTyped
<1>4. sender_rows' \in Seq(SenderRow)
  <2> DEFINE row == [job |-> job, qos |-> qos_level, latency |-> ack_latency]
  <2>1. row \in SenderRow
      BY <1>1, <1>2, JobsNumbered DEF SenderRow, qos_level, SenderTyped
  <2>2. sender_rows \in Seq(SenderRow) /\ sender_rows' = Append(sender_rows, row)
      BY DEF SenderTyped
  <2> HIDE DEF row
  <2> QED
      BY <2>1, <2>2, AppendProperties
<1>5. SenderTyped'
  <2>1. unsent' \in 0 .. Len(out_messages')
      BY EmptyQueue
  <2> QED
      BY <1>2, <1>3, <1>4, <2>1, EmptyQueue DEF SenderTyped, Mids
<1>6. Phases'
    BY <1>1 DEF Phases
<1>7. Owned'
    BY <1>1, EmptyQueue DEF Owned, Granted
<1>8. Queued'
  <2>1. \A i \in 1 .. Len(wire') : i \in 1 .. Len(wire)
      BY <1>3, QueuesTyped, LenProperties
  <2>2. \A i \in 1 .. Len(wire') : wire'[i].job \in Nat /\ wire'[i].job <= job
      BY <1>3, <2>1, QueuesTyped DEF Queued
  <2>3. \A i, k \in 1 .. Len(wire') : i <= k => wire'[i].job <= wire'[k].job
      BY <1>3, <2>1 DEF Queued
  <2> QED
      BY <1>1, <1>2, <1>3, <2>2, <2>3 DEF Queued, Granted, Up
<1>9. Overtaking'
  <2>1. \A k \in overtaken : k \in Nat /\ k <= job
      BY JobsNumbered DEF SenderTyped, Overtaking
  <2> QED
      BY <1>1, <1>2, <2>1 DEF Overtaking
<1> QED
    BY <1>5, <1>6, <1>7, <1>8, <1>9

LEMMA DisconnectKeeps == SenderInv /\ Disconnect => SenderInv'
<1> SUFFICES ASSUME SenderInv, Disconnect PROVE SenderInv'
    OBVIOUS
<1> USE DEF SenderInv, Disconnect, globals, main
<1>1. Running /\ Running'
    BY DEF Running
<1>2. /\ wire' \in Seq(PacketType)
      /\ Backed(wire', Granted)
      /\ Len(wire') <= Len(wire)
      /\ \A i \in 1 .. Len(wire') : wire'[i] = wire[i]
    BY EarlierRunsFacts
<1>3. SenderTyped'
  <2>1. disconnects' \in 0 .. MaxDisconnects
      BY DisconnectsAssumption DEF SenderTyped
  <2>2. acks' \in Seq(Nat \ {0}) /\ connected' \in BOOLEAN
      BY EmptyQueue
  <2>3. unsent' \in 0 .. Len(out_messages')
      BY QueuesTyped
  <2> QED
      BY <1>2, <2>1, <2>2, <2>3 DEF SenderTyped, Mids
<1>4. Phases'
  <2>1. disconnects' > 0
      BY DisconnectsAssumption DEF SenderTyped
  <2> QED
      BY <1>1, <2>1 DEF Phases, total_chunks, filename
<1>5. Owned'
    BY <1>1, EmptyQueue DEF Owned, Mids, Granted
<1>6. Queued'
  <2>1. \A i \in 1 .. Len(wire') : i \in 1 .. Len(wire)
      BY <1>2, QueuesTyped, LenProperties
  <2> QED
      BY <1>1, <1>2, <2>1 DEF Queued, Running, Granted, Up
<1>7. Overtaking'
    BY DisconnectsAssumption DEF Overtaking, SenderTyped
<1> QED
    BY <1>3, <1>4, <1>5, <1>6, <1>7

(* A socket without messages that wait holds what is needed: all has been   *)
(* taken.                                                                  *)
LEMMA OpenSocketKeeps == SenderInv /\ OpenSocket => SenderInv'
<1> SUFFICES ASSUME SenderInv, OpenSocket PROVE SenderInv'
    OBVIOUS
<1> USE DEF SenderInv, OpenSocket, globals, main, network, past
<1>1. Running /\ Running' /\ acks = <<>> /\ disconnects > 0
    BY DEF Running, Phases
<1>2. out_messages \in Seq(PacketType) /\ Len(out_messages) \in Nat
    BY QueuesTyped DEF SenderTyped
<1>3. SenderTyped'
    BY <1>2 DEF SenderTyped, Mids
<1>4. Phases'
    BY <1>1 DEF Phases, total_chunks, filename
<1>5. Owned'
    BY <1>1, EmptyQueue DEF Owned, Mids, Granted
<1>6. Queued'
  <2>1. ASSUME unsent' = 0 PROVE Holds(wire, Granted, job, last_mid)
    <3>1. out_messages = <<>>
        BY <1>2, <2>1, EmptySeq
    <3>2. \A n \in 1 .. last_mid : <<job, n>> \in Granted
        BY <1>1, <3>1, EmptyHoldsTaken DEF Owned
    <3> QED
        BY <3>2, HoldsWhatIsTaken
  <2> QED
      BY <1>1, <2>1 DEF Queued, Running, Granted, Up
<1>7. Overtaking'
    BY DEF Overtaking
<1> QED
    BY <1>3, <1>4, <1>5, <1>6, <1>7

(* The CONNACK puts what waits for it behind the wire.                     *)
LEMMA ConnAckKeeps == SenderInv /\ ConnAck => SenderInv'
<1> SUFFICES ASSUME SenderInv, ConnAck PROVE SenderInv'
    OBVIOUS
<1> USE DEF SenderInv
<1>0. PICK waiting : waiting = SubSeq(out_messages, 1, unsent)
    OBVIOUS
<1>1. /\ Running /\ Running' /\ connected /\ unsent > 0 /\ unsent' = 0
      /\ wire' = wire \o waiting
      /\ UNCHANGED <<job, pc, chunk_num, overdue, sender_rows, metadata_mid,
                     metadata_ack_event, ack_latency, last_mid, out_messages,
                     published, connected, acks, accepted, disconnects, overtaken>>
    BY <1>0 DEF ConnAck, Running, globals, main, past
<1>2. /\ wire \in Seq(PacketType) /\ out_messages \in Seq(PacketType)
      /\ unsent \in 1 .. Len(out_messages)
      /\ job \in Nat /\ last_mid \in Nat
    BY <1>1, QueuesTyped DEF SenderTyped
<1>3. Backed(wire, Granted) /\ Backed(out_messages, Granted)
    BY DEF Owned, Queued
<1>10. waiting \in Seq(PacketType) /\ Backed(waiting, Granted)
    BY <1>0, <1>2, <1>3, BackedPrefix
<1>11. Len(waiting) = unsent /\ \A i \in 1 .. unsent : waiting[i] = out_messages[i]
  <2>1. \A i \in 1 .. unsent : out_messages[i] \in PacketType
      BY <1>2, QueuesTyped
  <2> QED
      BY <1>0, <1>2, <2>1, SubSeqProperties
<1>4. wire' \in Seq(PacketType) /\ Backed(wire', Granted)
    BY <1>1, <1>2, <1>3, <1>10, BackedConcat
<1>12. Holds(wire', Granted, job, last_mid)
  <2>1. CASE job \in overtaken
    <3>1. \A n \in 1 .. last_mid : <<job, n>> \in Granted
        BY <1>2, <2>1 DEF Granted
    <3> QED
        BY <3>1, HoldsWhatIsTaken
  <2>2. CASE job \notin overtaken
    <3>1. waiting = out_messages
      <4>1. unsent = Len(out_messages)
          BY <1>2, <2>2 DEF Overtaking
      <4> QED
          BY <1>0, <1>2, <4>1, SubSeqFull
    <3>2. Holds(waiting, Granted, job, last_mid)
        BY <1>1, <3>1 DEF Owned
    <3> QED
        BY <1>1, <1>2, <1>3, <1>10, <3>2, BackedConcat
  <2> QED
      BY <2>1, <2>2
<1>5. /\ Len(wire') = Len(wire) + Len(waiting)
      /\ \A i \in 1 .. Len(wire') :
            wire'[i] = IF i <= Len(wire) THEN wire[i] ELSE waiting[i - Len(wire)]
    BY <1>1, <1>2, <1>10, ConcatProperties, Zenon
<1>6. SenderTyped'
  <2>1. unsent' \in 0 .. Len(out_messages')
      BY <1>1, QueuesTyped
  <2> QED
      BY <1>1, <1>4, <2>1 DEF SenderTyped, Mids
<1>7. Phases'
    BY <1>1 DEF Phases, total_chunks, filename
<1>8. Owned'
    BY <1>1 DEF Owned, Mids, Granted
<1>9. Queued'
  <2>1. Len(wire) \in Nat /\ Len(waiting) \in Nat
      BY <1>2, <1>11, QueuesTyped
  <2>2. ASSUME NEW i \in 1 .. Len(wire'), i > Len(wire)
        PROVE  wire'[i].job = job /\ wire'[i].mid \in Mids
    <3>1. i - Len(wire) \in 1 .. Len(waiting)
        BY <1>5, <2>1, <2>2
    <3>2. wire'[i] = waiting[i - Len(wire)]
        BY <1>5, <2>1, <2>2
    <3>3. /\ i - Len(wire) \in 1 .. Len(out_messages)
          /\ wire'[i] = out_messages[i - Len(wire)]
        BY <1>2, <1>11, <3>1, <3>2, QueuesTyped
    <3> QED
        BY <3>3 DEF Owned
  <2>3. ASSUME NEW i \in 1 .. Len(wire'), i <= Len(wire)
        PROVE  /\ i \in 1 .. Len(wire) /\ wire'[i] = wire[i]
               /\ wire[i].job \in Nat /\ wire[i].job <= job
               /\ wire[i].job = job => wire[i].mid <= last_mid
    <3>1. i \in 1 .. Len(wire) /\ wire'[i] = wire[i]
        BY <1>5, <2>1, <2>3
    <3> QED
        BY <1>1, <3>1, QueuesTyped DEF Queued
  <2>4. \A i \in 1 .. Len(wire') :
            /\ wire'[i].job \in Nat /\ wire'[i].job <= job
            /\ wire'[i].job = job => wire'[i].mid <= last_mid
    <3> SUFFICES ASSUME NEW i \in 1 .. Len(wire')
                 PROVE  /\ wire'[i].job \in Nat /\ wire'[i].job <= job
                        /\ wire'[i].job = job => wire'[i].mid <= last_mid
        OBVIOUS
    <3>1. CASE i <= Len(wire)
        BY <2>3, <3>1
    <3>2. CASE i > Len(wire)
        BY <1>2, <2>2, <3>2 DEF Mids
    <3> QED
        BY <1>5, <2>1, <3>1, <3>2
  <2>5. ASSUME NEW i \in 1 .. Len(wire'), NEW k \in 1 .. Len(wire'), i <= k
        PROVE  wire'[i].job <= wire'[k].job
    <3>1. CASE k <= Len(wire)
      <4>1. i <= Len(wire)
          BY <1>5, <2>1, <2>5, <3>1
      <4> QED
          BY <2>3, <2>5, <3>1, <4>1 DEF Queued
    <3>2. CASE k > Len(wire)
        BY <2>2, <2>4, <3>2
    <3> QED
        BY <1>5, <2>1, <3>1, <3>2
  <2> QED
      BY <1>1, <1>4, <1>12, <2>4, <2>5 DEF Queued, Running, Granted, Up
<1>13. Overtaking'
    BY <1>1 DEF Overtaking
<1> QED
    BY <1>6, <1>7, <1>8, <1>9, <1>13

(* The broker takes the head of the wire.                                  *)
LEMMA BrokerAcceptKeeps == SenderInv /\ BrokerAccept => SenderInv'
<1> SUFFICES ASSUME SenderInv, BrokerAccept PROVE SenderInv'
    OBVIOUS
<1> USE DEF SenderInv
<1> DEFINE packet == Head(wire)
<1>1. /\ wire # <<>> /\ wire' = Tail(wire)
      /\ accepted' = accepted \cup {<<packet.job, packet.mid>>}
      /\ acks' = IF connected /\ packet.job = job THEN Append(acks, packet.mid)
                 ELSE acks
      /\ UNCHANGED <<job, pc, chunk_num, overdue, sender_rows, metadata_mid,
                     metadata_ack_event, ack_latency, last_mid, out_messages,
                     published, connected, unsent, disconnects, overtaken>>
    BY DEF BrokerAccept, main, globals, client, past
<1>12. /\ Granted' = Granted \cup {<<packet.job, packet.mid>>}
       /\ Granted \subseteq Granted' /\ accepted \subseteq accepted'
       /\ Up' = Up
    BY <1>1 DEF Granted, Up
<1>2. /\ wire \in Seq(PacketType) /\ out_messages \in Seq(PacketType)
      /\ acks \in Seq(Nat \ {0}) /\ job \in Nat /\ last_mid \in Nat
      /\ Backed(wire, Granted) /\ Backed(out_messages, Granted)
    BY QueuesTyped DEF SenderTyped, Queued, Owned
<1>3. /\ packet \in PacketType /\ Tail(wire) \in Seq(PacketType)
      /\ Backed(wire', Granted')
      /\ Up => Holds(wire', Granted', job, last_mid)
    BY <1>1, <1>2, <1>12, BackedTail DEF Queued
<1>4. /\ Len(wire) \in Nat \ {0} /\ packet = wire[1] /\ Len(wire') = Len(wire) - 1
      /\ \A i \in 1 .. Len(wire') : wire'[i] = wire[i + 1] /\ i + 1 \in 1 .. Len(wire)
    BY <1>1, <1>2, HeadTailProperties, EmptySeq, LenProperties
<1>5. packet.job \in Jobs /\ packet.job \in Nat /\ packet.mid \in Nat \ {0}
    BY <1>3, JobsNumbered DEF PacketType
<1>6. Closed(Granted')
  <2>1. \A n \in 1 .. packet.mid - 1 : <<packet.job, n>> \in Granted
    <3>1. \A j, n : ~InFront(wire, 1, j, n)
        BY DEF InFront
    <3>2. 1 \in 1 .. Len(wire)
        BY <1>4
    <3> QED
        BY <1>2, <1>4, <3>1, <3>2 DEF Backed
  <2> SUFFICES ASSUME NEW j \in Nat, NEW m \in Nat, <<j, m>> \in Granted',
                      NEW n \in 1 .. m
               PROVE  <<j, n>> \in Granted'
      BY DEF Closed
  <2>2. CASE <<j, m>> \in Granted
      BY <1>12, <2>2 DEF Queued, Closed
  <2>3. CASE j = packet.job /\ m = packet.mid
      BY <1>12, <1>5, <2>1, <2>3
  <2> QED
      BY <1>12, <2>2, <2>3
<1>7. /\ acks' \in Seq(Nat \ {0})
      /\ \A i \in 1 .. Len(acks') : acks'[i] \in Mids /\ <<job, acks'[i]>> \in accepted'
  <2>1. \A i \in 1 .. Len(acks) : acks[i] \in Mids /\ <<job, acks[i]>> \in accepted'
      BY <1>1 DEF Owned
  <2>2. CASE connected /\ packet.job = job
    <3>1. packet.mid \in Mids
      <4>1. Running /\ 1 \in 1 .. Len(wire)
          BY <1>4, <2>2 DEF Phases
      <4>2. packet.mid <= last_mid
          BY <1>4, <2>2, <4>1 DEF Queued
      <4> QED
          BY <1>2, <1>5, <4>2 DEF Mids
    <3>2. /\ acks' \in Seq(Nat \ {0}) /\ Len(acks') = Len(acks) + 1 /\ Len(acks) \in Nat
          /\ \A i \in 1 .. Len(acks) : acks'[i] = acks[i]
          /\ acks'[Len(acks) + 1] = packet.mid
        BY <1>1, <1>2, <1>5, <2>2, AppendProperties, LenProperties
    <3> QED
        BY <1>1, <2>1, <2>2, <3>1, <3>2
  <2>3. CASE ~(connected /\ packet.job = job)
      BY <1>1, <1>2, <2>1, <2>3
  <2> QED
      BY <2>2, <2>3
<1>8. SenderTyped'
    BY <1>1, <1>3, <1>5, <1>7 DEF SenderTyped, Mids
<1>9. Phases'
    BY <1>1 DEF Phases, Running, total_chunks, filename
<1>10. Owned'
  <2>1. /\ Backed(out_messages, Granted')
        /\ Running => Holds(out_messages, Granted', job, last_mid)
      BY <1>12, BackedGrow DEF Owned
  <2>3. /\ Running' = Running /\ Mids' = Mids
        /\ \A i \in 1 .. Len(out_messages) :
              out_messages[i].job = job /\ out_messages[i].mid \in Mids \ published
        /\ Rising(out_messages)
        /\ Running => /\ \A m \in published : <<job, m>> \in accepted'
                       /\ ack_latency = 1 => 1 \in published
      BY <1>1 DEF Owned, Running, Mids
  <2> QED
      BY <1>1, <1>7, <2>1, <2>3 DEF Owned
<1>11. Queued'
  <2>1. \A i \in 1 .. Len(wire') :
            /\ wire'[i].job <= job
            /\ pc = "manager" => wire'[i].job < job
            /\ Running /\ wire'[i].job = job => wire'[i].mid <= last_mid
      BY <1>4 DEF Queued
  <2>2. \A i, k \in 1 .. Len(wire') : i <= k => i + 1 <= k + 1
      OBVIOUS
  <2>3. \A i, k \in 1 .. Len(wire') : i <= k => wire'[i].job <= wire'[k].job
      BY <1>4, <2>2 DEF Queued
  <2> QED
      BY <1>1, <1>3, <1>6, <1>12, <2>1, <2>3 DEF Queued, Running
<1>13. Overtaking'
    BY <1>1 DEF Overtaking
<1> QED
    BY <1>8, <1>9, <1>10, <1>11, <1>13

(* The callback and paho's bookkeeping, for the next acknowledgement.      *)
LEMMA OnPublishKeeps == SenderInv /\ OnPublish => SenderInv'
<1> SUFFICES ASSUME SenderInv, OnPublish PROVE SenderInv'
    OBVIOUS
<1> USE DEF SenderInv
<1> DEFINE mid == Head(acks)
<1>1. /\ Running /\ connected /\ acks # <<>> /\ acks' = Tail(acks)
      /\ ack_latency' = IF mid = metadata_mid THEN mid ELSE ack_latency
      /\ metadata_ack_event' = (metadata_ack_event \/ mid = metadata_mid)
      /\ out_messages' = Without(out_messages, mid)
      /\ published' = published \cup {mid}
      /\ UNCHANGED <<job, pc, chunk_num, overdue, sender_rows, metadata_mid,
                     last_mid, connected, unsent, wire, accepted, disconnects,
                     overtaken>>
      /\ unsent = 0 /\ Granted' = Granted /\ Up' = Up
    BY DEF OnPublish, on_publish, Acknowledge, main, past, Granted, Up
<1>2. Running'
    BY <1>1 DEF Running
<1>3. acks \in Seq(Nat \ {0}) /\ out_messages \in Seq(PacketType) /\ last_mid \in Nat
    BY DEF SenderTyped
<1>4. /\ Len(acks) \in Nat \ {0} /\ mid = acks[1]
      /\ acks' \in Seq(Nat \ {0}) /\ Len(acks') = Len(acks) - 1
      /\ \A i \in 1 .. Len(acks') : acks'[i] = acks[i + 1] /\ i + 1 \in 1 .. Len(acks)
    BY <1>1, <1>3, HeadTailProperties, EmptySeq, LenProperties
<1>5. mid \in Mids /\ mid \in Nat \ {0} /\ <<job, mid>> \in accepted
    BY <1>3, <1>4 DEF Owned, Mids
<1> HIDE DEF mid
<1>6. /\ out_messages' \in Seq(PacketType)
      /\ \A i \in 1 .. Len(out_messages') :
            /\ out_messages'[i].job = job /\ out_messages'[i].mid # mid
            /\ \E k \in 1 .. Len(out_messages) : out_messages'[i] = out_messages[k]
      /\ Backed(out_messages', Granted)
      /\ Rising(out_messages')
      /\ Holds(out_messages', Granted, job, last_mid)
  <2>1. /\ \A i \in 1 .. Len(out_messages) : out_messages[i].job = job
        /\ Backed(out_messages, Granted) /\ Rising(out_messages)
        /\ Holds(out_messages, Granted, job, last_mid)
      BY <1>1 DEF Owned
  <2>4. <<job, mid>> \in Granted
      BY <1>5 DEF Granted
  <2> DEFINE r == Without(out_messages, mid)
  <2>2. /\ r \in Seq(PacketType)
        /\ \A i \in 1 .. Len(r) : /\ r[i].job = job /\ r[i].mid # mid
                                  /\ \E k \in 1 .. Len(out_messages) : r[i] = out_messages[k]
        /\ Backed(r, Granted) /\ Rising(r)
        /\ \A top \in Nat : Holds(out_messages, Granted, job, top)
              => Holds(r, Granted, job, top)
      BY <1>3, <2>1, <2>4, WithoutKeeps, SMTT(60)
  <2> HIDE DEF r
  <2>3. out_messages' = r
      BY <1>1 DEF r
  <2> QED
      BY <1>3, <2>1, <2>2, <2>3
<1>7. SenderTyped'
  <2>1. ack_latency' \in {0, 1} /\ metadata_ack_event' \in BOOLEAN
      BY <1>1, <1>5 DEF SenderTyped
  <2>2. published' \subseteq Mids
      BY <1>1, <1>5 DEF SenderTyped
  <2>3. unsent' \in 0 .. Len(out_messages')
      BY <1>1, <1>6, LenProperties
  <2> QED
      BY <1>1, <1>4, <1>6, <2>1, <2>2, <2>3 DEF SenderTyped, Mids
<1>8. Phases'
  <2>1. mid = metadata_mid => mid = 1
      BY <1>5 DEF SenderTyped
  <2>2. metadata_ack_event' => 1 \in published'
      BY <1>1, <2>1 DEF Phases
  <2>3. published \subseteq published'
      BY <1>1
  <2> QED
      BY <1>1, <1>2, <2>2, <2>3 DEF Phases, total_chunks, filename
<1>9. Owned'
  <2>1. \A i \in 1 .. Len(out_messages') :
            /\ out_messages'[i].job = job
            /\ out_messages'[i].mid \in Mids \ published'
      BY <1>1, <1>6 DEF Owned
  <2>2. \A i \in 1 .. Len(acks') : acks'[i] \in Mids /\ <<job, acks'[i]>> \in accepted
      BY <1>4 DEF Owned
  <2>3. \A m \in published' : <<job, m>> \in accepted
      BY <1>1, <1>5 DEF Owned
  <2>4. ack_latency' = 1 => 1 \in published'
      BY <1>1 DEF Owned
  <2> QED
      BY <1>1, <1>2, <1>6, <2>1, <2>2, <2>3, <2>4 DEF Owned, Mids
<1>10. Queued'
    BY <1>1 DEF Queued, Running
<1>11. Overtaking'
    BY <1>1 DEF Overtaking
<1> QED
    BY <1>7, <1>8, <1>9, <1>10, <1>11

-----------------------------------------------------------------------------
LEMMA NextSenderInv == SenderInv /\ [SenderNext]_svars => SenderInv'
<1> SUFFICES ASSUME SenderInv, [SenderNext]_svars PROVE SenderInv'
    OBVIOUS
<1>1. CASE UNCHANGED svars
    BY <1>1 DEF svars, main, globals, client, network, past, SenderInv, SenderTyped,
       Phases, Overtaking, Owned, Queued, Running, Mids, total_chunks, filename, Granted, Up
<1>2. CASE MainStep
    BY <1>2, LaunchKeeps, LaunchMissingKeeps, LaunchFailsKeeps,
       PublishMetadataKeeps, AssignMidKeeps, AckWaitKeeps, PublishChunkKeeps,
       PublishChunkFailsKeeps, PublishWaitKeeps, FinishKeeps
    DEF MainStep
<1>3. CASE NetworkStep
    BY <1>3, BrokerAcceptKeeps, OnPublishKeeps, DisconnectKeeps, OpenSocketKeeps,
       ConnAckKeeps
    DEF NetworkStep
<1> QED
    BY <1>1, <1>2, <1>3 DEF SenderNext

(* The invariant, for every list of files.                                 *)
THEOREM SenderInductive == SenderSpec => []SenderInv
<1> QED
    BY InitSenderInv, NextSenderInv, PTL DEF SenderSpec

(* The types and bounds of the sender's state.                             *)
THEOREM SenderTypeCorrect == SenderSpec => []SenderTypeOK
<1>1. SenderInv => SenderTypeOK
  <2> SUFFICES ASSUME SenderInv PROVE SenderTypeOK
      OBVIOUS
  <2> USE DEF SenderInv
  <2>1. DOMAIN out_messages = 1 .. Len(out_messages) /\ DOMAIN wire = 1 .. Len(wire)
        /\ DOMAIN acks = 1 .. Len(acks)
      BY LenProperties DEF SenderTyped
  <2>2. \A i \in DOMAIN wire : wire[i].job \in Jobs /\ wire[i].body \in Message
      BY <2>1, QueuesTyped DEF PacketType
  <2>3. Running => last_mid <= total_chunks + 1 /\ chunk_num <= total_chunks
    <3> SUFFICES ASSUME Running
                 PROVE  last_mid <= total_chunks + 1 /\ chunk_num <= total_chunks
        OBVIOUS
    <3>1. total_chunks \in Nat
        BY JobsNumbered, ContentAssumption, LenProperties
        DEF Phases, total_chunks, filename
    <3> HIDE DEF total_chunks
    <3> QED
        BY <3>1 DEF Phases, Running, SenderTyped
  <2>4. \A i \in DOMAIN out_messages : out_messages[i].mid \in Mids \ published
      BY <2>1 DEF Owned
  <2>5. \A i \in DOMAIN acks : acks[i] \in Mids
      BY <2>1 DEF Owned
  <2>6. accepted \subseteq (Jobs \X Nat)
      BY DEF SenderTyped
  <2> QED
      BY <2>2, <2>3, <2>4, <2>5, <2>6 DEF SenderTypeOK, SenderTyped
<1> QED
    BY <1>1, SenderInductive, PTL

(* What the broker has of a run is a beginning of it (client_a.py, paho's  *)
(* resending), for every file, and however often the connection is lost,   *)
(* unless a message went out ahead of those that waited for the CONNACK;   *)
(* that takes a wait given up (client_a.py:152, 182) and a lost connection. *)
THEOREM NothingIsSkipped == SenderSpec => []NoGaps
<1>1. SenderInv => NoGaps
  <2> SUFFICES ASSUME SenderInv PROVE NoGaps
      OBVIOUS
  <2>1. ASSUME NEW p \in accepted, p[2] > 1, p[1] \notin overtaken
        PROVE  <<p[1], p[2] - 1>> \in accepted
    <3>1. p \in (Jobs \X (Nat \ {0}))
        BY DEF SenderInv, SenderTyped
    <3>2. PICK j \in Jobs, m \in Nat \ {0} : p = <<j, m>>
        BY <3>1
    <3>3. j \in Nat /\ m - 1 \in 1 .. m /\ <<j, m>> \in Granted /\ j \notin overtaken
        BY <2>1, <3>2, JobsNumbered DEF Granted
    <3>4. <<j, m - 1>> \in Granted
        BY <3>3 DEF SenderInv, Queued, Closed
    <3> QED
        BY <3>2, <3>3, <3>4 DEF Granted
  <2> QED
      BY <2>1 DEF NoGaps, SenderInv, Overtaking
<1> QED
    BY <1>1, SenderInductive, PTL

(* Only Finish writes a row.                                               *)
LEMMA RowsOnlyAtFinish ==
    ASSUME [SenderNext]_svars, sender_rows' # sender_rows
    PROVE  Finish
    BY DEF SenderNext, MainStep, NetworkStep, Launch, LaunchMissing, LaunchFails,
       PublishMetadata, AssignMid, AckSeen, AckTimeout, PublishChunk,
       PublishChunkFails, PublishWaited, PublishTimeout, BrokerAccept, OnPublish,
       Disconnect, OpenSocket, ConnAck, svars, main

(* A row's latency was measured by the metadata's own acknowledgement      *)
(* (on_publish in client_a.py).                                            *)
THEOREM LatencyIsMetadatas == SenderSpec => LatencyFromMetadata
<1> DEFINE A == sender_rows' # sender_rows /\ Last(sender_rows').latency # 0 =>
                    Last(sender_rows').latency = 1 /\ 1 \in published
<1>1. SenderInv /\ [SenderNext]_svars => A
  <2> SUFFICES ASSUME SenderInv, [SenderNext]_svars, sender_rows' # sender_rows,
                      Last(sender_rows').latency # 0
               PROVE  Last(sender_rows').latency = 1 /\ 1 \in published
      OBVIOUS
  <2>1. Finish
      BY RowsOnlyAtFinish
  <2> DEFINE row == [job |-> job, qos |-> qos_level, latency |-> ack_latency]
  <2>2. /\ sender_rows \in Seq(SenderRow) /\ ack_latency \in {0, 1}
        /\ sender_rows' = Append(sender_rows, row)
      BY <2>1 DEF SenderInv, SenderTyped, Finish
  <2>3. Last(sender_rows') = row
    <3>1. sender_rows' \in Seq(SenderRow)
        BY <2>1, FinishKeeps DEF SenderInv, SenderTyped
    <3> HIDE DEF row
    <3> QED
        BY <2>2, AppendProperties DEF Last
  <2>4. Running
      BY <2>1 DEF Finish, Running
  <2> QED
      BY <2>2, <2>3, <2>4 DEF SenderInv, Owned
<1> QED
    BY <1>1, SenderInductive, PTL DEF SenderSpec, LatencyFromMetadata

(* A row written without a wait given up means the broker has all of the   *)
(* run (wait_for_publish in send_chunks).                                  *)
THEOREM RowMeansSent == SenderSpec => RowNeedsAcks
<1> DEFINE A == sender_rows' # sender_rows /\ ~overdue /\ total_chunks > 0 =>
                    PacketsOf(job) \subseteq accepted
<1>1. SenderInv /\ [SenderNext]_svars => A
  <2> SUFFICES ASSUME SenderInv, [SenderNext]_svars, sender_rows' # sender_rows,
                      ~overdue, total_chunks > 0
               PROVE  PacketsOf(job) \subseteq accepted
      OBVIOUS
  <2>1. Finish
      BY RowsOnlyAtFinish
  <2>2. pc = "chunks" /\ chunk_num = total_chunks /\ Running
      BY <2>1 DEF Finish, Running
  <2>3. /\ 1 .. total_chunks + 1 \subseteq published
        /\ total_chunks = Len(Content[JobFile(job)])
      BY <2>2 DEF SenderInv, Phases, total_chunks, filename
  <2> HIDE DEF total_chunks
  <2>5. \A n \in 1 .. total_chunks + 1 : <<job, n>> \in accepted
      BY <2>2, <2>3 DEF SenderInv, Owned
  <2> QED
      BY <2>3, <2>5 DEF PacketsOf
<1> QED
    BY <1>1, SenderInductive, PTL DEF SenderSpec, RowNeedsAcks
=============================================================================
