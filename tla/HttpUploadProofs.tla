-------------------------- MODULE HttpUploadProofs --------------------------
(***************************************************************************)
(* Proofs about HttpUpload, for every set of requests, names and payloads  *)
(* of every length.                                                        *)
(***************************************************************************)
EXTENDS HttpUpload, SequenceTheorems, TLAPS

(* A payload is a sequence of blocks, and so is an empty file.             *)
LEMMA PayloadTyped ==
    ASSUME NEW p \in Payload \cup {<<>>}
    PROVE  /\ p \in Seq(Block) /\ Len(p) \in Nat
           /\ \A i \in 1 .. Len(p) : p[i] \in Block
<1>1. CASE p = <<>>
    BY <1>1
<1>2. CASE p \in Payload
  <2>1. p \in Seq(ToSet(p)) /\ ToSet(p) \subseteq Block
    BY <1>2, PayloadAssumption DEF Block
  <2>2. p \in Seq(Block)
    BY <2>1, SeqMonotonic
  <2> QED
    BY <2>2, ElementOfSeq, LenProperties
<1> QED
    BY <1>1, <1>2

(* Overwriting a block of a file keeps the others, and reaches the end of  *)
(* the file or leaves its length.                                          *)
LEMMA OverwriteProperties ==
    ASSUME NEW blocks \in Seq(Block), NEW i \in Nat \ {0}, NEW block \in Block
    PROVE  LET new == Overwrite(blocks, i, block) IN
           /\ new \in Seq(Block)
           /\ Len(new) = IF i > Len(blocks) THEN i ELSE Len(blocks)
           /\ new[i] = block
           /\ \A k \in 1 .. Len(blocks) : k # i => new[k] = blocks[k]
<1> DEFINE n == IF i > Len(blocks) THEN i ELSE Len(blocks)
<1>1. n \in Nat /\ i \in 1 .. n /\ Len(blocks) <= n
    OBVIOUS
<1>2. Zeros \in Block
    BY DEF Block
<1>3. \A k \in 1 .. n :
        (IF k = i THEN block ELSE IF k > Len(blocks) THEN Zeros ELSE blocks[k]) \in Block
    BY <1>1, <1>2
<1>4. Overwrite(blocks, i, block) \in [1 .. n -> Block]
    BY <1>3 DEF Overwrite
<1>5. /\ Overwrite(blocks, i, block) \in Seq(Block)
      /\ Len(Overwrite(blocks, i, block)) = n
    BY <1>1, <1>4
<1>6. Overwrite(blocks, i, block)[i] = block
    BY <1>1 DEF Overwrite
<1>7. \A k \in 1 .. Len(blocks) : k # i => Overwrite(blocks, i, block)[k] = blocks[k]
    BY <1>1 DEF Overwrite
<1> QED
    BY <1>5, <1>6, <1>7

LEMMA InitHttpInv == Init => HttpInv
<1> SUFFICES ASSUME Init PROVE HttpInv
    OBVIOUS
<1>1. TypeOK
    BY DEF Init, TypeOK
<1>2. InPayload
    BY PayloadTyped DEF Init, InPayload
<1>3. SamePayload /\ StillToCome
    BY DEF Init, SamePayload, StillToCome, Saver
<1> QED
    BY <1>1, <1>2, <1>3 DEF HttpInv

(* A step that takes no thread into or out of writing an unspoiled file,   *)
(* and touches no file, changes nothing that matters.                      *)
LEMMA NothingWritten ==
    ASSUME HttpInv, UNCHANGED <<request, written, disk, latest>>,
           pc' \in [Request -> {"received", "saving", "done"}],
           \A q \in Request : pc'[q] = "received" => pc[q] = "received",
           spoiled' \in SUBSET File, spoiled \subseteq spoiled',
           \A q \in Request : filename[q] \notin spoiled' =>
               (pc'[q] = "saving" => pc[q] = "saving")
               /\ (pc[q] = "saving" /\ pc'[q] # "saving" => written[q] = Len(data[q]))
    PROVE  HttpInv'
<1>1. TypeOK'
    BY DEF HttpInv, TypeOK, request
<1>2. InPayload'
    BY DEF HttpInv, TypeOK, InPayload, request
<1>3. SamePayload'
    BY DEF HttpInv, TypeOK, SamePayload, Saver, request
<1>4. StillToCome'
  <2> SUFFICES ASSUME NEW f \in File \ spoiled', NEW k \in 1 .. Len(latest[f]),
                      ~(k <= Len(disk[f]) /\ disk[f][k] = latest[f][k])
               PROVE  \E q \in Request : Saver(q, f)' /\ written[q] < k
    BY DEF StillToCome, HttpInv, TypeOK, request
  <2>1. PICK q \in Request : Saver(q, f) /\ written[q] < k
    BY DEF StillToCome, HttpInv
  <2>2. data[q] = latest[f] /\ Len(latest[f]) \in Nat /\ written[q] \in Nat
    BY <2>1, PayloadTyped DEF HttpInv, SamePayload, TypeOK
  <2>3. written[q] # Len(data[q])
    BY <2>1, <2>2
  <2> QED
    BY <2>1, <2>3 DEF Saver, request
<1> QED
    BY <1>1, <1>2, <1>3, <1>4 DEF HttpInv

(* A request that is refused never opened its file.                        *)
LEMMA RejectKeeps ==
    ASSUME HttpInv, NEW q \in Request, Reject(q)
    PROVE  HttpInv'
  BY NothingWritten DEF HttpInv, TypeOK, Reject, Finish

(* A thread that has written its payload is no longer needed.              *)
LEMMA SavedKeeps ==
    ASSUME HttpInv, NEW q \in Request, Saved(q)
    PROVE  HttpInv'
  BY NothingWritten DEF HttpInv, TypeOK, Saved, Finish

(* A write that fails spoils its file.                                     *)
LEMMA SaveFailsKeeps ==
    ASSUME HttpInv, NEW q \in Request, SaveFails(q)
    PROVE  HttpInv'
<1>1. filename[q] \in File /\ spoiled \subseteq File
    BY DEF HttpInv, TypeOK
<1>2. CASE pc[q] = "received" /\ UNCHANGED spoiled
    BY <1>1, <1>2, NothingWritten DEF HttpInv, TypeOK, SaveFails, Finish
<1>3. CASE pc[q] = "saving" /\ spoiled' = spoiled \cup {filename[q]}
    BY <1>1, <1>3, NothingWritten DEF HttpInv, TypeOK, SaveFails, Finish
<1> QED
    BY <1>2, <1>3 DEF SaveFails

(* The thread that opens a file is itself before every block of it.        *)
LEMMA OpenKeeps ==
    ASSUME HttpInv, NEW q \in Request, Open(q)
    PROVE  HttpInv'
<1> DEFINE f == filename[q]
<1>1. f \in File /\ data[q] \in Payload /\ written[q] = 0 /\ pc[q] = "received"
    BY DEF HttpInv, TypeOK, InPayload, Open
<1>2. /\ pc' = [pc EXCEPT ![q] = "saving"]
      /\ disk' = [disk EXCEPT ![f] = <<>>]
      /\ latest' = [latest EXCEPT ![f] = data[q]]
      /\ filename' = filename /\ data' = data /\ written' = written
    BY DEF Open, Truncated, request
<1>3. spoiled' \subseteq File /\ \A g \in File \ {f} : g \in spoiled' <=> g \in spoiled
    BY <1>1 DEF HttpInv, TypeOK, Open
<1>4. <<>> \in Seq(Block)
    OBVIOUS
<1>5. TypeOK'
    BY <1>1, <1>2, <1>3, <1>4 DEF HttpInv, TypeOK
<1>6. InPayload'
    BY <1>1, <1>2 DEF HttpInv, TypeOK, InPayload
<1>7. SamePayload'
  <2> SUFFICES ASSUME NEW r \in Request, NEW g \in File \ spoiled', Saver(r, g)'
               PROVE  data'[r] = latest'[g]
    BY DEF SamePayload
  <2>1. CASE g # f
    BY <1>1, <1>2, <1>3, <2>1 DEF HttpInv, TypeOK, SamePayload, Saver
  <2>2. CASE g = f /\ r = q
    BY <1>1, <1>2, <2>2 DEF HttpInv, TypeOK
  <2>3. CASE g = f /\ r # q
    <3>1. r \in Others(f, q)
      BY <1>1, <1>2, <2>3 DEF HttpInv, TypeOK, Saver, Others
    <3>2. data[r] = data[q]
      BY <1>1, <2>3, <3>1 DEF Open
    <3> QED
      BY <1>1, <1>2, <2>3, <3>2 DEF HttpInv, TypeOK
  <2> QED
    BY <2>1, <2>2, <2>3
<1>8. StillToCome'
  <2> SUFFICES ASSUME NEW g \in File \ spoiled'
               PROVE  /\ Len(disk'[g]) <= Len(latest'[g])
                      /\ \A k \in 1 .. Len(latest'[g]) :
                            \/ k <= Len(disk'[g]) /\ disk'[g][k] = latest'[g][k]
                            \/ \E r \in Request : Saver(r, g)' /\ written'[r] < k
    BY DEF StillToCome
  <2>1. CASE g = f
    <3>1. disk'[g] = <<>> /\ latest'[g] = data[q]
      BY <1>1, <1>2, <2>1 DEF HttpInv, TypeOK
    <3>2. Saver(q, g)' /\ written'[q] = 0
      BY <1>1, <1>2, <2>1 DEF HttpInv, TypeOK, Saver
    <3>3. Len(data[q]) \in Nat
      BY <1>1, PayloadTyped
    <3> QED
      BY <3>1, <3>2, <3>3
  <2>2. CASE g # f
    <3>1. g \in File \ spoiled /\ disk'[g] = disk[g] /\ latest'[g] = latest[g]
      BY <1>1, <1>2, <1>3, <2>2 DEF HttpInv, TypeOK
    <3>2. \A r \in Request : Saver(r, g) => Saver(r, g)'
      BY <1>2 DEF HttpInv, TypeOK, Saver
    <3> QED
      BY <1>2, <3>1, <3>2 DEF HttpInv, StillToCome
  <2> QED
    BY <2>1, <2>2
<1> QED
    BY <1>5, <1>6, <1>7, <1>8 DEF HttpInv

(* The block that a thread leaves behind is in the file as it should be.   *)
LEMMA WriteBlockKeeps ==
    ASSUME HttpInv, NEW q \in Request, WriteBlock(q)
    PROVE  HttpInv'
<1> DEFINE f == filename[q]
           i == written[q] + 1
<1>1. /\ f \in File /\ data[q] \in Payload /\ pc[q] = "saving"
      /\ i \in Nat \ {0} /\ i <= Len(data[q])
      /\ disk[f] \in Seq(Block)
    BY DEF HttpInv, TypeOK, WriteBlock
<1>2. Len(data[q]) \in Nat /\ data[q][i] \in Block
    BY <1>1, PayloadTyped
<1>3. /\ disk' = [disk EXCEPT ![f] = Overwrite(disk[f], i, data[q][i])]
      /\ written' = [written EXCEPT ![q] = i]
      /\ filename' = filename /\ data' = data
      /\ pc' = pc /\ latest' = latest /\ spoiled' = spoiled
    BY DEF WriteBlock, request
<1> DEFINE new == Overwrite(disk[f], i, data[q][i])
<1>4. /\ new \in Seq(Block)
      /\ Len(new) = IF i > Len(disk[f]) THEN i ELSE Len(disk[f])
      /\ new[i] = data[q][i]
      /\ \A k \in 1 .. Len(disk[f]) : k # i => new[k] = disk[f][k]
    BY <1>1, <1>2, OverwriteProperties
<1> HIDE DEF new
<1>5. disk'[f] = new /\ \A g \in File \ {f} : disk'[g] = disk[g]
    BY <1>1, <1>3 DEF HttpInv, TypeOK, new
<1>6. TypeOK'
    BY <1>1, <1>3, <1>4 DEF HttpInv, TypeOK, new
<1>7. InPayload' /\ SamePayload'
    BY <1>1, <1>3 DEF HttpInv, TypeOK, InPayload, SamePayload, Saver
<1>8. StillToCome'
  <2> SUFFICES ASSUME NEW g \in File \ spoiled
               PROVE  /\ Len(disk'[g]) <= Len(latest[g])
                      /\ \A k \in 1 .. Len(latest[g]) :
                            \/ k <= Len(disk'[g]) /\ disk'[g][k] = latest[g][k]
                            \/ \E r \in Request : Saver(r, g) /\ written'[r] < k
    BY <1>3 DEF StillToCome, Saver
  <2>1. CASE g # f
    <3>1. disk'[g] = disk[g]
      BY <1>5, <2>1
    <3>2. \A r \in Request : Saver(r, g) => written'[r] = written[r]
      BY <1>3, <2>1 DEF HttpInv, TypeOK, Saver
    <3> QED
      BY <3>1, <3>2 DEF HttpInv, StillToCome
  <2>2. CASE g = f
    <3>1. /\ data[q] = latest[f] /\ Len(disk[f]) <= Len(latest[f])
          /\ Len(disk[f]) \in Nat
      BY <1>1, <2>2 DEF HttpInv, SamePayload, StillToCome, Saver
    <3>2. Len(disk'[g]) <= Len(latest[g])
      BY <1>1, <1>2, <1>4, <1>5, <2>2, <3>1
    <3>3. ASSUME NEW k \in 1 .. Len(latest[g])
          PROVE  \/ k <= Len(disk'[g]) /\ disk'[g][k] = latest[g][k]
                 \/ \E r \in Request : Saver(r, g) /\ written'[r] < k
      <4>1. CASE k = i
        BY <1>1, <1>4, <1>5, <2>2, <3>1, <4>1
      <4>2. CASE k # i /\ k <= Len(disk[f]) /\ disk[f][k] = latest[f][k]
        BY <1>1, <1>2, <1>4, <1>5, <2>2, <3>1, <4>2
      <4>3. ASSUME NEW r \in Request, Saver(r, g), written[r] < k, k # i
            PROVE  written'[r] < k
        BY <1>1, <1>2, <1>3, <2>2, <3>1, <4>3 DEF HttpInv, TypeOK
      <4>4. \/ k <= Len(disk[f]) /\ disk[f][k] = latest[f][k]
            \/ \E r \in Request : Saver(r, f) /\ written[r] < k
        BY <2>2 DEF HttpInv, StillToCome
      <4> QED
        BY <2>2, <4>1, <4>2, <4>3, <4>4
    <3> QED
      BY <3>2, <3>3
  <2> QED
    BY <2>1, <2>2
<1> QED
    BY <1>6, <1>7, <1>8 DEF HttpInv

LEMMA NextKeeps == HttpInv /\ [Next]_vars => HttpInv'
<1> SUFFICES ASSUME HttpInv, [Next]_vars PROVE HttpInv'
    OBVIOUS
<1>1. ASSUME NEW q \in Request, Reject(q) PROVE HttpInv'
    BY <1>1, RejectKeeps
<1>2. ASSUME NEW q \in Request, Open(q) PROVE HttpInv'
    BY <1>2, OpenKeeps
<1>3. ASSUME NEW q \in Request, WriteBlock(q) PROVE HttpInv'
    BY <1>3, WriteBlockKeeps
<1>4. ASSUME NEW q \in Request, SaveFails(q) PROVE HttpInv'
    BY <1>4, SaveFailsKeeps
<1>5. ASSUME NEW q \in Request, Saved(q) PROVE HttpInv'
    BY <1>5, SavedKeeps
<1>6. CASE UNCHANGED vars
    BY <1>6 DEF vars, HttpInv, TypeOK, InPayload, SamePayload, StillToCome, Saver
<1> QED
    BY <1>1, <1>2, <1>3, <1>4, <1>5, <1>6 DEF Next, Answered

(* The invariant, for every number of concurrent requests: of an unspoiled *)
(* file, every block that is not in place yet is still before a thread.    *)
THEOREM HttpInductive == Spec => []HttpInv
<1>1. Init => HttpInv
    BY InitHttpInv
<1>2. HttpInv /\ [Next]_vars => HttpInv'
    BY NextKeeps
<1> QED
    BY <1>1, <1>2, PTL DEF Spec

(* A file nobody is writing, and that no two different uploads and no      *)
(* failed write have touched since it was last opened alone, is the last   *)
(* payload, whole: save_file needs no lock for repeated uploads.           *)
THEOREM RepeatingIsSafe == Spec => []QuietFileIsWhole
<1>1. HttpInv => QuietFileIsWhole
  <2> SUFFICES ASSUME HttpInv, NEW f \in File \ spoiled,
                      \A q \in Request : pc[q] = "saving" => filename[q] # f
               PROVE  disk[f] = latest[f]
    BY DEF QuietFileIsWhole
  <2>1. disk[f] \in Seq(Block) /\ latest[f] \in Seq(Block)
    BY PayloadTyped DEF HttpInv, TypeOK
  <2>2. /\ Len(disk[f]) <= Len(latest[f])
        /\ \A k \in 1 .. Len(latest[f]) :
              k <= Len(disk[f]) /\ disk[f][k] = latest[f][k]
    BY DEF HttpInv, StillToCome, Saver
  <2>3. Len(disk[f]) = Len(latest[f])
    BY <2>1, <2>2
  <2> QED
    BY <2>1, <2>2, <2>3, SeqEqual
<1> QED
    BY <1>1, HttpInductive, PTL
=============================================================================
