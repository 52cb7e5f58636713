-------------------------- MODULE CoapUploadProofs --------------------------
(***************************************************************************)
(* Proofs about CoapUpload, for every set of files, every number of        *)
(* attempts, both versions and any delay or loss of requests.              *)
(***************************************************************************)
EXTENDS CoapUpload, FiniteSetTheorems, FunctionTheorems, SequenceTheorems, TLAPS

Code == {"2.04", "4.00", "5.00"}
Row == [file : Files, integrity_ok : BOOLEAN]
Busy == {"request", "waiting", "row"}

(* The server has the file, if its name gets there.                        *)
Held(f) == Carried(f) => saved[f] = f \/ f \in torn

Typed ==
    /\ version \in {1, 2}
    /\ pc \in {"start", "next", "done", "failed"} \cup Busy
    /\ files \in Seq(Files) /\ todo \in Seq(Files)
    /\ pc \in Busy => todo # <<>>
    /\ pc = "done" => todo = <<>>
    /\ attempt \in Nat
    /\ response \in Code \cup {None}
    /\ rows \in Seq(Row)
    /\ \A q \in requests : q.file \in Files
    /\ \A r \in responses : r.file \in Files /\ r.code \in Code
    /\ DOMAIN saved = {SavedName(f) : f \in Files}
    /\ saved = [n \in DOMAIN saved |-> saved[n]]
    /\ tries \in [Files -> Nat]

(* A response that says so is right from the moment it is sent to the end. *)
Truthful ==
    /\ \A r \in responses : r.code = "2.04" => Held(r.file)
    /\ pc = "row" /\ response = "2.04" => Held(filename)
    /\ OkMeansSaved

(* The attempts counted are those of the file at the head of todo, and     *)
(* nothing was sent yet for the files behind it, which are all different.  *)
Counted ==
    /\ pc \in {"start", "next", "request", "waiting"} => response = None
    /\ pc \in {"start", "next"} => attempt = 0
    /\ pc = "start" => files = <<>> /\ todo = <<>> /\ \A f \in Files : tries[f] = 0
    /\ pc = "request" => attempt < MAX_RETRIES /\ tries[filename] = attempt
    /\ pc = "waiting" => attempt < MAX_RETRIES /\ tries[filename] = attempt + 1
    /\ pc = "row" /\ response = None => tries[filename] = MAX_RETRIES
    /\ \A i \in 1 .. Len(todo) : pc = "next" \/ i > 1 => tries[todo[i]] = 0
    /\ \A i, k \in 1 .. Len(todo) : i # k => todo[i] # todo[k]

Explained(f) ==
    \/ \E i \in 1 .. Len(rows) : rows[i].file = f
    \/ f \in gone
    \/ tries[f] = MAX_RETRIES

(* What was listed is still to come or is accounted for.                   *)
Accounted == \A f \in ToSet(files) : Explained(f) \/ f \in ToSet(todo)

(* Version 2: the smallest file first, so once there is a row no empty     *)
(* file is left.                                                           *)
Ascending ==
    /\ pc = "start" => rows = <<>>
    /\ version = 2 =>
        /\ \A i, k \in 1 .. Len(todo) :
              i < k => FileSize[todo[i]] <= FileSize[todo[k]]
        /\ rows # <<>> => \A i \in 1 .. Len(todo) : FileSize[todo[i]] > 0
        /\ pc = "failed" /\ response # None => rows = <<>>

CoapInv == Typed /\ Truthful /\ Counted /\ Accounted /\ Ascending

-----------------------------------------------------------------------------
LEMMA ToSetMembers ==
    ASSUME NEW s \in Seq(Files), NEW x
    PROVE  x \in ToSet(s) <=> \E i \in 1 .. Len(s) : s[i] = x
<1>1. DOMAIN s = 1 .. Len(s)
    BY LenProperties
<1> QED
    BY <1>1 DEF ToSet

LEMMA TailFacts ==
    ASSUME NEW s \in Seq(Files), s # <<>>
    PROVE  /\ Head(s) = s[1] /\ Head(s) \in Files
           /\ Tail(s) \in Seq(Files)
           /\ Len(s) \in Nat \ {0} /\ Len(Tail(s)) = Len(s) - 1
           /\ \A i \in 1 .. Len(Tail(s)) : i + 1 \in 1 .. Len(s) /\ Tail(s)[i] = s[i + 1]
           /\ \A x \in ToSet(s) : x = Head(s) \/ x \in ToSet(Tail(s))
<1>1. /\ Len(s) \in Nat \ {0} /\ Head(s) = s[1] /\ Head(s) \in Files
      /\ Tail(s) \in Seq(Files) /\ Len(Tail(s)) = Len(s) - 1
      /\ \A i \in 1 .. Len(Tail(s)) : Tail(s)[i] = s[i + 1]
    BY HeadTailProperties, EmptySeq
<1>2. ASSUME NEW i \in 1 .. Len(s)
      PROVE  s[i] = Head(s) \/ \E k \in 1 .. Len(Tail(s)) : Tail(s)[k] = s[i]
  <2>1. CASE i = 1
    BY <1>1, <2>1
  <2>2. CASE i # 1
    <3>1. i - 1 \in 1 .. Len(Tail(s)) /\ Tail(s)[i - 1] = s[i]
      BY <1>1, <2>2
    <3> QED
      BY <3>1
  <2> QED
    BY <2>1, <2>2
<1>3. ASSUME NEW x \in ToSet(s)
      PROVE  x = Head(s) \/ x \in ToSet(Tail(s))
  <2>1. PICK i \in 1 .. Len(s) : s[i] = x
    BY ToSetMembers
  <2>2. x = Head(s) \/ \E k \in 1 .. Len(Tail(s)) : Tail(s)[k] = x
    BY <1>2, <2>1
  <2> QED
    BY <1>1, <2>2, ToSetMembers
<1> QED
    BY <1>1, <1>3

(* The order in which the files are taken names each of them once.         *)
LEMMA ListFacts ==
    ASSUME NEW S \in SUBSET Files, NEW s \in ListOrders(S)
    PROVE  /\ s \in Seq(Files)
           /\ \A i, k \in 1 .. Len(s) : i # k => s[i] # s[k]
           /\ version = 2 => \A i, k \in 1 .. Len(s) :
                                i < k => FileSize[s[i]] <= FileSize[s[k]]
<1> DEFINE n == Cardinality(S)
<1>1. IsFiniteSet(S) /\ n \in Nat
    BY FilesAssumption, FS_Subset, FS_CardinalityType
<1>2. s \in [1 .. n -> S] /\ ToSet(s) = S
    BY DEF ListOrders
<1>3. s \in Seq(Files) /\ Len(s) = n
    BY <1>1, <1>2
<1>4. s \in Surjection(1 .. n, S)
  <2>1. \A x \in S : \E i \in 1 .. n : s[i] = x
    BY <1>2, <1>3, ToSetMembers
  <2> QED
    BY <1>2, <2>1, Fun_IsSurj
<1>5. IsFiniteSet(1 .. n) /\ Cardinality(1 .. n) = n
    BY <1>1, FS_Interval
<1>6. s \in Injection(1 .. n, S)
    BY <1>4, <1>5, FS_SurjSameCardinalityImpliesInj
<1>7. \A i, k \in 1 .. n : i # k => s[i] # s[k]
    BY <1>6, Fun_InjectionProperties
<1>8. DOMAIN s = 1 .. n
    BY <1>2
<1> QED
    BY <1>3, <1>7, <1>8 DEF ListOrders

-----------------------------------------------------------------------------
(* A step that leaves the server alone keeps what it holds.                *)
LEMMA HeldKept ==
    ASSUME UNCHANGED <<version, saved, torn>>, NEW f
    PROVE  Held(f)' <=> Held(f)
  BY DEF Held, Carried, SavedName

LEMMA InitCoapInv == Init => CoapInv
<1> SUFFICES ASSUME Init PROVE CoapInv
    OBVIOUS
<1>1. version \in {1, 2}
    BY VersionsAssumption DEF Init
<1>2. Typed
    BY <1>1 DEF Init, Typed, Busy
<1>3. Truthful
    BY DEF Init, Truthful, OkMeansSaved
<1>4. Counted
    BY DEF Init, Counted
<1>5. Accounted
    BY ToSetMembers DEF Init, Accounted
<1>6. Ascending
    BY DEF Init, Ascending
<1> QED
    BY <1>2, <1>3, <1>4, <1>5, <1>6 DEF CoapInv

(* Rows only grow, and what was accounted for stays so.                    *)
LEMMA ExplainedKept ==
    ASSUME NEW f, Explained(f), gone \subseteq gone',
           rows' = rows, tries[f] = MAX_RETRIES => tries'[f] = MAX_RETRIES
    PROVE  Explained(f)'
  BY DEF Explained

LEMMA LoadFilesKeeps ==
    ASSUME CoapInv, LoadFiles, UNCHANGED version
    PROVE  CoapInv'
<1> USE DEF CoapInv
<1>1. /\ pc = "start" /\ rows = <<>>
      /\ UNCHANGED <<attempt, response, rows, gone, tries, saved, torn,
                     requests, responses>>
    BY DEF LoadFiles, server, Ascending
<1>2. attempt = 0 /\ response = None /\ \A f \in Files : tries[f] = 0
    BY <1>1 DEF Counted
<1>3. /\ files' = todo' /\ files' \in Seq(Files) /\ pc' \in {"next", "failed"}
      /\ \A i, k \in 1 .. Len(files') : i # k => files'[i] # files'[k]
      /\ version = 2 => \A i, k \in 1 .. Len(files') :
            i < k => FileSize[files'[i]] <= FileSize[files'[k]]
  <2>1. PICK S \in SUBSET Files :
          IF S = {} THEN pc' = "failed" /\ UNCHANGED <<files, todo>>
          ELSE /\ pc' = "next"
               /\ files' \in ListOrders(S)
               /\ todo' = files'
    BY DEF LoadFiles
  <2>2. CASE S = {}
    BY <1>1, <2>1, <2>2 DEF Counted
  <2>3. CASE S # {}
    BY <2>1, <2>3, ListFacts
  <2> QED
    BY <2>2, <2>3
<1>4. \A i \in 1 .. Len(todo') : todo'[i] \in Files
    BY <1>3, ElementOfSeq
<1>5. Typed'
    BY <1>1, <1>3 DEF Typed, Busy, SavedName
<1>6. Truthful'
    BY <1>1, <1>3, HeldKept DEF Truthful, OkMeansSaved, Carried, SavedName
<1>7. Counted'
    BY <1>1, <1>2, <1>3, <1>4 DEF Counted
<1>8. Accounted'
    BY <1>3 DEF Accounted
<1>9. Ascending'
    BY <1>1, <1>3 DEF Ascending
<1> QED
    BY <1>5, <1>6, <1>7, <1>8, <1>9

(* The client goes from one file to the next: the file it leaves has its   *)
(* row, or is gone, or had all its attempts.                               *)
LEMMA NextFileKeeps ==
    ASSUME CoapInv, pc \in {"next", "row"}, todo # <<>>, pc' = "next", attempt' = 0,
           response' = None, todo' = Tail(todo),
           gone \subseteq gone', NEW left, left = filename, Explained(left)',
           \A f \in Files : Explained(f) => Explained(f)',
           rows' \in Seq(Row), OkMeansSaved',
           version = 2 /\ rows' # <<>> =>
               \A i \in 1 .. Len(todo') : FileSize[todo'[i]] > 0,
           UNCHANGED <<version, files, tries, server, requests, responses>>
    PROVE  CoapInv'
<1> USE DEF CoapInv
<1>1. todo \in Seq(Files)
    BY DEF Typed
<1>2. /\ Tail(todo) \in Seq(Files) /\ Len(todo) \in Nat \ {0}
      /\ Len(Tail(todo)) = Len(todo) - 1
      /\ \A i \in 1 .. Len(Tail(todo)) :
            i + 1 \in 1 .. Len(todo) /\ Tail(todo)[i] = todo[i + 1]
      /\ \A x \in ToSet(todo) : x = filename \/ x \in ToSet(Tail(todo))
    BY <1>1, TailFacts DEF filename
<1>3. Typed'
    BY <1>2 DEF Typed, Busy, SavedName, server
<1>4. Truthful'
    BY HeldKept DEF Truthful, server
<1>5. Counted'
  <2>1. \A i \in 1 .. Len(todo') : tries'[todo'[i]] = 0
    BY <1>2 DEF Counted
  <2>2. \A i, k \in 1 .. Len(todo') : i # k => todo'[i] # todo'[k]
    BY <1>2 DEF Counted
  <2> QED
    BY <2>1, <2>2 DEF Counted
<1>6. Accounted'
  <2>1. ToSet(files') \subseteq Files
    BY ToSetMembers, ElementOfSeq DEF Typed
  <2> QED
    BY <1>2, <2>1 DEF Accounted
<1>7. Ascending'
  <2>1. version = 2 => \A i, k \in 1 .. Len(todo') :
            i < k => FileSize[todo'[i]] <= FileSize[todo'[k]]
    BY <1>2 DEF Ascending
  <2> QED
    BY <2>1 DEF Ascending
<1> QED
    BY <1>3, <1>4, <1>5, <1>6, <1>7

LEMMA FileNotFoundKeeps ==
    ASSUME CoapInv, FileNotFound, UNCHANGED version
    PROVE  CoapInv'
<1>1. /\ pc = "next" /\ todo # <<>> /\ pc' = "next" /\ todo' = Tail(todo)
      /\ attempt' = 0 /\ response' = None /\ rows' = rows
      /\ gone' = gone \cup {filename}
      /\ UNCHANGED <<files, tries, server, requests, responses>>
    BY DEF FileNotFound, CoapInv, Counted
<1>2. PICK left : left = filename
    OBVIOUS
<1>3. Explained(left)' /\ \A f \in Files : Explained(f) => Explained(f)'
    BY <1>1, <1>2 DEF Explained
<1>4. rows' \in Seq(Row) /\ OkMeansSaved'
    BY <1>1 DEF CoapInv, Typed, Truthful, OkMeansSaved, Carried, SavedName, server
<1>5. version = 2 /\ rows' # <<>> =>
          \A i \in 1 .. Len(todo') : FileSize[todo'[i]] > 0
    BY <1>1, TailFacts DEF CoapInv, Typed, Ascending
<1> QED
    BY <1>1, <1>2, <1>3, <1>4, <1>5, NextFileKeeps

LEMMA GiveUpKeeps ==
    ASSUME CoapInv, GiveUp, UNCHANGED version
    PROVE  CoapInv'
<1>1. /\ pc = "row" /\ response = None /\ todo # <<>>
      /\ pc' = "next" /\ todo' = Tail(todo)
      /\ attempt' = 0 /\ response' = None
      /\ UNCHANGED <<rows, gone, files, tries, server, requests, responses>>
    BY DEF GiveUp, Return, CoapInv, Typed, Busy
<1>2. PICK left : left = filename
    OBVIOUS
<1>3. Explained(left)' /\ \A f \in Files : Explained(f) => Explained(f)'
    BY <1>1, <1>2 DEF Explained, CoapInv, Counted
<1>4. rows' \in Seq(Row) /\ OkMeansSaved'
    BY <1>1 DEF CoapInv, Typed, Truthful, OkMeansSaved, Carried, SavedName, server
<1>5. version = 2 /\ rows' # <<>> =>
          \A i \in 1 .. Len(todo') : FileSize[todo'[i]] > 0
    BY <1>1, TailFacts DEF CoapInv, Typed, Ascending
<1> QED
    BY <1>1, <1>2, <1>3, <1>4, <1>5, NextFileKeeps

(* The row that says integrity_ok was answered 2.04; the files behind this *)
(* one are at least as large, so none of them is empty.                    *)
LEMMA WriteRowKeeps ==
    ASSUME CoapInv, WriteRow, UNCHANGED version
    PROVE  CoapInv'
<1> DEFINE row == [file |-> filename, integrity_ok |-> is_successful(response)]
<1>1. /\ pc = "row" /\ response # None /\ todo # <<>> /\ FileSize[filename] > 0
      /\ pc' = "next" /\ todo' = Tail(todo)
      /\ attempt' = 0 /\ response' = None
      /\ rows' = Append(rows, row)
      /\ UNCHANGED <<gone, files, tries, server, requests, responses>>
    BY DEF WriteRow, Return, CoapInv, Typed, Busy
<1>2. /\ todo \in Seq(Files) /\ filename = todo[1] /\ filename \in Files
      /\ Len(todo) \in Nat \ {0} /\ Len(Tail(todo)) = Len(todo) - 1
      /\ \A i \in 1 .. Len(Tail(todo)) :
            i + 1 \in 1 .. Len(todo) /\ Tail(todo)[i] = todo[i + 1]
    BY <1>1, TailFacts DEF CoapInv, Typed, filename
<1>3. row \in Row /\ row.file = filename
      /\ (row.integrity_ok => response = "2.04")
    BY <1>2 DEF Row, is_successful
<1> HIDE DEF row
<1>4. /\ rows \in Seq(Row) /\ rows' \in Seq(Row)
      /\ Len(rows') = Len(rows) + 1 /\ Len(rows) \in Nat
      /\ \A i \in 1 .. Len(rows) : rows'[i] = rows[i]
      /\ rows'[Len(rows) + 1] = row
    BY <1>1, <1>3, AppendProperties DEF CoapInv, Typed
<1>5. PICK left : left = filename
    OBVIOUS
<1>6. Explained(left)' /\ \A f \in Files : Explained(f) => Explained(f)'
    BY <1>1, <1>3, <1>4, <1>5 DEF Explained
<1>7. OkMeansSaved'
  <2>1. \A f : Held(f)' <=> Held(f)
    BY <1>1, HeldKept DEF server
  <2>2. /\ DOMAIN rows' = 1 .. Len(rows) + 1 /\ DOMAIN rows = 1 .. Len(rows)
    BY <1>4, LenProperties
  <2>3. ASSUME NEW i \in DOMAIN rows', rows'[i].integrity_ok
        PROVE  Held(rows'[i].file)
    <3>1. CASE i \in 1 .. Len(rows)
      <4>1. rows'[i] = rows[i] /\ i \in DOMAIN rows
        BY <1>4, <2>2, <3>1
      <4> QED
        BY <2>3, <4>1 DEF CoapInv, Truthful, OkMeansSaved, Held
    <3>2. CASE i = Len(rows) + 1
      <4>1. rows'[i] = row
        BY <1>4, <3>2
      <4> QED
        BY <1>1, <1>3, <2>3, <4>1 DEF CoapInv, Truthful
    <3> QED
      BY <1>4, <2>2, <3>1, <3>2
  <2>4. \A f : \A i \in DOMAIN rows' :
            f = rows'[i].file /\ rows'[i].integrity_ok => Held(f)'
    BY <2>1, <2>3
  <2> QED
    BY <2>4 DEF OkMeansSaved, Held
<1>8. ASSUME version = 2, NEW i \in 1 .. Len(todo')
      PROVE  FileSize[todo'[i]] > 0
  <2>1. /\ i + 1 \in 1 .. Len(todo) /\ todo'[i] = todo[i + 1] /\ 1 < i + 1
        /\ 1 \in 1 .. Len(todo)
    BY <1>1, <1>2
  <2>2. FileSize[todo[1]] <= FileSize[todo[i + 1]]
    BY <1>8, <2>1 DEF CoapInv, Ascending
  <2>3. FileSize[todo[1]] \in Nat /\ FileSize[todo[i + 1]] \in Nat
    BY <1>2, <2>1, ElementOfSeq, FileSizeAssumption
  <2> QED
    BY <1>1, <1>2, <2>1, <2>2, <2>3
<1> QED
    BY <1>1, <1>4, <1>5, <1>6, <1>7, <1>8, NextFileKeeps

-----------------------------------------------------------------------------
(* The steps of one upload: the same files are before the client.          *)
LEMMA SameFiles ==
    ASSUME CoapInv, UNCHANGED <<version, files, todo, rows, gone, saved, torn>>,
           pc # "start", pc' # "start",
           \A f \in Files : tries[f] = MAX_RETRIES => f = filename \/ tries'[f] = tries[f],
           version = 2 /\ pc' = "failed" /\ response' # None => rows = <<>>,
           \/ pc \in Busy
           \/ \A f \in Files : tries[f] = MAX_RETRIES => tries'[f] = tries[f]
    PROVE  Accounted' /\ Ascending' /\ OkMeansSaved'
<1>1. OkMeansSaved'
    BY DEF CoapInv, Truthful, OkMeansSaved, Carried, SavedName
<1>2. Ascending'
    BY DEF CoapInv, Ascending
<1>3. Accounted'
  <2> SUFFICES ASSUME NEW f \in ToSet(files)
               PROVE  Explained(f)' \/ f \in ToSet(todo)
    BY DEF Accounted
  <2>1. f \in Files
    BY ToSetMembers, ElementOfSeq DEF CoapInv, Typed
  <2>2. CASE f = filename /\ pc \in Busy
    <3>1. todo \in Seq(Files) /\ todo # <<>>
      BY <2>2 DEF CoapInv, Typed
    <3>2. 1 \in 1 .. Len(todo) /\ filename = todo[1]
      BY <3>1, TailFacts DEF filename
    <3> QED
      BY <2>2, <3>1, <3>2, ToSetMembers
  <2>3. CASE ~(f = filename /\ pc \in Busy)
    BY <2>1, <2>3, ExplainedKept DEF CoapInv, Accounted
  <2> QED
    BY <2>2, <2>3
<1> QED
    BY <1>1, <1>2, <1>3

(* A file that cannot be opened ends the program before any answer.        *)
LEMMA OpenFailsKeeps ==
    ASSUME CoapInv, OpenFails, UNCHANGED version
    PROVE  CoapInv'
<1>1. /\ pc = "next" /\ pc' = "failed"
      /\ UNCHANGED <<files, todo, attempt, response, rows, gone, tries, saved,
                     torn, requests, responses>>
    BY DEF OpenFails, server
<1>2. response' = None
    BY <1>1 DEF CoapInv, Counted
<1>3. Typed'
    BY <1>1 DEF CoapInv, Typed, Busy, SavedName
<1>4. Counted'
    BY <1>1 DEF CoapInv, Counted
<1>5. Accounted' /\ Ascending' /\ OkMeansSaved'
    BY <1>1, <1>2, SameFiles DEF CoapInv
<1>6. Truthful'
    BY <1>1, <1>5, HeldKept DEF CoapInv, Truthful
<1> QED
    BY <1>3, <1>4, <1>5, <1>6 DEF CoapInv

(* What a step of an upload leaves: the server and the messages' truth.    *)
LEMMA FileReadKeeps ==
    ASSUME CoapInv, MeasureLatency, UNCHANGED version
    PROVE  CoapInv'
<1>1. /\ pc = "next" /\ todo # <<>> /\ pc' = "request"
      /\ UNCHANGED <<files, todo, attempt, response, rows, gone, tries, saved,
                     torn, requests, responses>>
    BY DEF MeasureLatency, server
<1>2. /\ todo \in Seq(Files) /\ filename = todo[1] /\ 1 \in 1 .. Len(todo)
    BY <1>1, TailFacts DEF CoapInv, Typed, filename
<1>3. Typed'
    BY <1>1 DEF CoapInv, Typed, Busy, SavedName
<1>4. Counted'
    BY <1>1, <1>2, RetriesAssumption DEF CoapInv, Counted, filename
<1>5. Accounted' /\ Ascending' /\ OkMeansSaved'
    BY <1>1, SameFiles DEF CoapInv
<1>6. Truthful'
    BY <1>1, <1>5, HeldKept DEF CoapInv, Truthful
<1> QED
    BY <1>3, <1>4, <1>5, <1>6 DEF CoapInv

LEMMA SendPutKeeps ==
    ASSUME CoapInv, SendPut, UNCHANGED version
    PROVE  CoapInv'
<1>1. /\ pc = "request" /\ pc' = "waiting"
      /\ \/ requests' = requests
         \/ requests' = requests \cup {[file |-> filename, attempt |-> attempt]}
      /\ tries' = [tries EXCEPT ![filename] = @ + 1]
      /\ UNCHANGED <<files, todo, attempt, response, rows, gone, saved, torn,
                     responses>>
    BY DEF SendPut, server
<1>2. /\ todo \in Seq(Files) /\ filename = todo[1] /\ 1 \in 1 .. Len(todo)
      /\ filename \in Files
    BY <1>1, TailFacts DEF CoapInv, Typed, Busy, filename
<1>3. /\ tries' \in [Files -> Nat] /\ tries'[filename] = tries[filename] + 1
      /\ \A f \in Files : f # filename => tries'[f] = tries[f]
    BY <1>1, <1>2 DEF CoapInv, Typed
<1>4. Typed'
    BY <1>1, <1>2, <1>3 DEF CoapInv, Typed, Busy, SavedName
<1>5. Counted'
  <2>1. \A i \in 1 .. Len(todo) : i > 1 => tries'[todo[i]] = 0
    BY <1>1, <1>2, <1>3, ElementOfSeq DEF CoapInv, Counted
  <2> QED
    BY <1>1, <1>3, <2>1 DEF CoapInv, Counted, filename
<1>6. Accounted' /\ Ascending' /\ OkMeansSaved'
    BY <1>1, <1>3, SameFiles DEF CoapInv, Busy
<1>7. Truthful'
    BY <1>1, <1>6, HeldKept DEF CoapInv, Truthful
<1> QED
    BY <1>4, <1>5, <1>6, <1>7 DEF CoapInv

LEMMA AnsweredKeeps ==
    ASSUME CoapInv, Answered, UNCHANGED version
    PROVE  CoapInv'
<1>1. PICK r \in responses : r.file = filename /\ response' = r.code
                             /\ responses' = responses \ {r}
    BY DEF Answered
<1>2. /\ pc = "waiting" /\ pc' = "row"
      /\ UNCHANGED <<files, todo, attempt, rows, gone, tries, saved, torn,
                     requests>>
    BY DEF Answered, server
<1>3. r.code \in Code /\ r.code # None
    BY NoneAssumption DEF CoapInv, Typed, Code
<1>4. Typed'
    BY <1>1, <1>2, <1>3 DEF CoapInv, Typed, Busy, SavedName
<1>5. Counted'
    BY <1>1, <1>2, <1>3 DEF CoapInv, Counted
<1>6. Accounted' /\ Ascending' /\ OkMeansSaved'
    BY <1>2, SameFiles DEF CoapInv
<1>7. Truthful'
    BY <1>1, <1>2, <1>6, HeldKept DEF CoapInv, Truthful, filename
<1> QED
    BY <1>4, <1>5, <1>6, <1>7 DEF CoapInv

(* The loop ends without a response only when the last attempt has raised. *)
LEMMA AttemptFailsKeeps ==
    ASSUME CoapInv, AttemptFails, UNCHANGED version
    PROVE  CoapInv'
<1>1. /\ pc = "waiting" /\ attempt' = attempt + 1
      /\ pc' = IF attempt + 1 < MAX_RETRIES THEN "request" ELSE "row"
      /\ UNCHANGED <<files, todo, response, rows, gone, tries, saved, torn,
                     requests, responses>>
    BY DEF AttemptFails, server
<1>2. attempt \in Nat /\ attempt < MAX_RETRIES /\ tries[filename] = attempt + 1
      /\ response = None
    BY <1>1 DEF CoapInv, Typed, Counted
<1>3. Typed'
    BY <1>1, <1>2 DEF CoapInv, Typed, Busy, SavedName
<1>4. Counted'
    BY <1>1, <1>2, RetriesAssumption DEF CoapInv, Counted, filename
<1>5. Accounted' /\ Ascending' /\ OkMeansSaved'
    BY <1>1, SameFiles DEF CoapInv
<1>6. Truthful'
    BY <1>1, <1>2, <1>5, HeldKept, NoneAssumption DEF CoapInv, Truthful
<1> QED
    BY <1>3, <1>4, <1>5, <1>6 DEF CoapInv

LEMMA AllDoneKeeps ==
    ASSUME CoapInv, AllDone, UNCHANGED version
    PROVE  CoapInv'
<1>1. /\ pc = "next" /\ todo = <<>> /\ pc' = "done"
      /\ UNCHANGED <<files, todo, attempt, response, rows, gone, tries, saved,
                     torn, requests, responses>>
    BY DEF AllDone, server
<1>2. Typed'
    BY <1>1 DEF CoapInv, Typed, Busy, SavedName
<1>3. Counted'
    BY <1>1 DEF CoapInv, Counted
<1>4. Accounted' /\ Ascending' /\ OkMeansSaved'
    BY <1>1, SameFiles DEF CoapInv
<1>5. Truthful'
    BY <1>1, <1>4, HeldKept DEF CoapInv, Truthful
<1> QED
    BY <1>2, <1>3, <1>4, <1>5 DEF CoapInv

(* The empty file that ends the program came before every row.             *)
LEMMA DivisionByZeroKeeps ==
    ASSUME CoapInv, DivisionByZero, UNCHANGED version
    PROVE  CoapInv'
<1>1. /\ pc = "row" /\ pc' = "failed" /\ FileSize[filename] = 0
      /\ UNCHANGED <<files, todo, attempt, response, rows, gone, tries, saved,
                     torn, requests, responses>>
    BY DEF DivisionByZero, server
<1>2. filename = todo[1] /\ 1 \in 1 .. Len(todo)
    BY <1>1, TailFacts DEF CoapInv, Typed, Busy, filename
<1>3. version = 2 => rows = <<>>
    BY <1>1, <1>2 DEF CoapInv, Ascending
<1>4. Typed'
    BY <1>1 DEF CoapInv, Typed, Busy, SavedName
<1>5. Counted'
    BY <1>1 DEF CoapInv, Counted
<1>6. Accounted' /\ Ascending' /\ OkMeansSaved'
    BY <1>1, <1>3, SameFiles DEF CoapInv
<1>7. Truthful'
    BY <1>1, <1>6, HeldKept DEF CoapInv, Truthful
<1> QED
    BY <1>4, <1>5, <1>6, <1>7 DEF CoapInv

-----------------------------------------------------------------------------
(* render_put: whatever the server does with a request, a file it holds it *)
(* keeps, or it is known to be torn, and it says 2.04 of none other.       *)
LEMMA RenderPutKeeps ==
    ASSUME CoapInv, RenderPut, UNCHANGED version
    PROVE  CoapInv'
<1>1. /\ UNCHANGED <<version, pc, files, todo, attempt, response, rows, gone, tries>>
      /\ requests' \subseteq requests
    BY DEF RenderPut, client
<1>2. PICK q \in requests :
          \/ RejectPut(q)
          \/ SavePut(q)
          \/ SaveFails(q)
    BY DEF RenderPut
<1>3. q.file \in Files /\ SavedName(q.file) \in DOMAIN saved
    BY DEF CoapInv, Typed
<1>4. PICK code \in Code : Respond(q, code) /\ (code = "2.04" => SavePut(q))
    BY <1>2 DEF RejectPut, SavePut, SaveFails, Code
<1>5. \A r \in responses' :
          \/ r \in responses
          \/ r.file = q.file /\ r.code = code
  <2> DEFINE new == [file |-> q.file, attempt |-> q.attempt, code |-> code]
  <2>1. responses' = responses \cup {new}
    BY <1>4 DEF Respond
  <2>2. new.file = q.file /\ new.code = code
    OBVIOUS
  <2> HIDE DEF new
  <2> QED
    BY <2>1, <2>2
<1>6. Typed'
  <2>1. /\ DOMAIN saved' = DOMAIN saved /\ saved' = [n \in DOMAIN saved' |-> saved'[n]]
    BY <1>2, <1>3 DEF RejectPut, SavePut, SaveFails, server, CoapInv, Typed
  <2> QED
    BY <1>1, <1>3, <1>5, <2>1 DEF CoapInv, Typed, Busy, SavedName
<1>7. \A f \in Files : Held(f) => Held(f)'
  <2> SUFFICES ASSUME NEW f \in Files, Held(f), Carried(f)
               PROVE  saved'[f] = f \/ f \in torn'
    BY <1>1 DEF Held, Carried, SavedName
  <2>1. f \in DOMAIN saved
    BY DEF Carried, CoapInv, Typed
  <2>2. torn \subseteq torn'
    BY <1>2 DEF RejectPut, SavePut, SaveFails, server
  <2>3. CASE SavedName(q.file) = f
    BY <1>2, <1>3, <2>2, <2>3 DEF RejectPut, SavePut, SaveFails, server, Carried, Held
  <2>4. CASE SavedName(q.file) # f
    <3>1. saved'[f] = saved[f]
      BY <1>2, <1>3, <2>1, <2>4 DEF RejectPut, SavePut, SaveFails, server, CoapInv,
         Typed
    <3> QED
      BY <2>2, <3>1 DEF Held
  <2> QED
    BY <2>3, <2>4
<1>8. code = "2.04" => Held(q.file)'
  <2> SUFFICES ASSUME SavePut(q), Carried(q.file)
               PROVE  saved'[q.file] = q.file
    BY <1>1, <1>4 DEF Held, Carried, SavedName
  <2>1. SavedName(q.file) = q.file
    BY DEF Carried
  <2> QED
    BY <1>3, <2>1 DEF SavePut, CoapInv, Typed
<1>9. Truthful'
  <2>1. OkMeansSaved'
    <3>1. ASSUME NEW i \in DOMAIN rows
          PROVE  rows[i].file \in Files
      <4>1. rows \in Seq(Row)
        BY DEF CoapInv, Typed
      <4>2. rows[i] \in Row
        BY <4>1, LenProperties, ElementOfSeq
      <4> QED
        BY <4>2 DEF Row
    <3> QED
      BY <1>1, <1>7, <3>1 DEF CoapInv, Truthful, OkMeansSaved, Held, Carried,
         SavedName
  <2>2. ASSUME NEW r \in responses', r.code = "2.04", NEW f, f = r.file
        PROVE  Held(f)'
    BY <1>3, <1>5, <1>7, <1>8, <2>2 DEF CoapInv, Typed, Truthful
  <2>3. pc = "row" => filename \in Files
    BY TailFacts DEF CoapInv, Typed, Busy, filename
  <2> QED
    BY <1>1, <1>7, <2>1, <2>2, <2>3 DEF CoapInv, Truthful, filename
<1>10. Counted'
    BY <1>1 DEF CoapInv, Counted, filename
<1>11. Accounted' /\ Ascending'
    BY <1>1 DEF CoapInv, Accounted, Explained, Ascending
<1> QED
    BY <1>6, <1>9, <1>10, <1>11 DEF CoapInv

LEMMA NextCoapInv == CoapInv /\ [Next]_vars => CoapInv'
<1> SUFFICES ASSUME CoapInv, [Next]_vars PROVE CoapInv'
    OBVIOUS
<1>1. ASSUME ClientStep, UNCHANGED version PROVE CoapInv'
    BY <1>1, LoadFilesKeeps, FileNotFoundKeeps, OpenFailsKeeps, FileReadKeeps, SendPutKeeps,
       AnsweredKeeps, AttemptFailsKeeps, GiveUpKeeps, WriteRowKeeps,
       DivisionByZeroKeeps, AllDoneKeeps DEF ClientStep
<1>2. ASSUME RenderPut, UNCHANGED version PROVE CoapInv'
    BY <1>2, RenderPutKeeps
<1>3. CASE UNCHANGED vars
  <2>1. UNCHANGED <<version, pc, files, todo, attempt, response, rows, gone, tries,
                    saved, torn, requests, responses>>
    BY <1>3 DEF vars, client, server
  <2>2. Typed'
    BY <2>1 DEF CoapInv, Typed, Busy, SavedName
  <2>3. Truthful'
    BY <2>1, HeldKept DEF CoapInv, Truthful, OkMeansSaved, Carried, SavedName,
       filename
  <2>4. Counted'
    BY <2>1 DEF CoapInv, Counted, filename
  <2>5. Accounted' /\ Ascending'
    BY <2>1 DEF CoapInv, Accounted, Explained, Ascending
  <2> QED
    BY <2>2, <2>3, <2>4, <2>5 DEF CoapInv
<1> QED
    BY <1>1, <1>2, <1>3 DEF Next, Stopped

(* The invariant, for every behaviour of client, server and network.       *)
THEOREM CoapInductive == Spec => []CoapInv
<1>1. Init => CoapInv
    BY InitCoapInv
<1>2. CoapInv /\ [Next]_vars => CoapInv'
    BY NextCoapInv
<1> QED
    BY <1>1, <1>2, PTL DEF Spec

(* A row that says integrity_ok means that the server holds the file under *)
(* its own name, or that a later save of that name failed part-way.        *)
THEOREM OkIsSaved == Spec => []OkMeansSaved
<1>1. CoapInv => OkMeansSaved
    BY DEF CoapInv, Truthful
<1> QED
    BY <1>1, CoapInductive, PTL

(* No file of the batch is dropped without all of its attempts.            *)
THEOREM NothingIsDropped == Spec => []MissingRowExplained
<1>1. CoapInv => MissingRowExplained
  <2> SUFFICES ASSUME CoapInv, pc = "done", NEW f \in ToSet(files)
               PROVE  \/ \E i \in DOMAIN rows : rows[i].file = f
                      \/ f \in gone
                      \/ tries[f] = MAX_RETRIES
    BY DEF MissingRowExplained
  <2>1. todo \in Seq(Files) /\ Len(todo) = 0
    BY EmptySeq DEF CoapInv, Typed
  <2>2. f \notin ToSet(todo)
    <3>1. ~ \E i \in 1 .. Len(todo) : todo[i] = f
      BY <2>1
    <3> QED
      BY <2>1, <3>1, ToSetMembers
  <2>3. DOMAIN rows = 1 .. Len(rows)
    BY LenProperties DEF CoapInv, Typed
  <2> QED
    BY <2>2, <2>3 DEF CoapInv, Accounted, Explained
<1> QED
    BY <1>1, CoapInductive, PTL

(* Version 2 aborts before its first row or not at all.                    *)
THEOREM AbortComesFirst == Spec => []AbortLosesBatch
<1>1. CoapInv => AbortLosesBatch
    BY DEF CoapInv, Ascending, AbortLosesBatch
<1> QED
    BY <1>1, CoapInductive, PTL
=============================================================================
