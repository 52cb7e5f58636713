--------------------------- MODULE RecordsProofs ----------------------------
(***************************************************************************)
(* Proofs about what the clients record: MeasurementLog, for every finite  *)
(* set of writers, whatever they share, and any number of calls and kills; *)
(* ResourceMonitor, for every number of measurements and of samples;       *)
(* PcapAnalysis, for every capture; WireOverhead, for every size.          *)
(***************************************************************************)
EXTENDS MeasurementLog, ResourceMonitor, PcapAnalysis, WireOverhead,
        SequenceTheorems, FunctionTheorems, FiniteSetTheorems,
        WellFoundedInduction, NaturalsInduction, TLAPS

-----------------------------------------------------------------------------
(* MeasurementLog.                                                         *)

Line == {Header(w) : w \in Writer} \cup {Row(w, n) : w \in Writer, n \in Nat}

LogTypeOK ==
    /\ exists \in [Path -> BOOLEAN]
    /\ lines \in [Path -> Seq(Line)]
    /\ at \in [Writer -> {"outside", "looked", "open"}]
    /\ file_exists \in [Writer -> BOOLEAN]
    /\ calls \in [Writer -> Nat]
    /\ dead \subseteq Writer

(* What a writer knows of its file.                                        *)
ExistsWhenOpen ==
    \A w \in Writer :
        at[w] = "open" \/ (at[w] = "looked" /\ file_exists[w])
            => exists[_measurement_file(w)]

EmptyBefore == \A p \in Path : ~exists[p] => lines[p] = <<>>

(* A writer writes a header in its first call only.                        *)
HeaderInFirstCall ==
    \A w \in Writer :
        /\ at[w] # "outside" => calls[w] >= 1
        /\ at[w] # "outside" /\ ~file_exists[w] => calls[w] = 1
        /\ at[w] = "outside" /\ calls[w] >= 1 => exists[_measurement_file(w)]

(* Rows are of calls that have been made, and not of the one going on.     *)
RowsOfCalls ==
    \A p \in Path : \A i \in RowsIn(p) :
        LET w == lines[p][i].writer IN
        /\ w \in Writer /\ lines[p][i].call \in Nat
        /\ lines[p][i].call <= calls[w]
        /\ at[w] # "outside" => lines[p][i].call < calls[w]

(* After a header comes the row of the same writer's first call.           *)
HeaderThenRow ==
    \A p \in Path : \A i \in HeadersIn(p) :
        LET w == lines[p][i + 1].writer IN
        /\ i + 1 \in RowsIn(p) /\ lines[p][i + 1].call = 1
        /\ w \in Writer /\ _measurement_file(w) = p

LogInv ==
    /\ LogTypeOK /\ ExistsWhenOpen /\ EmptyBefore /\ HeaderInFirstCall
    /\ RowsOfCalls /\ HeaderThenRow /\ RowsKept

-----------------------------------------------------------------------------
LEMMA LineFields ==
    ASSUME NEW w \in Writer, NEW n \in Nat
    PROVE  /\ Header(w) \in Line /\ Header(w).kind = "header"
           /\ Row(w, n) \in Line /\ Row(w, n).kind = "row"
           /\ Row(w, n).writer = w /\ Row(w, n).call = n
  BY DEF Header, Row, Line

LEMMA PathOfWriter == \A w \in Writer : _measurement_file(w) \in Path
  BY DEF Path

(* What a call appends: its row at the end, after a header or not.         *)
LEMMA AppendedProperties ==
    ASSUME LogTypeOK, NEW w \in Writer
    PROVE  LET s == lines[_measurement_file(w)]
               t == Appended(w)
               m == IF file_exists[w] THEN Len(s) + 1 ELSE Len(s) + 2
           IN  /\ s \in Seq(Line) /\ Len(s) \in Nat
               /\ t \in Seq(Line) /\ Len(t) = m
               /\ \A i \in 1 .. Len(s) : t[i] = s[i]
               /\ t[m] = Row(w, calls[w])
               /\ ~file_exists[w] => t[Len(s) + 1] = Header(w)
<1> DEFINE s == lines[_measurement_file(w)]
           row == Row(w, calls[w])
           head == Header(w)
<1>1. s \in Seq(Line) /\ Len(s) \in Nat
    BY PathOfWriter DEF LogTypeOK
<1>2. row \in Line /\ head \in Line
    BY LineFields DEF LogTypeOK
<1> HIDE DEF row, head, s
<1>3. CASE file_exists[w]
  <2>1. Appended(w) = s \o (<<>> \o <<row>>)
    BY <1>3 DEF Appended, Output, s, row
  <2>2. <<row>> \in Seq(Line) /\ <<>> \o <<row>> = <<row>>
    BY <1>2, ConcatEmptySeq
  <2>3. Appended(w) = Append(s, row)
    BY <1>1, <1>2, <2>1, <2>2, AppendIsConcat
  <2> QED
    BY <1>1, <1>2, <1>3, <2>3, AppendProperties DEF s, row
<1>4. CASE ~file_exists[w]
  <2>1. Appended(w) = s \o (<<head>> \o <<row>>)
    BY <1>4 DEF Appended, Output, s, row, head
  <2>2. <<row>> \in Seq(Line) /\ <<head>> \in Seq(Line)
    BY <1>2
  <2>3. Appended(w) = (s \o <<head>>) \o <<row>>
    BY <1>1, <2>1, <2>2, ConcatAssociative
  <2>4. s \o <<head>> = Append(s, head) /\ Append(s, head) \in Seq(Line)
    BY <1>1, <1>2, AppendIsConcat, AppendProperties
  <2>5. Appended(w) = Append(Append(s, head), row)
    BY <1>2, <2>3, <2>4, AppendIsConcat
  <2>6. /\ Len(Append(s, head)) = Len(s) + 1
        /\ \A i \in 1 .. Len(s) : Append(s, head)[i] = s[i]
        /\ Append(s, head)[Len(s) + 1] = head
    BY <1>1, <1>2, AppendProperties
  <2>7. /\ Appended(w) \in Seq(Line) /\ Len(Appended(w)) = Len(s) + 2
        /\ \A i \in 1 .. Len(s) + 1 : Appended(w)[i] = Append(s, head)[i]
        /\ Appended(w)[Len(s) + 2] = row
    BY <1>1, <1>2, <2>4, <2>5, <2>6, AppendProperties
  <2> QED
    BY <1>1, <1>4, <2>6, <2>7 DEF s, row, head
<1> QED
    BY <1>3, <1>4

(* The rows and headers of the file a call has closed, and of the others.  *)
LEMMA ClosedFile ==
    ASSUME LogTypeOK, NEW w \in Writer, Close(w)
    PROVE  LET p == _measurement_file(w)
               n == Len(lines[p])
               m == Len(lines'[p])
           IN  /\ p \in Path /\ n \in Nat /\ m > n
               /\ lines'[p] \in Seq(Line)
               /\ RowsIn(p) \subseteq 1 .. n /\ HeadersIn(p) \subseteq 1 .. n
               /\ \A i \in 1 .. n : lines'[p][i] = lines[p][i]
               /\ lines'[p][m] = Row(w, calls[w])
               /\ RowsIn(p)' = RowsIn(p) \cup {m}
               /\ file_exists[w] => HeadersIn(p)' = HeadersIn(p) /\ m = n + 1
               /\ ~file_exists[w] => /\ HeadersIn(p)' = HeadersIn(p) \cup {n + 1}
                                     /\ lines'[p][n + 1] = Header(w)
                                     /\ m = n + 2
               /\ \A q \in Path \ {p} : /\ lines'[q] = lines[q]
                                        /\ RowsIn(q)' = RowsIn(q)
                                        /\ HeadersIn(q)' = HeadersIn(q)
<1> DEFINE p == _measurement_file(w)
           n == Len(lines[p])
           m == Len(lines'[p])
<1>1. p \in Path /\ lines'[p] = Appended(w) /\ \A q \in Path \ {p} : lines'[q] = lines[q]
    BY PathOfWriter DEF Close, LogTypeOK
<1>2. /\ lines[p] \in Seq(Line) /\ n \in Nat /\ lines'[p] \in Seq(Line)
      /\ m = IF file_exists[w] THEN n + 1 ELSE n + 2
      /\ \A i \in 1 .. n : lines'[p][i] = lines[p][i]
      /\ lines'[p][m] = Row(w, calls[w])
      /\ ~file_exists[w] => lines'[p][n + 1] = Header(w)
    BY <1>1, AppendedProperties
<1>3. DOMAIN lines[p] = 1 .. n /\ DOMAIN lines'[p] = 1 .. m
    BY <1>2, LenProperties
<1>4. Row(w, calls[w]).kind = "row" /\ Header(w).kind = "header"
    BY LineFields DEF LogTypeOK
<1> HIDE DEF p, n, m
<1>5. RowsIn(p) = {i \in 1 .. n : lines[p][i].kind = "row"}
      /\ RowsIn(p)' = {i \in 1 .. m : lines'[p][i].kind = "row"}
    BY <1>3 DEF RowsIn, p, _measurement_file
<1>6. HeadersIn(p) = (1 .. n) \ RowsIn(p) /\ HeadersIn(p)' = (1 .. m) \ RowsIn(p)'
    BY <1>3 DEF HeadersIn, p, _measurement_file
<1>7. ASSUME file_exists[w]
      PROVE  /\ m = n + 1 /\ RowsIn(p)' = RowsIn(p) \cup {m}
             /\ HeadersIn(p)' = HeadersIn(p)
  <2>1. m = n + 1 /\ 1 .. m = (1 .. n) \cup {m}
    BY <1>2, <1>7
  <2>2. RowsIn(p)' = RowsIn(p) \cup {m}
    BY <1>2, <1>4, <1>5, <2>1
  <2>3. HeadersIn(p)' = HeadersIn(p)
    BY <1>2, <1>5, <1>6, <2>1, <2>2
  <2> QED
    BY <2>1, <2>2, <2>3
<1>8. ASSUME ~file_exists[w]
      PROVE  /\ m = n + 2 /\ RowsIn(p)' = RowsIn(p) \cup {m}
             /\ HeadersIn(p)' = HeadersIn(p) \cup {n + 1}
  <2>1. m = n + 2 /\ 1 .. m = (1 .. n) \cup {n + 1, m}
    BY <1>2, <1>8
  <2>2. RowsIn(p)' = RowsIn(p) \cup {m}
    BY <1>2, <1>4, <1>5, <1>8, <2>1
  <2>3. HeadersIn(p)' = HeadersIn(p) \cup {n + 1}
    BY <1>2, <1>5, <1>6, <2>1, <2>2
  <2> QED
    BY <2>1, <2>2, <2>3
<1>9. \A q \in Path \ {p} : RowsIn(q)' = RowsIn(q) /\ HeadersIn(q)' = HeadersIn(q)
    BY <1>1 DEF RowsIn, HeadersIn, p
<1> QED
    BY <1>1, <1>2, <1>5, <1>6, <1>7, <1>8, <1>9 DEF p, n, m

-----------------------------------------------------------------------------
LEMMA InitLog == LogInit => LogInv
<1> SUFFICES ASSUME LogInit PROVE LogInv
    OBVIOUS
<1>1. LogTypeOK
    BY DEF LogInit, LogTypeOK
<1>2. \A p \in Path : lines[p] = <<>> /\ RowsIn(p) = {} /\ HeadersIn(p) = {}
    BY DEF LogInit, RowsIn, HeadersIn
<1>3. ExistsWhenOpen /\ EmptyBefore /\ HeaderInFirstCall
    BY <1>2 DEF LogInit, ExistsWhenOpen, EmptyBefore, HeaderInFirstCall
<1>4. RowsOfCalls /\ HeaderThenRow /\ RowsKept
    BY <1>2 DEF LogInit, RowsOfCalls, HeaderThenRow, RowsKept
<1> QED
    BY <1>1, <1>3, <1>4 DEF LogInv

(* A step that writes nothing keeps what is said of the files' lines.      *)
LEMMA LinesKept ==
    ASSUME LogInv, lines' = lines, written' = written, LogTypeOK',
           \A w \in Writer : \/ calls'[w] = calls[w] /\ at'[w] = at[w]
                             \/ calls'[w] = calls[w] /\ at[w] # "outside"
                             \/ calls'[w] = calls[w] + 1
    PROVE  RowsOfCalls' /\ HeaderThenRow' /\ RowsKept'
<1>1. \A p \in Path : RowsIn(p)' = RowsIn(p) /\ HeadersIn(p)' = HeadersIn(p)
    BY DEF RowsIn, HeadersIn
<1>2. RowsOfCalls'
  <2> SUFFICES ASSUME NEW p \in Path, NEW i \in RowsIn(p), NEW w \in Writer,
                      w = lines[p][i].writer
               PROVE  /\ lines[p][i].call <= calls'[w]
                      /\ at'[w] # "outside" => lines[p][i].call < calls'[w]
    BY <1>1 DEF LogInv, RowsOfCalls
  <2>1. calls[w] \in Nat /\ lines[p][i].call \in Nat
    BY DEF LogInv, LogTypeOK, RowsOfCalls
  <2> QED
    BY <2>1 DEF LogInv, RowsOfCalls
<1>3. HeaderThenRow' /\ RowsKept'
    BY <1>1 DEF LogInv, HeaderThenRow, RowsKept
<1> QED
    BY <1>2, <1>3

LEMMA LookKeeps ==
    ASSUME LogInv, NEW w \in Writer, Look(w)
    PROVE  LogInv'
<1>1. /\ at[w] = "outside" /\ at' = [at EXCEPT ![w] = "looked"]
      /\ calls' = [calls EXCEPT ![w] = @ + 1]
      /\ file_exists' = [file_exists EXCEPT ![w] = exists[_measurement_file(w)]]
      /\ UNCHANGED <<exists, lines, written, dead>>
    BY DEF Look, LookAs, Move, Found
<1>2. LogTypeOK'
    BY <1>1, PathOfWriter DEF LogInv, LogTypeOK
<1>3. ExistsWhenOpen' /\ EmptyBefore'
    BY <1>1 DEF LogInv, LogTypeOK, ExistsWhenOpen, EmptyBefore
<1>4. HeaderInFirstCall'
    BY <1>1, PathOfWriter DEF LogInv, LogTypeOK, HeaderInFirstCall
<1>5. RowsOfCalls' /\ HeaderThenRow' /\ RowsKept'
    BY <1>1, <1>2, LinesKept DEF LogInv, LogTypeOK
<1> QED
    BY <1>2, <1>3, <1>4, <1>5 DEF LogInv

LEMMA OpenKeeps ==
    ASSUME LogInv, NEW w \in Writer, Open(w)
    PROVE  LogInv'
<1>1. /\ at[w] = "looked" /\ at' = [at EXCEPT ![w] = "open"]
      /\ exists' = [exists EXCEPT ![_measurement_file(w)] = TRUE]
      /\ UNCHANGED <<lines, file_exists, calls, written, dead>>
    BY DEF Open, Move
<1>2. LogTypeOK'
    BY <1>1 DEF LogInv, LogTypeOK
<1>3. ExistsWhenOpen' /\ EmptyBefore'
    BY <1>1, PathOfWriter DEF LogInv, LogTypeOK, ExistsWhenOpen, EmptyBefore
<1>4. HeaderInFirstCall'
    BY <1>1, PathOfWriter DEF LogInv, LogTypeOK, HeaderInFirstCall
<1>5. RowsOfCalls' /\ HeaderThenRow' /\ RowsKept'
    BY <1>1, <1>2, LinesKept DEF LogInv, LogTypeOK
<1> QED
    BY <1>2, <1>3, <1>4, <1>5 DEF LogInv

LEMMA KillKeeps ==
    ASSUME LogInv, NEW w \in Writer, Kill(w)
    PROVE  LogInv'
<1>1. /\ UNCHANGED <<exists, lines, at, file_exists, calls, written>>
      /\ dead' = dead \cup {w}
    BY DEF Kill
<1>2. LogTypeOK' /\ ExistsWhenOpen' /\ EmptyBefore' /\ HeaderInFirstCall'
    BY <1>1 DEF LogInv, LogTypeOK, ExistsWhenOpen, EmptyBefore, HeaderInFirstCall
<1>3. RowsOfCalls' /\ HeaderThenRow' /\ RowsKept'
    BY <1>1, <1>2, LinesKept
<1> QED
    BY <1>2, <1>3 DEF LogInv

(* The new row is the last of its file and of its writer's calls.          *)
LEMMA CloseKeeps ==
    ASSUME LogInv, NEW w \in Writer, Close(w)
    PROVE  LogInv'
<1> DEFINE p == _measurement_file(w)
           n == Len(lines[p])
           m == Len(lines'[p])
           row == Row(w, calls[w])
<1>1. /\ at[w] = "open" /\ at' = [at EXCEPT ![w] = "outside"]
      /\ written' = written \cup {row}
      /\ lines' = [lines EXCEPT ![p] = Appended(w)]
      /\ UNCHANGED <<exists, file_exists, calls, dead>>
    BY DEF Close, Move
<1>2. /\ p \in Path /\ n \in Nat /\ m > n
      /\ lines'[p] \in Seq(Line)
      /\ RowsIn(p) \subseteq 1 .. n /\ HeadersIn(p) \subseteq 1 .. n
      /\ \A i \in 1 .. n : lines'[p][i] = lines[p][i]
      /\ lines'[p][m] = row
      /\ RowsIn(p)' = RowsIn(p) \cup {m}
      /\ file_exists[w] => HeadersIn(p)' = HeadersIn(p) /\ m = n + 1
      /\ ~file_exists[w] => /\ HeadersIn(p)' = HeadersIn(p) \cup {n + 1}
                            /\ m = n + 2
      /\ \A q \in Path \ {p} : /\ lines'[q] = lines[q]
                               /\ RowsIn(q)' = RowsIn(q)
                               /\ HeadersIn(q)' = HeadersIn(q)
    BY ClosedFile DEF LogInv
<1>3. calls[w] \in Nat /\ row.writer = w /\ row.call = calls[w] /\ calls[w] >= 1
    BY <1>1, LineFields DEF LogInv, LogTypeOK, HeaderInFirstCall
<1>4. exists[p]
    BY <1>1 DEF LogInv, ExistsWhenOpen
<1> HIDE DEF p, n, m, row
<1>5. LogTypeOK'
  <2>1. Appended(w) \in Seq(Line)
    BY AppendedProperties DEF LogInv
  <2> QED
    BY <1>1, <2>1 DEF LogInv, LogTypeOK
<1>6. ExistsWhenOpen'
    BY <1>1 DEF LogInv, LogTypeOK, ExistsWhenOpen
<1>7. EmptyBefore'
    BY <1>1, <1>2, <1>4 DEF LogInv, EmptyBefore
<1>8. HeaderInFirstCall'
    BY <1>1, <1>4 DEF LogInv, LogTypeOK, HeaderInFirstCall, p
<1>9. RowsOfCalls'
  <2> SUFFICES ASSUME NEW q \in Path, NEW i \in RowsIn(q)'
               PROVE  LET v == lines'[q][i].writer IN
                      /\ v \in Writer /\ lines'[q][i].call \in Nat
                      /\ lines'[q][i].call <= calls[v]
                      /\ at'[v] # "outside" => lines'[q][i].call < calls[v]
    BY <1>1 DEF RowsOfCalls
  <2>1. CASE i \in RowsIn(q) /\ lines'[q][i] = lines[q][i]
    BY <1>1, <2>1 DEF LogInv, LogTypeOK, RowsOfCalls
  <2>2. CASE q = p /\ i = m
    BY <1>1, <1>2, <1>3, <2>2 DEF LogInv, LogTypeOK
  <2> QED
    BY <1>2, <2>1, <2>2
<1>10. HeaderThenRow'
  <2> SUFFICES ASSUME NEW q \in Path, NEW i \in HeadersIn(q)'
               PROVE  LET v == lines'[q][i + 1].writer IN
                      /\ i + 1 \in RowsIn(q)' /\ lines'[q][i + 1].call = 1
                      /\ v \in Writer /\ _measurement_file(v) = q
    BY DEF HeaderThenRow, _measurement_file
  <2>1. CASE q # p
    BY <1>2, <2>1 DEF LogInv, HeaderThenRow
  <2>2. CASE q = p /\ i \in HeadersIn(p)
    <3>1. i + 1 \in RowsIn(p)
      BY <2>2 DEF LogInv, HeaderThenRow
    <3>2. lines'[p][i + 1] = lines[p][i + 1] /\ i + 1 \in RowsIn(p)'
      BY <1>2, <3>1
    <3> QED
      BY <2>2, <3>2 DEF LogInv, HeaderThenRow
  <2>3. CASE q = p /\ i \notin HeadersIn(p)
    <3>1. ~file_exists[w] /\ i = n + 1 /\ m = i + 1
      BY <1>2, <2>3
    <3>2. calls[w] = 1
      BY <1>1, <3>1 DEF LogInv, HeaderInFirstCall
    <3> QED
      BY <1>2, <1>3, <2>3, <3>1, <3>2 DEF p
  <2> QED
    BY <2>1, <2>2, <2>3
<1>11. RowsKept'
  <2>1. \A x : x \in written <=> \E q \in Path : \E i \in RowsIn(q) : x = lines[q][i]
    BY DEF LogInv, RowsKept
  <2>2. \A x : x \in written' <=> \E q \in Path : \E i \in RowsIn(q)' : x = lines'[q][i]
    <3>1. ASSUME NEW x \in written'
          PROVE  \E q \in Path : \E i \in RowsIn(q)' : x = lines'[q][i]
      <4>1. CASE x = row
        BY <1>2, <4>1
      <4>2. CASE x \in written
        <5>1. PICK q \in Path : \E i \in RowsIn(q) : x = lines[q][i]
          BY <2>1, <4>2
        <5>3. PICK i \in RowsIn(q) : x = lines[q][i]
          BY <5>1
        <5>2. i \in RowsIn(q)' /\ lines'[q][i] = lines[q][i]
          BY <1>2
        <5> QED
          BY <5>2, <5>3
      <4> QED
        BY <1>1, <4>1, <4>2
    <3>2. ASSUME NEW q \in Path, NEW i \in RowsIn(q)'
          PROVE  lines'[q][i] \in written'
      <4>1. CASE i \in RowsIn(q) /\ lines'[q][i] = lines[q][i]
        BY <1>1, <2>1, <4>1
      <4>2. CASE q = p /\ i = m
        BY <1>1, <1>2, <4>2
      <4> QED
        BY <1>2, <4>1, <4>2
    <3> QED
      BY <3>1, <3>2
  <2>3. written' = UNION {{lines'[q][i] : i \in RowsIn(q)'} : q \in Path}
    BY <2>2
  <2>4. ASSUME NEW q \in Path, NEW i \in RowsIn(q)', NEW k \in RowsIn(q)',
               lines'[q][i].writer = lines'[q][k].writer, i < k
        PROVE  lines'[q][i].call < lines'[q][k].call
    <3>1. CASE q # p
      BY <1>2, <2>4, <3>1 DEF LogInv, RowsKept
    <3>2. CASE q = p /\ k # m
      <4>1. k \in 1 .. n /\ k \in RowsIn(p) /\ i \in RowsIn(p)
        BY <1>2, <2>4, <3>2
      <4> QED
        BY <1>2, <2>4, <3>2, <4>1 DEF LogInv, RowsKept
    <3>3. CASE q = p /\ k = m
      <4>1. i \in RowsIn(p) /\ lines'[p][i] = lines[p][i]
        BY <1>2, <2>4, <3>3
      <4>2. lines[p][i].writer = w
        BY <1>2, <1>3, <2>4, <3>3, <4>1
      <4>3. lines[p][i].call < calls[w]
        BY <1>1, <1>2, <4>1, <4>2 DEF LogInv, RowsOfCalls
      <4> QED
        BY <1>2, <1>3, <3>3, <4>1, <4>3
    <3> QED
      BY <3>1, <3>2, <3>3
  <2> QED
    BY <2>3, <2>4 DEF RowsKept
<1> QED
    BY <1>5, <1>6, <1>7, <1>8, <1>9, <1>10, <1>11 DEF LogInv

LEMMA LogInductive == LogSpec => []LogInv
<1>1. LogInit => LogInv
    BY InitLog
<1>2. LogInv /\ [LogNext]_logVars => LogInv'
  <2> SUFFICES ASSUME LogInv, [LogNext]_logVars PROVE LogInv'
    OBVIOUS
  <2>1. ASSUME NEW w \in Writer, Look(w) \/ Open(w) \/ Close(w) \/ Kill(w)
        PROVE  LogInv'
    BY <2>1, LookKeeps, OpenKeeps, CloseKeeps, KillKeeps
  <2>2. CASE UNCHANGED logVars
    BY <2>2 DEF logVars, LogInv, LogTypeOK, ExistsWhenOpen, EmptyBefore,
         HeaderInFirstCall, RowsOfCalls, HeaderThenRow, RowsKept, RowsIn, HeadersIn
  <2> QED
    BY <2>1, <2>2 DEF LogNext
<1> QED
    BY <1>1, <1>2, PTL DEF LogSpec

(* write_csv.py:16-22.  However the calls of any number of processes are   *)
(* interleaved, every call that returned has its row in its file, once.    *)
THEOREM NoRowIsLost == LogSpec => []RowsKept
<1>1. LogInv => RowsKept
    BY DEF LogInv
<1> QED
    BY <1>1, LogInductive, PTL

(* Every header stands before the row of the first call of a writer, and   *)
(* writers have one first call each.                                       *)
THEOREM OneHeaderEach == LogSpec => []HeadersBounded
<1>1. LogInv => HeadersBounded
  <2> SUFFICES ASSUME LogInv, NEW p \in Path
               PROVE  Cardinality(HeadersIn(p))
                        <= Cardinality({w \in Writer : _measurement_file(w) = p})
    BY DEF HeadersBounded
  <2> DEFINE S == HeadersIn(p)
             T == {w \in Writer : _measurement_file(w) = p}
             f == [i \in S |-> lines[p][i + 1].writer]
  <2>1. IsFiniteSet(T)
    BY WriterAssumption, FS_Subset
  <2>2. \A i \in S : i \in Int
    <3>1. lines[p] \in Seq(Line)
      BY DEF LogInv, LogTypeOK
    <3> QED
      BY <3>1, LenProperties DEF HeadersIn
  <2>3. f \in [S -> T]
    BY DEF LogInv, HeaderThenRow
  <2>4. ASSUME NEW i \in S, NEW k \in S, f[i] = f[k] PROVE i = k
    <3>1. /\ i + 1 \in RowsIn(p) /\ k + 1 \in RowsIn(p)
          /\ lines[p][i + 1].call = 1 /\ lines[p][k + 1].call = 1
          /\ lines[p][i + 1].writer = lines[p][k + 1].writer
      BY <2>4 DEF LogInv, HeaderThenRow
    <3>2. ~(i + 1 < k + 1) /\ ~(k + 1 < i + 1)
      BY <3>1 DEF LogInv, RowsKept
    <3> QED
      BY <2>2, <3>2
  <2>5. f \in Injection(S, T)
    BY <2>3, <2>4 DEF Injection, IsInjective
  <2> QED
    BY <2>1, <2>5, FS_Injection
<1> QED
    BY <1>1, LogInductive, PTL

-----------------------------------------------------------------------------
(* A writer that created the file and died before it closed it.            *)
DiedCreating(p) ==
    \E w \in dead : at[w] = "open" /\ _measurement_file(w) = p /\ ~file_exists[w]

(* While a writer is creating a file, and no two overlap, no other is at   *)
(* that file, which is still empty.                                        *)
LoneCreator ==
    \A v \in Writer : Creating(v) /\ _measurement_file(v) \notin overlapped =>
        /\ lines[_measurement_file(v)] = <<>>
        /\ \A w \in Writer \ {v} :
              w \notin dead /\ _measurement_file(w) = _measurement_file(v)
                  => at[w] = "outside"

(* An empty file is one that a writer is creating.                         *)
EmptyIsBeingCreated ==
    \A p \in Path \ overlapped :
        exists[p] /\ lines[p] = <<>> /\ ~DiedCreating(p) =>
            \E v \in Writer : /\ Creating(v) /\ at[v] = "open"
                              /\ _measurement_file(v) = p

OneHeader ==
    \A p \in Path \ overlapped :
        lines[p] # <<>> /\ ~DiedCreating(p) =>
            HeadersIn(p) = {1} /\ lines[p][1] = Header(lines[p][2].writer)

HeaderInv == LoneCreator /\ EmptyIsBeingCreated /\ OneHeader

LEMMA LookKeepsHeader ==
    ASSUME LogInv, HeaderInv, NEW w \in Writer, Look(w)
    PROVE  HeaderInv'
<1> DEFINE p == _measurement_file(w)
<1>1. /\ w \notin dead /\ at[w] = "outside" /\ at' = [at EXCEPT ![w] = "looked"]
      /\ file_exists' = [file_exists EXCEPT ![w] = exists[p]]
      /\ UNCHANGED <<exists, lines, dead>>
    BY DEF Look, LookAs, Move, Found
<1>2. /\ overlapped \subseteq overlapped'
      /\ \A v \in Writer : Creating(v) /\ _measurement_file(v) = p => p \in overlapped'
    BY DEF Look, LookAs
<1>3. \A v \in Writer \ {w} : Creating(v)' <=> Creating(v)
    BY <1>1 DEF LogInv, LogTypeOK, Creating
<1>4. \A q \in Path : DiedCreating(q)' <=> DiedCreating(q)
    BY <1>1 DEF LogInv, LogTypeOK, DiedCreating
<1>5. LoneCreator'
  <2> SUFFICES ASSUME NEW v \in Writer, Creating(v)',
                      _measurement_file(v) \notin overlapped'
               PROVE  /\ lines[_measurement_file(v)] = <<>>
                      /\ \A u \in Writer \ {v} :
                            u \notin dead /\ _measurement_file(u) = _measurement_file(v)
                                => at'[u] = "outside"
    BY <1>1 DEF LoneCreator, _measurement_file
  <2>1. CASE v # w
    <3>1. Creating(v) /\ _measurement_file(v) # p
      BY <1>2, <1>3, <2>1
    <3> QED
      BY <1>1, <1>2, <3>1 DEF HeaderInv, LoneCreator, LogInv, LogTypeOK
  <2>2. CASE v = w
    <3>1. p \in Path /\ ~exists[p]
      BY <1>1, <2>2, PathOfWriter DEF Creating, LogInv, LogTypeOK
    <3>2. lines[p] = <<>>
      BY <3>1 DEF LogInv, EmptyBefore
    <3>3. ASSUME NEW u \in Writer \ {w}, u \notin dead, _measurement_file(u) = p,
                 at[u] # "outside"
          PROVE  FALSE
      <4>1. ~file_exists[u]
        BY <3>1, <3>3 DEF LogInv, LogTypeOK, ExistsWhenOpen
      <4>2. Creating(u)
        BY <3>3, <4>1 DEF Creating
      <4> QED
        BY <1>2, <2>2, <3>3, <4>2
    <3> QED
      BY <1>1, <2>2, <3>2, <3>3 DEF LogInv, LogTypeOK
  <2> QED
    BY <2>1, <2>2
<1>6. EmptyIsBeingCreated'
  <2> SUFFICES ASSUME NEW q \in Path \ overlapped', exists[q], lines[q] = <<>>,
                      ~DiedCreating(q)
               PROVE  \E v \in Writer : /\ Creating(v)' /\ at'[v] = "open"
                                        /\ _measurement_file(v) = q
    BY <1>1, <1>4 DEF EmptyIsBeingCreated, _measurement_file
  <2>1. PICK v \in Writer : /\ Creating(v) /\ at[v] = "open"
                            /\ _measurement_file(v) = q
    BY <1>2 DEF HeaderInv, EmptyIsBeingCreated
  <2> QED
    BY <1>1, <1>3, <2>1 DEF LogInv, LogTypeOK
<1>7. OneHeader'
    BY <1>1, <1>2, <1>4 DEF HeaderInv, OneHeader, HeadersIn, RowsIn
<1> QED
    BY <1>5, <1>6, <1>7 DEF HeaderInv

LEMMA OpenKeepsHeader ==
    ASSUME LogInv, HeaderInv, NEW w \in Writer, Open(w)
    PROVE  HeaderInv'
<1> DEFINE p == _measurement_file(w)
<1>1. /\ w \notin dead /\ at[w] = "looked" /\ at' = [at EXCEPT ![w] = "open"]
      /\ exists' = [exists EXCEPT ![p] = TRUE]
      /\ UNCHANGED <<lines, file_exists, overlapped, dead>>
    BY DEF Open, Move
<1>2. p \in Path
    BY PathOfWriter
<1>3. \A v \in Writer : Creating(v)' <=> Creating(v)
    BY <1>1 DEF LogInv, LogTypeOK, Creating
<1>4. \A q \in Path : DiedCreating(q)' <=> DiedCreating(q)
    BY <1>1 DEF LogInv, LogTypeOK, DiedCreating
<1>5. LoneCreator'
    BY <1>1, <1>3 DEF HeaderInv, LoneCreator, LogInv, LogTypeOK, _measurement_file
<1>6. EmptyIsBeingCreated'
  <2> SUFFICES ASSUME NEW q \in Path \ overlapped, exists'[q], lines[q] = <<>>,
                      ~DiedCreating(q)
               PROVE  \E v \in Writer : /\ Creating(v) /\ at'[v] = "open"
                                        /\ _measurement_file(v) = q
    BY <1>1, <1>3, <1>4 DEF EmptyIsBeingCreated, _measurement_file
  <2>1. CASE exists[q]
    <3>1. PICK v \in Writer : /\ Creating(v) /\ at[v] = "open"
                              /\ _measurement_file(v) = q
      BY <2>1 DEF HeaderInv, EmptyIsBeingCreated
    <3> QED
      BY <1>1, <3>1 DEF LogInv, LogTypeOK
  <2>2. CASE ~exists[q]
    <3>1. q = p
      BY <1>1, <2>2 DEF LogInv, LogTypeOK
    <3>2. ~file_exists[w]
      BY <1>1, <2>2, <3>1 DEF LogInv, LogTypeOK, ExistsWhenOpen
    <3> QED
      BY <1>1, <3>1, <3>2 DEF Creating, LogInv, LogTypeOK
  <2> QED
    BY <2>1, <2>2
<1>7. OneHeader'
    BY <1>1, <1>4 DEF HeaderInv, OneHeader, HeadersIn, RowsIn
<1> QED
    BY <1>5, <1>6, <1>7 DEF HeaderInv

(* The writer that has created the file writes first, with the header; the *)
(* others find that there is something.                                    *)
LEMMA CloseKeepsHeader ==
    ASSUME LogInv, HeaderInv, NEW w \in Writer, Close(w)
    PROVE  HeaderInv'
<1> DEFINE p == _measurement_file(w)
           n == Len(lines[p])
           m == Len(lines'[p])
<1>1. /\ w \notin dead /\ at[w] = "open" /\ at' = [at EXCEPT ![w] = "outside"]
      /\ UNCHANGED <<exists, file_exists, overlapped, dead>>
    BY DEF Close, Move
<1>2. /\ p \in Path /\ n \in Nat /\ m > n
      /\ RowsIn(p) \subseteq 1 .. n /\ HeadersIn(p) \subseteq 1 .. n
      /\ \A i \in 1 .. n : lines'[p][i] = lines[p][i]
      /\ lines'[p][m] = Row(w, calls[w])
      /\ file_exists[w] => HeadersIn(p)' = HeadersIn(p) /\ m = n + 1
      /\ ~file_exists[w] => /\ HeadersIn(p)' = HeadersIn(p) \cup {n + 1}
                            /\ lines'[p][n + 1] = Header(w) /\ m = n + 2
      /\ \A q \in Path \ {p} : /\ lines'[q] = lines[q]
                               /\ RowsIn(q)' = RowsIn(q)
                               /\ HeadersIn(q)' = HeadersIn(q)
    BY ClosedFile DEF LogInv
<1>3. Row(w, calls[w]).writer = w
    BY LineFields DEF LogInv, LogTypeOK
<1>4. exists[p]
    BY <1>1 DEF LogInv, ExistsWhenOpen
<1>5. lines'[p] # <<>>
    BY <1>2
<1> HIDE DEF n, m
<1>6. \A v \in Writer : Creating(v)' => Creating(v) /\ v # w
    BY <1>1 DEF LogInv, LogTypeOK, Creating
<1>7. \A q \in Path : DiedCreating(q)' <=> DiedCreating(q)
    BY <1>1 DEF LogInv, LogTypeOK, DiedCreating
<1>8. \A v \in Writer : v # w /\ Creating(v) /\ p \notin overlapped
                            => _measurement_file(v) # p
    BY <1>1 DEF HeaderInv, LoneCreator
<1>9. LoneCreator'
  <2> SUFFICES ASSUME NEW v \in Writer, Creating(v)',
                      _measurement_file(v) \notin overlapped
               PROVE  /\ lines'[_measurement_file(v)] = <<>>
                      /\ \A u \in Writer \ {v} :
                            u \notin dead /\ _measurement_file(u) = _measurement_file(v)
                                => at'[u] = "outside"
    BY <1>1 DEF LoneCreator, _measurement_file
  <2>1. Creating(v) /\ v # w /\ _measurement_file(v) # p
    BY <1>6, <1>8
  <2> QED
    BY <1>1, <1>2, <2>1, PathOfWriter
    DEF HeaderInv, LoneCreator, LogInv, LogTypeOK
<1>10. EmptyIsBeingCreated'
  <2> SUFFICES ASSUME NEW q \in Path \ overlapped, exists[q], lines'[q] = <<>>,
                      ~DiedCreating(q)
               PROVE  \E v \in Writer : /\ Creating(v)' /\ at'[v] = "open"
                                        /\ _measurement_file(v) = q
    BY <1>1, <1>7 DEF EmptyIsBeingCreated, _measurement_file
  <2>1. q # p /\ lines[q] = <<>>
    BY <1>2, <1>5
  <2>2. PICK v \in Writer : /\ Creating(v) /\ at[v] = "open"
                            /\ _measurement_file(v) = q
    BY <2>1 DEF HeaderInv, EmptyIsBeingCreated
  <2> QED
    BY <1>1, <2>1, <2>2 DEF Creating, LogInv, LogTypeOK
<1>11. OneHeader'
  <2> SUFFICES ASSUME NEW q \in Path \ overlapped, lines'[q] # <<>>, ~DiedCreating(q)
               PROVE  HeadersIn(q)' = {1} /\ lines'[q][1] = Header(lines'[q][2].writer)
    BY <1>1, <1>7 DEF OneHeader
  <2>1. CASE q # p
    BY <1>2, <2>1 DEF HeaderInv, OneHeader
  <2>2. CASE q = p /\ ~file_exists[w]
    <3>1. Creating(w)
      BY <1>1, <2>2 DEF Creating
    <3>2. n = 0 /\ HeadersIn(p) = {}
      BY <1>2, <2>2, <3>1 DEF HeaderInv, LoneCreator, n
    <3> QED
      BY <1>2, <1>3, <2>2, <3>2
  <2>3. CASE q = p /\ file_exists[w]
    <3>1. ~(\E v \in Writer : /\ Creating(v) /\ at[v] = "open"
                              /\ _measurement_file(v) = p)
      BY <1>8, <2>3 DEF Creating
    <3>2. lines[p] # <<>>
      BY <1>4, <2>3, <3>1 DEF HeaderInv, EmptyIsBeingCreated
    <3>3. HeadersIn(p) = {1} /\ lines[p][1] = Header(lines[p][2].writer)
      BY <2>3, <3>2 DEF HeaderInv, OneHeader
    <3>4. 1 + 1 \in RowsIn(p)
      BY <1>2, <3>3 DEF LogInv, HeaderThenRow
    <3>5. lines'[p][1] = lines[p][1] /\ lines'[p][2] = lines[p][2]
      BY <1>2, <3>3, <3>4
    <3> QED
      BY <1>2, <2>3, <3>3, <3>5
  <2> QED
    BY <2>1, <2>2, <2>3
<1> QED
    BY <1>9, <1>10, <1>11 DEF HeaderInv

LEMMA KillKeepsHeader ==
    ASSUME LogInv, HeaderInv, NEW w \in Writer, Kill(w)
    PROVE  HeaderInv'
<1>1. /\ w \notin dead /\ dead' = dead \cup {w}
      /\ UNCHANGED <<exists, lines, at, file_exists, overlapped>>
    BY DEF Kill
<1>2. /\ \A v \in Writer : Creating(v)' => Creating(v)
      /\ \A v \in Writer \ {w} : Creating(v) => Creating(v)'
      /\ \A q \in Path : DiedCreating(q) => DiedCreating(q)'
    BY <1>1 DEF Creating, DiedCreating, _measurement_file
<1>3. LoneCreator'
    BY <1>1, <1>2 DEF HeaderInv, LoneCreator, _measurement_file
<1>4. EmptyIsBeingCreated'
  <2> SUFFICES ASSUME NEW q \in Path \ overlapped, exists[q], lines[q] = <<>>,
                      ~DiedCreating(q)'
               PROVE  \E v \in Writer : /\ Creating(v)' /\ at[v] = "open"
                                        /\ _measurement_file(v) = q
    BY <1>1 DEF EmptyIsBeingCreated, _measurement_file
  <2>1. PICK v \in Writer : /\ Creating(v) /\ at[v] = "open"
                            /\ _measurement_file(v) = q
    BY <1>2 DEF HeaderInv, EmptyIsBeingCreated
  <2>2. v # w
    BY <1>1, <2>1 DEF DiedCreating, Creating, _measurement_file
  <2> QED
    BY <1>2, <2>1, <2>2
<1>5. OneHeader'
    BY <1>1, <1>2 DEF HeaderInv, OneHeader, HeadersIn, RowsIn
<1> QED
    BY <1>3, <1>4, <1>5 DEF HeaderInv

LEMMA HeaderInductive == LogSpec => []HeaderInv
<1>1. LogInit => HeaderInv
  <2> SUFFICES ASSUME LogInit PROVE HeaderInv
    OBVIOUS
  <2>1. \A v \in Writer : ~Creating(v)
    BY DEF LogInit, Creating
  <2>2. LoneCreator /\ EmptyIsBeingCreated /\ OneHeader
    BY <2>1 DEF LogInit, LoneCreator, EmptyIsBeingCreated, OneHeader
  <2> QED
    BY <2>2 DEF HeaderInv
<1>2. LogInv /\ HeaderInv /\ [LogNext]_logVars => HeaderInv'
  <2> SUFFICES ASSUME LogInv, HeaderInv, [LogNext]_logVars PROVE HeaderInv'
    OBVIOUS
  <2>1. ASSUME NEW w \in Writer, Look(w) \/ Open(w) \/ Close(w) \/ Kill(w)
        PROVE  HeaderInv'
    BY <2>1, LookKeepsHeader, OpenKeepsHeader, CloseKeepsHeader, KillKeepsHeader
  <2>2. CASE UNCHANGED logVars
    BY <2>2 DEF logVars, HeaderInv, LoneCreator, EmptyIsBeingCreated, OneHeader,
                Creating, DiedCreating, RowsIn, HeadersIn, _measurement_file
  <2> QED
    BY <2>1, <2>2 DEF LogNext
<1> QED
    BY <1>1, <1>2, LogInductive, PTL DEF LogSpec

(* write_csv.py:14-22.  A file that no two calls created at once, and that *)
(* no process died creating, begins with its header and has no other.      *)
THEOREM HeaderComesFirst == LogSpec => []OneHeaderFirst
<1>1. LogInv /\ HeaderInv => OneHeaderFirst
    BY DEF LogInv, LogTypeOK, HeaderInv, OneHeader, OneHeaderFirst, DiedCreating
<1> QED
    BY <1>1, LogInductive, HeaderInductive, PTL

-----------------------------------------------------------------------------
(* ResourceMonitor.                                                        *)

Places == {"none", "test", "sample", "half", "ended"}
Sample == [by : Runs]

MonitorTypeOK ==
    /\ thread \in [Runs -> Places]
    /\ cpu_samples \in Seq(Sample) /\ rss_samples \in Seq(Sample)

(* Only the thread of this run samples, while its run is on.               *)
OneSampler ==
    \A r \in Runs :
        thread[r] \in {"none", "ended"} \/ (r = run /\ pc \in {"working", "join"})

Half == \E r \in Runs : thread[r] = "half"

(* The lists are of this run, and of one length but between two appends.   *)
ListsOfOneRun ==
    /\ \A i \in 1 .. Len(cpu_samples) : cpu_samples[i].by = run
    /\ Half => Len(cpu_samples) = Len(rss_samples) + 1
    /\ ~Half => Len(cpu_samples) = Len(rss_samples)

Whole ==
    /\ stats.sample_count = stats.rss_count
    /\ stats.sample_count = stats.averaged
    /\ ~stats.foreign

(* resource_monitor.py:60-65.  As long as every join has seen its thread   *)
(* end, one thread at most is sampling, and nothing is added between the   *)
(* average and the length of the list.                                     *)
MonitorInv ==
    /\ MonitorTypeOK
    /\ ~overstayed =>
          /\ OneSampler /\ ListsOfOneRun /\ Whole
          /\ pc = "report" => summed = Len(cpu_samples)

LEMMA InitMonitor == MonitorInit => MonitorInv
  BY DEF MonitorInit, MonitorInv, MonitorTypeOK, OneSampler, ListsOfOneRun, Half,
         Whole, NoStats, Places

(* start() finds no thread, and empties both lists.                        *)
LEMMA StartKeeps == MonitorInv /\ start => MonitorInv'
<1> SUFFICES ASSUME MonitorInv, start PROVE MonitorInv'
    OBVIOUS
<1>1. MonitorTypeOK'
  <2>1. thread' \in [Runs -> Places]
    BY DEF MonitorInv, MonitorTypeOK, start, Places
  <2>2. cpu_samples' = <<>> /\ rss_samples' = <<>>
    BY DEF start, ClearLists
  <2> QED
    BY <2>1, <2>2 DEF MonitorTypeOK
<1>2. ASSUME ~overstayed PROVE OneSampler' /\ ~Half'
    BY <1>2 DEF MonitorInv, MonitorTypeOK, OneSampler, Half, start
<1>3. ASSUME ~overstayed PROVE ListsOfOneRun'
  <2>1. cpu_samples' = <<>> /\ rss_samples' = <<>>
    BY DEF start, ClearLists
  <2> QED
    BY <1>2, <1>3, <2>1 DEF ListsOfOneRun
<1> QED
    BY <1>1, <1>2, <1>3 DEF MonitorInv, start, Whole

LEMMA StopKeeps == MonitorInv /\ stop => MonitorInv'
  BY DEF MonitorInv, MonitorTypeOK, OneSampler, ListsOfOneRun, Half, Whole, stop

(* A join that does not time out has seen the only sampler end.            *)
LEMMA JoinKeeps == MonitorInv /\ Join => MonitorInv'
<1> SUFFICES ASSUME MonitorInv, Join PROVE MonitorInv'
    OBVIOUS
<1>1. MonitorTypeOK'
    BY DEF MonitorInv, MonitorTypeOK, Join
<1>2. ASSUME ~overstayed' PROVE ~overstayed /\ OneSampler'
    BY <1>2 DEF MonitorInv, OneSampler, Join
<1> QED
    BY <1>1, <1>2 DEF MonitorInv, ListsOfOneRun, Half, Whole, Join

LEMMA AverageKeeps == MonitorInv /\ Average => MonitorInv'
  BY DEF MonitorInv, MonitorTypeOK, OneSampler, ListsOfOneRun, Half, Whole, Average

(* Nobody samples any more when stop() reads the lists.                    *)
LEMMA ReportKeeps == MonitorInv /\ Report => MonitorInv'
<1> SUFFICES ASSUME MonitorInv, Report PROVE MonitorInv'
    OBVIOUS
<1>1. MonitorTypeOK'
    BY DEF MonitorInv, MonitorTypeOK, Report
<1>2. ASSUME ~overstayed PROVE Whole'
  <2>1. ~Half
    BY <1>2 DEF MonitorInv, OneSampler, Half, Report
  <2>2. Len(cpu_samples) = Len(rss_samples) /\ summed = Len(cpu_samples)
    BY <1>2, <2>1 DEF MonitorInv, ListsOfOneRun, Report
  <2>3. DOMAIN cpu_samples = 1 .. Len(cpu_samples)
    BY DEF MonitorInv, MonitorTypeOK
  <2>4. ~(\E i \in DOMAIN cpu_samples : cpu_samples[i].by # run)
    BY <1>2, <2>3 DEF MonitorInv, ListsOfOneRun
  <2> QED
    BY <2>2, <2>4 DEF Whole, Report
<1> QED
    BY <1>1, <1>2 DEF MonitorInv, OneSampler, ListsOfOneRun, Half, Report

LEMMA TestEventKeeps ==
    ASSUME MonitorInv, NEW r \in Runs, TestEvent(r)
    PROVE  MonitorInv'
<1>1. MonitorTypeOK'
    BY DEF MonitorInv, MonitorTypeOK, TestEvent, Goto, Places
<1>2. ASSUME ~overstayed PROVE OneSampler'
    BY <1>2 DEF MonitorInv, MonitorTypeOK, OneSampler, TestEvent, Goto, caller
<1>3. Half' <=> Half
    BY DEF MonitorInv, MonitorTypeOK, Half, TestEvent, Goto
<1> QED
    BY <1>1, <1>2, <1>3 DEF MonitorInv, ListsOfOneRun, Whole, TestEvent, caller

(* The first list is one ahead, and the sample is of this run.             *)
LEMMA AppendCpuKeeps ==
    ASSUME MonitorInv, NEW r \in Runs, AppendCpu(r)
    PROVE  MonitorInv'
<1>1. [by |-> r] \in Sample /\ cpu_samples \in Seq(Sample) /\ rss_samples \in Seq(Sample)
    BY DEF Sample, MonitorInv, MonitorTypeOK
<1> DEFINE longer == Append(cpu_samples, [by |-> r])
<1>2. /\ longer \in Seq(Sample) /\ Len(longer) = Len(cpu_samples) + 1
      /\ \A i \in 1 .. Len(cpu_samples) : longer[i] = cpu_samples[i]
      /\ longer[Len(cpu_samples) + 1] = [by |-> r]
    BY <1>1, AppendProperties
<1> HIDE DEF longer
<1>3. cpu_samples' = longer /\ rss_samples' = rss_samples
    BY DEF AppendCpu, longer
<1>4. MonitorTypeOK'
    BY <1>2, <1>3 DEF MonitorInv, MonitorTypeOK, AppendCpu, Goto, Places
<1>5. ASSUME ~overstayed PROVE OneSampler' /\ ListsOfOneRun'
  <2>1. r = run /\ ~Half /\ Half' /\ run' = run
    BY <1>5 DEF MonitorInv, MonitorTypeOK, OneSampler, Half, AppendCpu, Goto, caller
  <2>2. OneSampler'
    BY <1>5 DEF MonitorInv, MonitorTypeOK, OneSampler, AppendCpu, Goto, caller
  <2>3. Len(cpu_samples) = Len(rss_samples) /\ Len(cpu_samples) \in Nat
    BY <1>1, <1>5, <2>1 DEF MonitorInv, ListsOfOneRun
  <2>4. \A i \in 1 .. Len(longer) : longer[i].by = run
    BY <1>2, <1>5, <2>1, <2>3 DEF MonitorInv, ListsOfOneRun
  <2> QED
    BY <1>2, <1>3, <2>1, <2>2, <2>3, <2>4 DEF ListsOfOneRun
<1>6. overstayed' = overstayed /\ stats' = stats /\ summed' = summed
    BY DEF AppendCpu, caller
<1>7. ~overstayed => pc' # "report"
    BY DEF MonitorInv, OneSampler, AppendCpu, caller
<1> QED
    BY <1>4, <1>5, <1>6, <1>7 DEF MonitorInv, Whole

(* The second list catches up.                                             *)
LEMMA AppendRssKeeps ==
    ASSUME MonitorInv, NEW r \in Runs, AppendRss(r)
    PROVE  MonitorInv'
<1>1. [by |-> r] \in Sample /\ cpu_samples \in Seq(Sample) /\ rss_samples \in Seq(Sample)
    BY DEF Sample, MonitorInv, MonitorTypeOK
<1>2. /\ rss_samples' \in Seq(Sample) /\ Len(rss_samples') = Len(rss_samples) + 1
      /\ cpu_samples' = cpu_samples
    BY <1>1, AppendProperties DEF AppendRss
<1>3. MonitorTypeOK'
    BY <1>2 DEF MonitorInv, MonitorTypeOK, AppendRss, Goto, Places
<1>4. ASSUME ~overstayed PROVE OneSampler' /\ ListsOfOneRun'
  <2>1. r = run /\ Half /\ ~Half' /\ run' = run
    BY <1>4 DEF MonitorInv, MonitorTypeOK, OneSampler, Half, AppendRss, Goto, caller
  <2>2. OneSampler'
    BY <1>4 DEF MonitorInv, MonitorTypeOK, OneSampler, AppendRss, Goto, caller
  <2> QED
    BY <1>1, <1>2, <1>4, <2>1, <2>2 DEF MonitorInv, ListsOfOneRun
<1> QED
    BY <1>2, <1>3, <1>4 DEF MonitorInv, Whole, AppendRss, caller

LEMMA BreakKeeps ==
    ASSUME MonitorInv, NEW r \in Runs, Break(r)
    PROVE  MonitorInv'
<1>1. MonitorTypeOK'
    BY DEF MonitorInv, MonitorTypeOK, Break, Goto, Places
<1>2. ASSUME ~overstayed PROVE OneSampler'
    BY <1>2 DEF MonitorInv, MonitorTypeOK, OneSampler, Break, Goto, caller
<1>3. Half' <=> Half
    BY DEF MonitorInv, MonitorTypeOK, Half, Break, Goto
<1> QED
    BY <1>1, <1>2, <1>3 DEF MonitorInv, ListsOfOneRun, Whole, Break, caller

LEMMA MonitorNextKeeps == MonitorInv /\ [MonitorNext]_monitorVars => MonitorInv'
<1> SUFFICES ASSUME MonitorInv, [MonitorNext]_monitorVars PROVE MonitorInv'
    OBVIOUS
<1>1. CASE start \/ stop \/ Join \/ Average \/ Report
    BY <1>1, StartKeeps, StopKeeps, JoinKeeps, AverageKeeps, ReportKeeps
<1>2. ASSUME NEW r \in Runs, TestEvent(r) \/ AppendCpu(r) \/ AppendRss(r) \/ Break(r)
      PROVE  MonitorInv'
    BY <1>2, TestEventKeeps, AppendCpuKeeps, AppendRssKeeps, BreakKeeps
<1>3. CASE UNCHANGED monitorVars
    BY <1>3 DEF monitorVars, MonitorInv, MonitorTypeOK, OneSampler, ListsOfOneRun,
                Half, Whole
<1> QED
    BY <1>1, <1>2, <1>3 DEF MonitorNext

(* However often the monitor is used, what stop() returns is of one run    *)
(* and one thread, unless a join gave up on its thread.                    *)
THEOREM StatisticsOfOneRun == MonitorSpec => []StatsOfOneRun
<1>1. MonitorInit => MonitorInv
    BY InitMonitor
<1>2. MonitorInv /\ [MonitorNext]_monitorVars => MonitorInv'
    BY MonitorNextKeeps
<1>3. MonitorInv => StatsOfOneRun
    BY DEF MonitorInv, Whole, StatsOfOneRun
<1> QED
    BY <1>1, <1>2, <1>3, PTL DEF MonitorSpec

-----------------------------------------------------------------------------
(* Folds over finite sets, which FoldSeq, FoldLeft and MapThenSumSet are.  *)

(* g[T] is the fold of step over T, that takes pick[T] last.               *)
Folds(g, D, A, base, pick, step) ==
    /\ g \in [SUBSET D -> A]
    /\ g[{}] = base
    /\ \A T \in SUBSET D : T # {} => g[T] = step[<<pick[T], g[T \ {pick[T]}]>>]

Picks(pick, D) == \A T \in SUBSET D : T # {} => pick[T] \in T

(* A set of subsets of a finite set has a least one.                       *)
LEMMA LeastSubset ==
    ASSUME NEW D, IsFiniteSet(D), NEW P, P \subseteq (SUBSET D), P # {}
    PROVE  \E T \in P : \A U \in SUBSET T : U # T => U \notin P
<1>1. IsWellFoundedOn(StrictSubsetOrdering(D), SUBSET D)
    BY FS_StrictSubsetOrderingWellFounded, FS_FiniteSubsetsOfFinite
<1>2. PICK T \in P : \A U \in P : <<U, T>> \notin StrictSubsetOrdering(D)
    BY <1>1, WFMin
<1>3. ASSUME NEW U \in SUBSET T, U # T PROVE U \notin P
    BY <1>2, <1>3 DEF StrictSubsetOrdering
<1> QED
    BY <1>3

(* One step of it.                                                         *)
LEMMA FoldStep ==
    ASSUME NEW D, NEW A, NEW base, NEW pick, NEW step, NEW g, Picks(pick, D),
           Folds(g, D, A, base, pick, step), NEW T \in SUBSET D, T # {}
    PROVE  /\ pick[T] \in T
           /\ T \ {pick[T]} \in SUBSET T
           /\ T \ {pick[T]} \in SUBSET D
           /\ T \ {pick[T]} # T
           /\ g[T] = step[<<pick[T], g[T \ {pick[T]}]>>]
<1>1. pick[T] \in T
    BY DEF Picks
<1>2. g[T] = step[<<pick[T], g[T \ {pick[T]}]>>]
    BY DEF Folds
<1> QED
    BY <1>1, <1>2

(* Two folds are equal wherever both are defined.                          *)
LEMMA FoldsAgree ==
    ASSUME NEW D, IsFiniteSet(D), NEW A, NEW base, NEW pick, NEW step,
           Picks(pick, D), NEW g, Folds(g, D, A, base, pick, step),
           NEW E \in SUBSET D, NEW h, Folds(h, E, A, base, pick, step)
    PROVE  \A T \in SUBSET E : g[T] = h[T]
<1> DEFINE P == {T \in SUBSET E : g[T] # h[T]}
<1> SUFFICES ASSUME P # {} PROVE FALSE
    OBVIOUS
<1>1. IsFiniteSet(E) /\ P \subseteq (SUBSET E) /\ Picks(pick, E)
  <2>1. IsFiniteSet(E)
      BY FS_Subset
  <2> QED
      BY <2>1 DEF Picks
<1>2. PICK T \in P : \A U \in SUBSET T : U # T => U \notin P
  <2> HIDE DEF P
  <2> QED
      BY <1>1, LeastSubset
<1>3. T \in SUBSET E /\ T \in SUBSET D /\ g[T] # h[T]
    BY <1>2
<1>4. T # {}
    BY <1>3 DEF Folds
<1> DEFINE x == pick[T]
           U == T \ {x}
<1>5. U \in SUBSET T /\ U # T /\ g[T] = step[<<x, g[U]>>]
  <2>1. /\ T \ {pick[T]} \in SUBSET T
        /\ T \ {pick[T]} # T
        /\ g[T] = step[<<pick[T], g[T \ {pick[T]}]>>]
      BY <1>3, <1>4, FoldStep
  <2> QED
      BY <2>1
<1>6. h[T] = step[<<x, h[U]>>]
  <2>1. h[T] = step[<<pick[T], h[T \ {pick[T]}]>>]
      BY <1>1, <1>3, <1>4, FoldStep
  <2> QED
      BY <2>1
<1>7. U \in SUBSET E /\ U \notin P
    BY <1>2, <1>3, <1>5
<1>8. g[U] = h[U]
    BY <1>7
<1> QED
    BY <1>3, <1>5, <1>6, <1>8

(* There is one for every finite set, whatever the order of the picks.     *)
LEMMA FoldExists ==
    ASSUME NEW D, IsFiniteSet(D), NEW A, NEW base \in A, NEW pick,
           NEW step \in [D \X A -> A], Picks(pick, D)
    PROVE  \E g : Folds(g, D, A, base, pick, step)
<1> DEFINE F(g, T) == Folds(g, T, A, base, pick, step)
           P == {T \in SUBSET D : ~ \E g : F(g, T)}
<1> SUFFICES ASSUME P # {} PROVE FALSE
    OBVIOUS
<1>1. PICK T \in P : \A U \in SUBSET T : U # T => U \notin P
  <2>1. P \subseteq (SUBSET D)
      OBVIOUS
  <2> HIDE DEF P
  <2> QED
      BY <2>1, LeastSubset
<1>2. T \in SUBSET D /\ IsFiniteSet(T) /\ ~ \E g : F(g, T)
    BY <1>1, FS_Subset
<1> DEFINE G == [U \in SUBSET T |-> CHOOSE g : F(g, U)]
           h == [U \in SUBSET T |-> IF U = {} THEN base
                     ELSE step[<<pick[U], G[U \ {pick[U]}][U \ {pick[U]}]>>]]
<1>3. ASSUME NEW U \in SUBSET T, U # T
      PROVE  F(G[U], U) /\ IsFiniteSet(U) /\ Picks(pick, U)
  <2>1. \E g : F(g, U)
      BY <1>1, <1>2, <1>3
  <2>2. IsFiniteSet(U)
      BY <1>2, FS_Subset
  <2>3. Picks(pick, U)
      BY <1>2 DEF Picks
  <2> HIDE DEF F
  <2> QED
      BY <2>1, <2>2, <2>3
<1>4. ASSUME NEW U \in SUBSET T
      PROVE  h[U] = IF U = {} THEN base
                    ELSE step[<<pick[U], G[U \ {pick[U]}][U \ {pick[U]}]>>]
    BY <1>4
<1>5. ASSUME NEW U \in SUBSET T, U # {}
      PROVE  pick[U] \in U /\ U \ {pick[U]} \in SUBSET T /\ U \ {pick[U]} # T
    BY <1>2, <1>5 DEF Picks
<1>6. DOMAIN h = SUBSET T
    OBVIOUS
<1>7. h = [U \in SUBSET T |-> h[U]]
    BY DEF h
<1> HIDE DEF G, h
<1>8. ASSUME NEW V \in SUBSET T, V # T PROVE h[V] = G[V][V] /\ h[V] \in A
  <2>1. F(G[V], V) /\ IsFiniteSet(V) /\ Picks(pick, V) /\ V \in SUBSET V
      BY <1>3, <1>8
  <2>2. G[V][V] \in A
      BY <2>1 DEF Folds
  <2>3. CASE V = {}
    <3>1. G[V][V] = base
        BY <2>1, <2>3 DEF Folds
    <3> QED
        BY <1>4, <2>2, <2>3, <3>1
  <2>4. CASE V # {}
    <3> DEFINE W == V \ {pick[V]}
    <3>1. W \in SUBSET V /\ W \in SUBSET T /\ W # T
        BY <1>5, <2>4
    <3>2. G[V][V] = step[<<pick[V], G[V][W]>>]
      <4> HIDE DEF F
      <4>1. Folds(G[V], V, A, base, pick, step)
          BY <2>1 DEF F
      <4>2. /\ V \in SUBSET V /\ Picks(pick, V)
          BY <2>1
      <4>3. G[V][V] = step[<<pick[V], G[V][V \ {pick[V]}]>>]
          BY <2>4, <4>1, <4>2, FoldStep
      <4> QED
          BY <4>3
    <3>3. F(G[W], W)
        BY <1>3, <3>1
    <3>4. W \in SUBSET W
        OBVIOUS
    <3>5. G[V][W] = G[W][W]
      <4> HIDE DEF W, F
      <4>1. /\ Folds(G[V], V, A, base, pick, step)
            /\ Folds(G[W], W, A, base, pick, step)
          BY <2>1, <3>3 DEF F
      <4>2. IsFiniteSet(V) /\ Picks(pick, V)
          BY <2>1
      <4>3. \A X \in SUBSET W : G[V][X] = G[W][X]
          BY <3>1, <4>1, <4>2, FoldsAgree
      <4> QED
          BY <3>4, <4>3
    <3>6. h[V] = step[<<pick[V], G[W][W]>>]
        BY <1>4, <2>4
    <3> QED
        BY <2>2, <3>2, <3>5, <3>6
  <2> QED
      BY <2>3, <2>4
<1>9. ASSUME NEW U \in SUBSET T, U # {}
      PROVE  h[U] = step[<<pick[U], h[U \ {pick[U]}]>>] /\ h[U] \in A
  <2>1. pick[U] \in D /\ U \ {pick[U]} \in SUBSET T /\ U \ {pick[U]} # T
      BY <1>2, <1>5, <1>9
  <2>2. /\ h[U \ {pick[U]}] = G[U \ {pick[U]}][U \ {pick[U]}]
        /\ h[U \ {pick[U]}] \in A
      BY <1>8, <2>1
  <2>3. h[U] = step[<<pick[U], h[U \ {pick[U]}]>>]
      BY <1>4, <1>9, <2>2
  <2>4. <<pick[U], h[U \ {pick[U]}]>> \in D \X A
      BY <2>1, <2>2
  <2> QED
      BY <2>2, <2>3, <2>4
<1>10. {} \in SUBSET T /\ h[{}] = base
    BY <1>4
<1>11. h \in [SUBSET T -> A]
    BY <1>7, <1>9, <1>10
<1>12. F(h, T)
    BY <1>9, <1>10, <1>11 DEF Folds
<1> QED
    BY <1>2, <1>12

(* Any function that is built step by step stays in A.                     *)
LEMMA FoldTyped ==
    ASSUME NEW D, IsFiniteSet(D), NEW A, NEW base \in A, NEW pick,
           NEW step \in [D \X A -> A], Picks(pick, D), NEW g,
           g = [T \in SUBSET D |-> g[T]], g[{}] = base,
           \A T \in SUBSET D : T # {} /\ g[T \ {pick[T]}] \in A
               => g[T] = step[<<pick[T], g[T \ {pick[T]}]>>]
    PROVE  Folds(g, D, A, base, pick, step)
<1> DEFINE P == {T \in SUBSET D : g[T] \notin A}
<1>1. P = {}
  <2> SUFFICES ASSUME P # {} PROVE FALSE
      OBVIOUS
  <2>1. PICK T \in P : \A U \in SUBSET T : U # T => U \notin P
    <3>1. P \subseteq (SUBSET D)
        OBVIOUS
    <3> HIDE DEF P
    <3> QED
        BY <3>1, LeastSubset
  <2>2. T \in SUBSET D /\ g[T] \notin A /\ T # {}
      BY <2>1
  <2> DEFINE U == T \ {pick[T]}
  <2>3. pick[T] \in D /\ U \in SUBSET T /\ U # T
      BY <2>2 DEF Picks
  <2>4. g[U] \in A
      BY <2>1, <2>2, <2>3
  <2>5. g[T] = step[<<pick[T], g[U]>>]
      BY <2>2, <2>4
  <2> HIDE DEF U
  <2> QED
      BY <2>2, <2>3, <2>4, <2>5
<1>2. \A T \in SUBSET D : g[T] \in A
    BY <1>1
<1>3. g \in [SUBSET D -> A]
    BY <1>2
<1>4. \A T \in SUBSET D : T # {} => T \ {pick[T]} \in SUBSET D
    OBVIOUS
<1>5. \A T \in SUBSET D : T # {} => g[T] = step[<<pick[T], g[T \ {pick[T]}]>>]
    BY <1>2, <1>4
<1> QED
    BY <1>3, <1>5 DEF Folds

(* g[T] is g[{}] and the weights w of the members of T, added in the order *)
(* in which CHOOSE takes them.                                             *)
Chosen(T) == CHOOSE x \in T : TRUE

Sums(g, D, w) ==
    /\ g \in [SUBSET D -> Int]
    /\ \A T \in SUBSET D : T # {} => g[T] = g[T \ {Chosen(T)}] + w[Chosen(T)]

LEMMA SumsFold ==
    ASSUME NEW D, IsFiniteSet(D), NEW w \in [D -> Int]
    PROVE  \E pick, step :
              /\ step \in [D \X Int -> Int] /\ Picks(pick, D)
              /\ \A T \in SUBSET D : T # {} => pick[T] = Chosen(T)
              /\ \A x \in D, a \in Int : step[<<x, a>>] = a + w[x]
<1> DEFINE pick == [T \in SUBSET D |-> Chosen(T)]
           step == [p \in D \X Int |-> p[2] + w[p[1]]]
<1>1. \A x \in D, a \in Int : step[<<x, a>>] = a + w[x]
    OBVIOUS
<1>2. step \in [D \X Int -> Int]
    OBVIOUS
<1>3. \A T \in SUBSET D : T # {} => pick[T] = Chosen(T) /\ Chosen(T) \in T
    BY DEF Chosen
<1> HIDE DEF pick, step
<1>4. Picks(pick, D)
    BY <1>3 DEF Picks
<1> QED
    BY <1>1, <1>2, <1>3, <1>4

LEMMA SumsExist ==
    ASSUME NEW D, IsFiniteSet(D), NEW base \in Int, NEW w \in [D -> Int]
    PROVE  \E g : Sums(g, D, w) /\ g[{}] = base
<1>1. PICK pick, step :
          /\ step \in [D \X Int -> Int] /\ Picks(pick, D)
          /\ \A T \in SUBSET D : T # {} => pick[T] = Chosen(T)
          /\ \A x \in D, a \in Int : step[<<x, a>>] = a + w[x]
    BY SumsFold
<1>2. PICK g : Folds(g, D, Int, base, pick, step)
    BY <1>1, FoldExists
<1>3. g \in [SUBSET D -> Int] /\ g[{}] = base
    BY <1>2 DEF Folds
<1>4. ASSUME NEW T \in SUBSET D, T # {}
      PROVE  g[T] = g[T \ {Chosen(T)}] + w[Chosen(T)]
  <2>1. g[T] = step[<<pick[T], g[T \ {pick[T]}]>>]
      BY <1>2, <1>4 DEF Folds
  <2>2. pick[T] = Chosen(T) /\ Chosen(T) \in D
      BY <1>1, <1>4 DEF Chosen
  <2>3. g[T \ {pick[T]}] \in Int
      BY <1>3, <1>4
  <2>4. step[<<pick[T], g[T \ {pick[T]}]>>] = g[T \ {pick[T]}] + w[pick[T]]
      BY <1>1, <2>2, <2>3
  <2> QED
      BY <2>1, <2>2, <2>4
<1> QED
    BY <1>3, <1>4 DEF Sums

(* A function that satisfies the equations of a sum has integer values.    *)
SumEquations(g, D, w) ==
    /\ g = [T \in SUBSET D |-> g[T]]
    /\ g[{}] \in Int
    /\ \A T \in SUBSET D : T # {} /\ g[T \ {Chosen(T)}] \in Int
           => g[T] = g[T \ {Chosen(T)}] + w[Chosen(T)]

LEMMA SumTyped ==
    ASSUME NEW D, IsFiniteSet(D), NEW w \in [D -> Int], NEW g,
           SumEquations(g, D, w)
    PROVE  Sums(g, D, w)
<1>1. PICK pick, step :
          /\ step \in [D \X Int -> Int] /\ Picks(pick, D)
          /\ \A T \in SUBSET D : T # {} => pick[T] = Chosen(T)
          /\ \A x \in D, a \in Int : step[<<x, a>>] = a + w[x]
    BY SumsFold
<1>2. ASSUME NEW T \in SUBSET D, T # {}, g[T \ {pick[T]}] \in Int
      PROVE  g[T] = step[<<pick[T], g[T \ {pick[T]}]>>]
  <2>1. pick[T] = Chosen(T) /\ Chosen(T) \in D
      BY <1>1, <1>2 DEF Chosen
  <2>2. g[T] = g[T \ {pick[T]}] + w[pick[T]]
      BY <1>2, <2>1 DEF SumEquations
  <2>3. step[<<pick[T], g[T \ {pick[T]}]>>] = g[T \ {pick[T]}] + w[pick[T]]
      BY <1>1, <1>2, <2>1
  <2> QED
      BY <2>2, <2>3
<1>3. Folds(g, D, Int, g[{}], pick, step)
  <2>1. g = [T \in SUBSET D |-> g[T]] /\ g[{}] \in Int
      BY DEF SumEquations
  <2> QED
      BY <1>1, <1>2, <2>1, FoldTyped
<1>4. g \in [SUBSET D -> Int]
    BY <1>3 DEF Folds
<1>5. \A T \in SUBSET D : T # {} => g[T] = g[T \ {Chosen(T)}] + w[Chosen(T)]
    BY <1>4 DEF SumEquations
<1> QED
    BY <1>4, <1>5 DEF Sums

(* The order does not matter: any element may come last.                   *)
Adds(g, S, z, w) == g[S] = g[S \ {z}] + w[z]

LEMMA SumLast ==
    ASSUME NEW D, IsFiniteSet(D), NEW w \in [D -> Int], NEW g, Sums(g, D, w),
           NEW S \in SUBSET D, NEW z \in S
    PROVE  Adds(g, S, z, w)
<1> DEFINE Wrong(T) == \E y \in T : g[T] # g[T \ {y}] + w[y]
           P == {T \in SUBSET D : Wrong(T)}
<1> SUFFICES ASSUME P # {} PROVE FALSE
  <2>1. P = {} => ~Wrong(S)
      OBVIOUS
  <2> QED
      BY <2>1 DEF Adds
<1>1. PICK T \in P : \A U \in SUBSET T : U # T => U \notin P
  <2>1. P \subseteq (SUBSET D)
      OBVIOUS
  <2> HIDE DEF P
  <2> QED
      BY <2>1, LeastSubset
<1>2. T \in SUBSET D
    BY <1>1
<1>3. PICK y \in T : g[T] # g[T \ {y}] + w[y]
    BY <1>1
<1> DEFINE x == Chosen(T)
           U == T \ {x}
           V == T \ {y}
           W == (T \ {x}) \ {y}
<1>4. /\ x \in T /\ U \in SUBSET T /\ U \in SUBSET D /\ U # T
      /\ g[T] = g[U] + w[x]
  <2>1. T # {}
      BY <1>3
  <2>2. Chosen(T) \in T
      BY <2>1 DEF Chosen
  <2>3. g[T] = g[T \ {Chosen(T)}] + w[Chosen(T)]
      BY <1>2, <2>1 DEF Sums
  <2> QED
      BY <1>2, <2>2, <2>3
<1>5. x # y
    BY <1>3, <1>4
<1>6. /\ y \in U /\ x \in V /\ V \in SUBSET T /\ V \in SUBSET D /\ V # T
      /\ U \ {y} = W /\ V \ {x} = W /\ W \in SUBSET D
    BY <1>2, <1>3, <1>4, <1>5
<1>7. ~Wrong(U) /\ ~Wrong(V)
    BY <1>1, <1>4, <1>6
<1>8. g[U] = g[W] + w[y] /\ g[V] = g[W] + w[x]
    BY <1>6, <1>7
<1>9. w[x] \in Int /\ w[y] \in Int /\ g[W] \in Int
    BY <1>2, <1>3, <1>4, <1>6 DEF Sums
<1> HIDE DEF x, U, V, W
<1>10. g[T] # g[V] + w[y]
    BY <1>3 DEF V
<1> QED
    BY <1>4, <1>8, <1>9, <1>10

(* With the sum of two weights, a sum grows by what theirs grow.           *)
Grow(f, g, h, D) == h[D] - h[{}] = (f[D] - f[{}]) + (g[D] - g[{}])

LEMMA SumsAdd ==
    ASSUME NEW D, IsFiniteSet(D), NEW u \in [D -> Int], NEW v \in [D -> Int],
           NEW w \in [D -> Int], \A x \in D : w[x] = u[x] + v[x],
           NEW f, NEW g, NEW h, Sums(f, D, u), Sums(g, D, v), Sums(h, D, w)
    PROVE  Grow(f, g, h, D)
<1> DEFINE Wrong(T) == h[T] - h[{}] # (f[T] - f[{}]) + (g[T] - g[{}])
           P == {T \in SUBSET D : Wrong(T)}
<1>1. P = {} => ~Wrong(D)
    OBVIOUS
<1> SUFFICES ASSUME P # {} PROVE FALSE
    BY <1>1 DEF Grow
<1>2. PICK T \in P : \A U \in SUBSET T : U # T => U \notin P
  <2>1. P \subseteq (SUBSET D)
      OBVIOUS
  <2> HIDE DEF P
  <2> QED
      BY <2>1, LeastSubset
<1>3. T \in SUBSET D /\ Wrong(T)
    BY <1>2
<1>4. f[{}] \in Int /\ g[{}] \in Int /\ h[{}] \in Int
  <2>1. {} \in SUBSET D
      OBVIOUS
  <2> QED
      BY <2>1 DEF Sums
<1>5. T # {}
  <2>1. ~Wrong({})
      BY <1>4
  <2> HIDE DEF Wrong
  <2> QED
      BY <1>3, <2>1
<1> DEFINE x == Chosen(T)
           U == T \ {x}
<1>6. /\ x \in D /\ U \in SUBSET T /\ U \in SUBSET D /\ U # T
      /\ h[T] = h[U] + w[x]
  <2>1. Chosen(T) \in T
      BY <1>5 DEF Chosen
  <2>2. h[T] = h[U] + w[x]
      BY <1>3, <1>5 DEF Sums
  <2> QED
      BY <1>3, <2>1, <2>2
<1>7. f[T] = f[U] + u[x]
    BY <1>3, <1>5 DEF Sums
<1>8. g[T] = g[U] + v[x]
    BY <1>3, <1>5 DEF Sums
<1>9. h[U] - h[{}] = (f[U] - f[{}]) + (g[U] - g[{}])
  <2>1. U \in SUBSET D /\ U \notin P
      BY <1>2, <1>3, <1>6
  <2>2. ~Wrong(U)
    <3> HIDE DEF Wrong, U
    <3> QED
        BY <2>1
  <2> QED
      BY <2>2
<1>10. h[T] - h[{}] # (f[T] - f[{}]) + (g[T] - g[{}])
    BY <1>3
<1>11. /\ f[U] \in Int /\ g[U] \in Int /\ h[U] \in Int
       /\ u[x] \in Int /\ v[x] \in Int /\ w[x] = u[x] + v[x]
    BY <1>6 DEF Sums
<1> HIDE DEF x, U, P, Wrong
<1>12. /\ h[T] - h[{}] = (h[U] - h[{}]) + (u[x] + v[x])
      /\ (f[T] - f[{}]) + (g[T] - g[{}])
            = (f[U] - f[{}]) + (g[U] - g[{}]) + (u[x] + v[x])
    BY <1>4, <1>6, <1>7, <1>8, <1>11
<1> QED
    BY <1>9, <1>10, <1>12

-----------------------------------------------------------------------------
(* WireOverhead.                                                           *)

(* Arithmetic.                                                             *)
LEMMA TimesMonotone ==
    ASSUME NEW i \in Nat, NEW j \in Nat, i <= j, NEW k \in Nat
    PROVE  i * k <= j * k
<1>1. PICK d \in Nat : j = i + d
    BY j - i \in Nat
<1>2. j * k = i * k + d * k /\ d * k \in Nat /\ i * k \in Nat
    BY <1>1
<1> QED
    BY <1>2

LEMMA DivFacts ==
    ASSUME NEW n \in Nat, NEW k \in Nat \ {0}
    PROVE  /\ n \div k \in Nat
           /\ (n \div k) * k <= n
           /\ n < (n \div k) * k + k
OBVIOUS

(* CeilDiv(n, k) counts the multiples of k below n.                        *)
LEMMA CeilFacts ==
    ASSUME NEW n \in Nat, NEW k \in Nat \ {0}
    PROVE  /\ CeilDiv(n, k) \in Nat
           /\ \A j \in Nat : j * k < n <=> j < CeilDiv(n, k)
<1> DEFINE c == CeilDiv(n, k)
<1>1. c \in Nat /\ c * k <= n + k - 1 /\ n + k - 1 < c * k + k
  <2>1. n + k - 1 \in Nat
      OBVIOUS
  <2> QED
      BY <2>1, DivFacts DEF CeilDiv
<1> HIDE DEF c
<1>2. ASSUME NEW j \in Nat PROVE j * k < n <=> j < c
  <2>1. CASE j < c
    <3>1. j + 1 \in Nat /\ j + 1 <= c
        BY <1>1, <2>1
    <3>2. (j + 1) * k <= c * k
        BY <1>1, <3>1, TimesMonotone
    <3>3. (j + 1) * k = j * k + k
        OBVIOUS
    <3> QED
        BY <1>1, <2>1, <3>2, <3>3
  <2>2. CASE c <= j
    <3>1. c * k <= j * k
        BY <1>1, <2>2, TimesMonotone
    <3> QED
        BY <1>1, <2>2, <3>1
  <2> QED
      BY <1>1, <2>1, <2>2
<1> QED
    BY <1>1, <1>2 DEF c

(* The offsets of the blocks of k bytes in a file of n bytes.              *)
LEMMA OffsetsCounted ==
    ASSUME NEW n \in Nat, NEW k \in Nat \ {0}
    PROVE  LET offsets == {j \in 0 .. n \div k : j * k < n}
           IN  /\ offsets = 0 .. CeilDiv(n, k) - 1
               /\ IsFiniteSet(offsets)
               /\ Cardinality(offsets) = CeilDiv(n, k)
<1> DEFINE offsets == {j \in 0 .. n \div k : j * k < n}
           c == CeilDiv(n, k)
<1>1. c \in Nat /\ \A j \in Nat : j * k < n <=> j < c
    BY CeilFacts
<1>2. n \div k \in Nat /\ n < (n \div k) * k + k
    BY DivFacts
<1>3. \A j \in Nat : j * k < n => j <= n \div k
  <2> SUFFICES ASSUME NEW j \in Nat, j * k < n, n \div k < j PROVE FALSE
      BY <1>2
  <2> DEFINE q == n \div k
  <2> HIDE DEF q
  <2>1. q \in Nat /\ n < q * k + k /\ q + 1 <= j
      BY <1>2 DEF q
  <2>2. (q + 1) * k <= j * k
      BY <2>1, TimesMonotone
  <2>3. (q + 1) * k = q * k + k
      BY <2>1
  <2> QED
      BY <2>1, <2>2, <2>3
<1> HIDE DEF c
<1>4. offsets = 0 .. c - 1
  <2>1. ASSUME NEW j \in offsets PROVE j \in 0 .. c - 1
    <3>1. j \in Nat /\ j * k < n
        BY <1>2
    <3> QED
        BY <1>1, <3>1
  <2>2. ASSUME NEW j \in 0 .. c - 1 PROVE j \in offsets
    <3>1. j \in Nat /\ j < c
        BY <1>1
    <3>2. j * k < n
        BY <1>1, <3>1
    <3>3. j <= n \div k
        BY <1>3, <3>1, <3>2
    <3>4. j \in 0 .. n \div k
        BY <1>2, <3>1, <3>3
    <3> QED
        BY <3>2, <3>4
  <2> QED
      BY <2>1, <2>2
<1>5. IsFiniteSet(0 .. c - 1) /\ Cardinality(0 .. c - 1) = IF 0 > c - 1 THEN 0 ELSE c - 1 - 0 + 1
  <2>1. 0 \in Int /\ c - 1 \in Int
      BY <1>1
  <2> QED
      BY <2>1, FS_Interval
<1>6. Cardinality(0 .. c - 1) = c
    BY <1>1, <1>5
<1> QED
    BY <1>4, <1>5, <1>6 DEF c

(* coap_client_v2.py:70-94 and coap_client.py:38-49.  Whatever the size of *)
(* a file and of a block, both versions pay for every block exactly once.  *)
THEOREM BlocksArePaid == InputsInit => BlocksPaid
<1> SUFFICES ASSUME InputsInit PROVE BlocksPaid
    OBVIOUS
<1>1. length \in Nat /\ name \in Nat /\ BLOCK_SIZE \in Nat \ {0}
    BY SizesAssumption, LengthsAssumption DEF InputsInit
<1> DEFINE offsets == {k \in 0 .. length \div BLOCK_SIZE : k * BLOCK_SIZE < length}
           blocks == CeilDiv(length, BLOCK_SIZE)
<1>2. blocks \in Nat /\ Cardinality(offsets) = blocks
    BY <1>1, CeilFacts, OffsetsCounted
<1>3. CeilDiv(0, BLOCK_SIZE) = 0
  <2>1. CeilDiv(0, BLOCK_SIZE) \in Nat /\ ~(0 < CeilDiv(0, BLOCK_SIZE))
    <3>1. 0 * BLOCK_SIZE = 0
        BY <1>1
    <3> QED
        BY <1>1, <3>1, CeilFacts
  <2> QED
      BY <2>1
<1>4. length > 0 => blocks >= 1
  <2>1. 0 * BLOCK_SIZE < length <=> 0 < blocks
      BY <1>1, CeilFacts
  <2> QED
      BY <1>1, <1>2, <2>1
<1>5. /\ coap_overhead_v2(name, 64, length) = 19 * blocks + 8 + (name + 4) + 68
      /\ coap_overhead_v2(name, 64, 0) = 8 + (name + 4) + 68
    BY <1>1, <1>2, <1>3 DEF coap_overhead_v2
<1>6. /\ coap_overhead_v1(48, 32, length)
            = 48 + 32 + ((IF blocks > 1 THEN blocks ELSE 1) - 1) * 24
      /\ coap_overhead_v1(48, 32, 0) = 48 + 32
    BY <1>1, <1>2, <1>3 DEF coap_overhead_v1
<1> HIDE DEF blocks, offsets
<1>7. coap_overhead_v2(name, 64, length) = 19 * Cardinality(offsets) + coap_overhead_v2(name, 64, 0)
    BY <1>1, <1>2, <1>5
<1>8. length > 0 => coap_overhead_v1(48, 32, length) - coap_overhead_v1(48, 32, 0)
                      = 24 * (Cardinality(offsets) - 1)
    BY <1>1, <1>2, <1>4, <1>6
<1> QED
    BY <1>7, <1>8 DEF BlocksPaid, offsets

(* Every set of natural numbers that is not empty has a least element.     *)
LEMMA LeastNumber ==
    ASSUME NEW P, P \subseteq Nat, P # {}
    PROVE  \E n \in P : \A m \in P : n <= m
<1> DEFINE Less == {p \in Nat \X Nat : p[1] < p[2]}
<1>1. IsWellFoundedOn(Less, Nat)
    BY NatLessThanWellFounded DEF OpToRel
<1>2. PICK n \in P : \A m \in P : <<m, n>> \notin Less
    BY <1>1, WFMin
<1>3. ASSUME NEW m \in P PROVE ~(m < n)
    BY <1>2
<1> QED
    BY <1>3

(* The loop that counts the bytes of a remaining length, up to length n.   *)
Counts(f, n) ==
    /\ f \in [0 .. n -> Nat]
    /\ \A x \in 0 .. n :
          f[x] = IF x \div 128 = 0 THEN 1 ELSE 1 + f[x \div 128]

(* Two such functions are equal wherever both are defined.                 *)
LEMMA CountsAgree ==
    ASSUME NEW m \in Nat, NEW n \in Nat, NEW f, NEW g, Counts(f, m), Counts(g, n)
    PROVE  \A x \in 0 .. n : x <= m => f[x] = g[x]
<1> DEFINE P == {x \in 0 .. n : x <= m /\ f[x] # g[x]}
<1> SUFFICES ASSUME P # {} PROVE FALSE
    OBVIOUS
<1>1. PICK x \in P : \A y \in P : x <= y
  <2>1. P \subseteq Nat
      OBVIOUS
  <2> HIDE DEF P
  <2> QED
      BY <2>1, LeastNumber
<1>2. x \in 0 .. m /\ x \in 0 .. n /\ f[x] # g[x]
    BY <1>1
<1> DEFINE y == x \div 128
<1>3. y \in 0 .. m /\ y \in 0 .. n /\ (y # 0 => y < x)
    BY <1>2
<1>4. /\ f[x] = IF y = 0 THEN 1 ELSE 1 + f[y]
      /\ g[x] = IF y = 0 THEN 1 ELSE 1 + g[y]
    BY <1>2 DEF Counts
<1>5. y # 0
    BY <1>2, <1>4
<1>6. y \notin P
    BY <1>1, <1>2, <1>3, <1>5
<1>7. f[y] = g[y]
    BY <1>3, <1>6
<1> QED
    BY <1>2, <1>4, <1>7

LEMMA CountsExist == \A n \in Nat : \E f : Counts(f, n)
<1> DEFINE P == {n \in Nat : ~ \E f : Counts(f, n)}
<1> SUFFICES ASSUME P # {} PROVE FALSE
    OBVIOUS
<1>1. PICK n \in P : \A m \in P : n <= m
  <2>1. P \subseteq Nat
      OBVIOUS
  <2> HIDE DEF P
  <2> QED
      BY <2>1, LeastNumber
<1>2. n \in Nat /\ ~ \E f : Counts(f, n)
    BY <1>1
<1>3. CASE n = 0
  <2> DEFINE f == [x \in 0 .. n |-> 1]
  <2>1. f \in [0 .. n -> Nat] /\ \A x \in 0 .. n : x \div 128 = 0 /\ f[x] = 1
      BY <1>3
  <2>2. Counts(f, n)
      BY <2>1 DEF Counts
  <2> QED
      BY <1>2, <2>2
<1>4. CASE n # 0
  <2>1. n - 1 \in Nat /\ n - 1 \notin P
      BY <1>1, <1>2, <1>4
  <2>2. PICK g : Counts(g, n - 1)
      BY <2>1
  <2> DEFINE y == n \div 128
             f == [x \in 0 .. n |-> IF x # n THEN g[x]
                                    ELSE IF y = 0 THEN 1 ELSE 1 + g[y]]
  <2>3. y \in 0 .. n - 1
      BY <1>2, <1>4
  <2>4. /\ \A x \in 0 .. n - 1 : g[x] \in Nat
        /\ \A x \in 0 .. n - 1 :
              g[x] = IF x \div 128 = 0 THEN 1 ELSE 1 + g[x \div 128]
      BY <2>2 DEF Counts
  <2>5. ASSUME NEW x \in 0 .. n
        PROVE  f[x] \in Nat /\ f[x] = IF x \div 128 = 0 THEN 1 ELSE 1 + f[x \div 128]
    <3>1. CASE x = n
        BY <1>2, <2>3, <2>4, <3>1
    <3>2. CASE x # n
      <4>1. x \in 0 .. n - 1 /\ x \div 128 \in 0 .. n - 1
          BY <1>2, <3>2
      <4>2. f[x] = g[x] /\ f[x \div 128] = g[x \div 128]
          BY <1>2, <3>2, <4>1
      <4> HIDE DEF f
      <4> QED
          BY <2>4, <4>1, <4>2
    <3> QED
        BY <3>1, <3>2
  <2>6. f \in [0 .. n -> Nat]
      BY <2>5
  <2>7. Counts(f, n)
      BY <2>5, <2>6 DEF Counts
  <2> QED
      BY <1>2, <2>7
<1> QED
    BY <1>3, <1>4

(* RlBytes is what its definition says.                                    *)
LEMMA RlBytesDefined ==
    /\ RlBytes \in [Nat -> Nat]
    /\ \A x \in Nat : RlBytes[x] = IF x \div 128 = 0 THEN 1 ELSE 1 + RlBytes[x \div 128]
<1> DEFINE C == [n \in Nat |-> CHOOSE f : Counts(f, n)]
           r == [n \in Nat |-> C[n][n]]
           IsRl(f) == f = [x \in Nat |-> IF x \div 128 = 0 THEN 1 ELSE 1 + f[x \div 128]]
<1>1. ASSUME NEW n \in Nat PROVE Counts(C[n], n)
    BY CountsExist
<1>2. ASSUME NEW n \in Nat PROVE r[n] = C[n][n]
    OBVIOUS
<1>3. r = [n \in Nat |-> r[n]]
    BY DEF r
<1> HIDE DEF C, r
<1>4. ASSUME NEW x \in Nat
      PROVE  r[x] \in Nat /\ r[x] = IF x \div 128 = 0 THEN 1 ELSE 1 + r[x \div 128]
  <2> DEFINE y == x \div 128
  <2>1. y \in Nat /\ y <= x /\ y \in 0 .. y /\ y \in 0 .. x /\ x \in 0 .. x
      OBVIOUS
  <2>2. Counts(C[x], x) /\ Counts(C[y], y)
      BY <1>1, <2>1
  <2>3. C[x][y] = C[y][y]
    <3> HIDE DEF y
    <3> QED
        BY <2>1, <2>2, CountsAgree
  <2>4. C[x][x] = IF y = 0 THEN 1 ELSE 1 + C[x][y]
      BY <2>1, <2>2 DEF Counts
  <2>5. C[x][x] \in Nat
      BY <2>1, <2>2 DEF Counts
  <2>6. r[x] = C[x][x] /\ r[y] = C[y][y]
      BY <1>2, <2>1
  <2> QED
      BY <2>3, <2>4, <2>5, <2>6
<1>5. IsRl(r)
    BY <1>3, <1>4
<1>6. RlBytes = CHOOSE f : IsRl(f)
    BY DEF RlBytes
<1> HIDE DEF IsRl
<1>7. IsRl(RlBytes)
    BY <1>5, <1>6
<1>8. /\ RlBytes = [x \in Nat |-> RlBytes[x]]
      /\ \A x \in Nat : RlBytes[x] = IF x \div 128 = 0 THEN 1 ELSE 1 + RlBytes[x \div 128]
    BY <1>7 DEF IsRl
<1> DEFINE P == {x \in Nat : RlBytes[x] \notin Nat}
<1>9. P = {}
  <2> SUFFICES ASSUME P # {} PROVE FALSE
      OBVIOUS
  <2>1. PICK x \in P : \A y \in P : x <= y
    <3>1. P \subseteq Nat
        OBVIOUS
    <3> HIDE DEF P
    <3> QED
        BY <3>1, LeastNumber
  <2>2. x \in Nat /\ RlBytes[x] \notin Nat
      BY <2>1
  <2>3. x \div 128 \in Nat /\ (x \div 128 # 0 => x \div 128 < x)
      BY <2>2
  <2>4. x \div 128 # 0 => RlBytes[x \div 128] \in Nat
      BY <2>1, <2>2, <2>3
  <2>5. RlBytes[x] = IF x \div 128 = 0 THEN 1 ELSE 1 + RlBytes[x \div 128]
      BY <1>8, <2>2
  <2> HIDE DEF P
  <2> QED
      BY <2>2, <2>4, <2>5
<1>10. RlBytes \in [Nat -> Nat]
    BY <1>8, <1>9
<1> QED
    BY <1>8, <1>10

(* Its first three steps.                                                  *)
LEMMA RlBytesValue ==
    ASSUME NEW x \in Nat, x <= 268435455
    PROVE  RlBytes[x] = IF x <= 127 THEN 1 ELSE IF x <= 16383 THEN 2
                        ELSE IF x <= 2097151 THEN 3 ELSE 4
<1> DEFINE a == x \div 128
           b == a \div 128
           c == b \div 128
<1>1. /\ a \in Nat /\ b \in Nat /\ c \in Nat
      /\ (a = 0 <=> x <= 127)
      /\ (b = 0 <=> x <= 16383)
      /\ (c = 0 <=> x <= 2097151)
      /\ c \div 128 = 0
    OBVIOUS
<1>2. /\ RlBytes[x] = IF a = 0 THEN 1 ELSE 1 + RlBytes[a]
      /\ RlBytes[a] = IF b = 0 THEN 1 ELSE 1 + RlBytes[b]
      /\ RlBytes[b] = IF c = 0 THEN 1 ELSE 1 + RlBytes[c]
      /\ RlBytes[c] = 1
    BY <1>1, RlBytesDefined
<1> HIDE DEF a, b, c
<1> QED
    BY <1>1, <1>2

(* mqtt_client_a.py:25-37.  For every packet MQTT 3.1.1 allows, of which   *)
(* the remaining length is 268 435 455 at most, the count is the           *)
(* standard's.                                                             *)
THEOREM PublishLengths ==
    InputsInit /\ 4 + name + length <= 268435455 => PublishLength
<1> SUFFICES ASSUME InputsInit, 4 + name + length <= 268435455 PROVE PublishLength
    OBVIOUS
<1> DEFINE rest == 2 + name + length + (IF qos = 0 THEN 0 ELSE 2)
<1>1. length \in Nat /\ name \in Nat /\ qos \in 0 .. 2
    BY LengthsAssumption DEF InputsInit
<1>2. rest \in Nat /\ rest <= 268435455
    BY <1>1
<1>3. Packet = 1 + RlBytes[rest] + rest
  <2>1. rest = 2 + name + (IF qos > 0 THEN 2 ELSE 0) + length
      BY <1>1
  <2> HIDE DEF rest
  <2> QED
      BY <2>1 DEF Packet, mqtt_publish_packet_bytes
<1> HIDE DEF rest
<1>4. RlBytes[rest] = IF rest <= 127 THEN 1 ELSE IF rest <= 16383 THEN 2
                      ELSE IF rest <= 2097151 THEN 3 ELSE 4
    BY <1>2, RlBytesValue
<1>5. Packet - rest = 1 + (IF rest <= 127 THEN 1 ELSE IF rest <= 16383 THEN 2
                           ELSE IF rest <= 2097151 THEN 3 ELSE 4)
    BY <1>2, <1>3, <1>4
<1> QED
    BY <1>5 DEF PublishLength, rest

LEMMA PacketTyped ==
    ASSUME NEW topic \in Nat, NEW payload \in Nat, NEW level \in 0 .. 2
    PROVE  mqtt_publish_packet_bytes(topic, payload, level) \in Int
<1> DEFINE rest == 2 + topic + (IF level > 0 THEN 2 ELSE 0) + payload
<1>1. rest \in Nat
    OBVIOUS
<1>2. mqtt_publish_packet_bytes(topic, payload, level) = 1 + RlBytes[rest] + rest
    BY DEF mqtt_publish_packet_bytes
<1>3. RlBytes[rest] \in Nat
    BY <1>1, RlBytesDefined
<1> HIDE DEF rest
<1> QED
    BY <1>1, <1>2, <1>3

(* What the transfer costs is such a sum over its packets.                 *)
Costs(g, n) ==
    /\ g[{}] = mqtt_publish_packet_bytes(name, 10, qos)
    /\ mqtt_transfer_overhead_bytes(name, name, 10, ReadLengths(length), qos, length)
          = g[1 .. n] - length

LEMMA PacketsAreSum ==
    ASSUME NEW n \in Nat, DOMAIN ReadLengths(length) = 1 .. n, NEW w \in [1 .. n -> Int],
           mqtt_publish_packet_bytes(name, 10, qos) \in Int,
           \A i \in 1 .. n : w[i] = mqtt_publish_packet_bytes(name, ReadLengths(length)[i], qos)
    PROVE  \E g : Sums(g, 1 .. n, w) /\ Costs(g, n)
<1> DEFINE D == 1 .. n
           chunks == ReadLengths(length)
           base == mqtt_publish_packet_bytes(name, 10, qos)
           bytes(i) == mqtt_publish_packet_bytes(name, chunks[i], qos)
           IsFold(g) == g = [T \in SUBSET D |-> IF T = {} THEN base
                  ELSE g[T \ {CHOOSE x \in T : TRUE}] + bytes(CHOOSE x \in T : TRUE)]
           it == CHOOSE g : IsFold(g)
<1>1. mqtt_transfer_overhead_bytes(name, name, 10, chunks, qos, length) = it[D] - length
  <2>1. DOMAIN chunks = D
      OBVIOUS
  <2> HIDE DEF chunks
  <2> QED
      BY <2>1 DEF mqtt_transfer_overhead_bytes, FoldSeq, FoldFunction,
                  FoldFunctionOnSet, MapThenFoldSet
<1>2. base \in Int
    OBVIOUS
<1>3. IsFiniteSet(D)
    BY FS_Interval
<1>4. w \in [D -> Int] /\ \A i \in D : w[i] = bytes(i)
    OBVIOUS
<1> HIDE DEF D, bytes, base
<1>5. PICK g : Sums(g, D, w) /\ g[{}] = base
    BY <1>2, <1>3, <1>4, SumsExist
<1>6. \A T \in SUBSET D : T # {} => bytes(Chosen(T)) = w[Chosen(T)]
    BY <1>4 DEF Chosen
<1>7. IsFold(g)
  <2>1. g = [T \in SUBSET D |-> g[T]]
      BY <1>5 DEF Sums
  <2>2. ASSUME NEW T \in SUBSET D
        PROVE  g[T] = IF T = {} THEN base ELSE g[T \ {Chosen(T)}] + bytes(Chosen(T))
      BY <1>5, <1>6 DEF Sums
  <2> QED
      BY <2>1, <2>2 DEF Chosen
<1> HIDE DEF IsFold
<1>8. IsFold(it)
    BY <1>7
<1> HIDE DEF it
<1>9. Sums(it, D, w) /\ it[{}] = base
  <2>1. it = [T \in SUBSET D |-> it[T]] /\ it[{}] = base
    <3>1. {} \in SUBSET D
        OBVIOUS
    <3> QED
        BY <1>8, <3>1 DEF IsFold
  <2>2. ASSUME NEW T \in SUBSET D, T # {}
        PROVE  it[T] = it[T \ {Chosen(T)}] + w[Chosen(T)]
    <3>1. it[T] = it[T \ {Chosen(T)}] + bytes(Chosen(T))
        BY <1>8, <2>2 DEF IsFold, Chosen
    <3> QED
        BY <1>6, <2>2, <3>1
  <2>3. SumEquations(it, D, w)
      BY <1>2, <2>1, <2>2 DEF SumEquations
  <2> QED
      BY <1>3, <1>4, <2>1, <2>3, SumTyped
<1> QED
    BY <1>1, <1>9 DEF D, base, Costs

(* And so is what OverheadIsFraming says of their framing: the addition is *)
(* the other way round.                                                    *)
LEMMA FramingIsSum ==
    ASSUME NEW n \in Nat, n = total_chunks(length), NEW v \in [1 .. n -> Int],
           \A i \in 1 .. n :
              v[i] = mqtt_publish_packet_bytes(name, ReadLengths(length)[i], qos)
                         - ReadLengths(length)[i]
    PROVE  \E g : /\ Sums(g, 1 .. n, v) /\ g[{}] = 0
                  /\ OverheadIsFraming <=>
                        mqtt_transfer_overhead_bytes(name, name, 10, ReadLengths(length),
                                                     qos, length)
                          = mqtt_publish_packet_bytes(name, 10, qos) + g[1 .. n]
<1> DEFINE D == 1 .. n
           more(i) == mqtt_publish_packet_bytes(name, ReadLengths(length)[i], qos)
                          - ReadLengths(length)[i]
           IsFold(g) == g = [T \in SUBSET D |-> IF T = {} THEN 0
                  ELSE more(CHOOSE x \in T : TRUE) + g[T \ {CHOOSE x \in T : TRUE}]]
           it == CHOOSE g : IsFold(g)
<1>1. OverheadIsFraming <=>
          mqtt_transfer_overhead_bytes(name, name, 10, ReadLengths(length), qos, length)
            = mqtt_publish_packet_bytes(name, 10, qos) + it[D]
    BY DEF OverheadIsFraming, MapThenSumSet, MapThenFoldSet
<1>2. IsFiniteSet(D)
    BY FS_Interval
<1>3. v \in [D -> Int] /\ \A i \in D : v[i] = more(i)
    OBVIOUS
<1> HIDE DEF D, more
<1>4. PICK g : Sums(g, D, v) /\ g[{}] = 0
  <2>1. 0 \in Int
      OBVIOUS
  <2>2. \A base \in Int : \E g : Sums(g, D, v) /\ g[{}] = base
      BY <1>2, <1>3, SumsExist
  <2> QED
      BY <2>1, <2>2
<1>5. \A T \in SUBSET D :
          T # {} => more(Chosen(T)) = v[Chosen(T)] /\ v[Chosen(T)] \in Int
    BY <1>3 DEF Chosen
<1>6. IsFold(g)
  <2>1. g = [T \in SUBSET D |-> g[T]] /\ \A T \in SUBSET D : g[T] \in Int
      BY <1>4 DEF Sums
  <2>2. ASSUME NEW T \in SUBSET D
        PROVE  g[T] = IF T = {} THEN 0 ELSE more(Chosen(T)) + g[T \ {Chosen(T)}]
    <3>1. CASE T = {}
        BY <1>4, <3>1 DEF Sums
    <3>2. CASE T # {}
      <4>1. g[T] = g[T \ {Chosen(T)}] + v[Chosen(T)]
          BY <1>4, <3>2 DEF Sums
      <4>2. g[T \ {Chosen(T)}] \in Int
          BY <2>1
      <4>3. g[T] = v[Chosen(T)] + g[T \ {Chosen(T)}]
          BY <1>5, <3>2, <4>1, <4>2
      <4> QED
          BY <1>5, <3>2, <4>3
    <3> QED
        BY <3>1, <3>2
  <2> QED
      BY <2>1, <2>2 DEF Chosen
<1> HIDE DEF IsFold
<1>7. IsFold(it)
    BY <1>6
<1> HIDE DEF it
<1>8. Sums(it, D, v) /\ it[{}] = 0
  <2>1. it = [T \in SUBSET D |-> it[T]] /\ it[{}] = 0
    <3>1. {} \in SUBSET D
        OBVIOUS
    <3> QED
        BY <1>7, <3>1 DEF IsFold
  <2>2. ASSUME NEW T \in SUBSET D, T # {}, it[T \ {Chosen(T)}] \in Int
        PROVE  it[T] = it[T \ {Chosen(T)}] + v[Chosen(T)]
    <3>1. it[T] = more(Chosen(T)) + it[T \ {Chosen(T)}]
        BY <1>7, <2>2 DEF IsFold, Chosen
    <3>2. it[T] = v[Chosen(T)] + it[T \ {Chosen(T)}]
        BY <1>5, <2>2, <3>1
    <3> QED
        BY <1>5, <2>2, <3>2
  <2>3. SumEquations(it, D, v)
    <3>1. it[{}] \in Int
        BY <2>1
    <3>2. \A T \in SUBSET D : T # {} /\ it[T \ {Chosen(T)}] \in Int
              => it[T] = it[T \ {Chosen(T)}] + v[Chosen(T)]
        BY <2>2
    <3> QED
        BY <2>1, <3>1, <3>2 DEF SumEquations
  <2> QED
      BY <1>2, <1>3, <2>1, <2>3, SumTyped
<1> QED
    BY <1>1, <1>8 DEF D

(* What f.read(CHUNK_SIZE) returns, until nothing is left, is the file.    *)
LEMMA ReadsTyped ==
    ASSUME NEW size \in Nat
    PROVE  /\ total_chunks(size) \in Nat
           /\ ReadLengths(size) \in [1 .. total_chunks(size) -> Nat]
           /\ \A i \in 1 .. total_chunks(size) : i * CHUNK_SIZE < size + CHUNK_SIZE
           /\ total_chunks(size) * CHUNK_SIZE >= size
<1>1. CHUNK_SIZE \in Nat \ {0}
    BY SizesAssumption
<1> DEFINE n == total_chunks(size)
<1>2. n \in Nat /\ \A j \in Nat : j * CHUNK_SIZE < size <=> j < n
    BY <1>1, CeilFacts DEF total_chunks
<1>3. size % CHUNK_SIZE \in Nat
    BY <1>1
<1> HIDE DEF n
<1>4. ReadLengths(size) \in [1 .. n -> Nat]
    BY <1>1, <1>2, <1>3 DEF ReadLengths, n
<1>5. ASSUME NEW i \in 1 .. n PROVE i * CHUNK_SIZE < size + CHUNK_SIZE
  <2>1. i - 1 \in Nat /\ i - 1 < n
      BY <1>2
  <2>2. (i - 1) * CHUNK_SIZE < size
      BY <1>2, <2>1
  <2>3. (i - 1) * CHUNK_SIZE = i * CHUNK_SIZE - CHUNK_SIZE /\ i * CHUNK_SIZE \in Int
      BY <1>1, <1>2
  <2> QED
      BY <1>1, <2>2, <2>3
<1>6. n * CHUNK_SIZE >= size
  <2>1. ~(n * CHUNK_SIZE < size) /\ n * CHUNK_SIZE \in Int
      BY <1>1, <1>2
  <2> QED
      BY <2>1
<1> QED
    BY <1>2, <1>4, <1>5, <1>6 DEF n

(* The last chunk of a file that chunks do not fill.                       *)
LEMMA Remainder ==
    ASSUME NEW size \in Nat, NEW k \in Nat \ {0}, NEW j \in Nat,
           j * k <= size, size < j * k + k
    PROVE  size % k = size - j * k
<1>1. /\ size \div k \in Nat /\ (size \div k) * k <= size
      /\ size < (size \div k) * k + k
    BY DivFacts
<1>2. size = k * (size \div k) + (size % k)
    OBVIOUS
<1> DEFINE q == size \div k
<1> HIDE DEF q
<1>3. q = j
  <2>1. CASE q < j
    <3>1. (q + 1) * k <= j * k /\ (q + 1) * k = q * k + k
        BY <1>1, <2>1, TimesMonotone DEF q
    <3> QED
        BY <1>1, <3>1 DEF q
  <2>2. CASE j < q
    <3>1. (j + 1) * k <= q * k /\ (j + 1) * k = j * k + k
        BY <1>1, <2>2, TimesMonotone DEF q
    <3> QED
        BY <1>1, <3>1 DEF q
  <2> QED
      BY <1>1, <2>1, <2>2 DEF q
<1>4. k * q = j * k
    BY <1>3
<1> QED
    BY <1>2, <1>4 DEF q

LEMMA ReadsAreTheFile ==
    ASSUME NEW size \in Nat, NEW g,
           Sums(g, 1 .. total_chunks(size), ReadLengths(size)), g[{}] = 0
    PROVE  g[1 .. total_chunks(size)] = size
<1> DEFINE n == total_chunks(size)
           D == 1 .. n
           r == ReadLengths(size)
           K == CHUNK_SIZE
           P == {m \in 0 .. n : g[1 .. m] # IF m * K <= size THEN m * K ELSE size}
<1>1. K \in Nat \ {0}
    BY SizesAssumption
<1>2. /\ n \in Nat /\ r \in [D -> Nat] /\ n * K >= size
      /\ \A i \in D : i * K < size + K
    BY ReadsTyped
<1>3. \A i \in D : r[i] = IF i * K <= size THEN K ELSE size % K
    BY DEF ReadLengths
<1>4. IsFiniteSet(D) /\ r \in [D -> Int] /\ Sums(g, D, r)
  <2>1. IsFiniteSet(D)
      BY <1>2, FS_Interval
  <2>2. r \in [D -> Int]
    <3> HIDE DEF r, D
    <3> QED
        BY <1>2
  <2> QED
      BY <2>1, <2>2
<1> HIDE DEF n, r, K
<1>5. P = {}
  <2> SUFFICES ASSUME P # {} PROVE FALSE
      OBVIOUS
  <2>1. PICK m \in P : \A j \in P : m <= j
    <3>1. P \subseteq Nat
        BY <1>2
    <3> HIDE DEF P
    <3> QED
        BY <3>1, LeastNumber
  <2>2. /\ m \in 0 .. n /\ m \in Nat
        /\ g[1 .. m] # IF m * K <= size THEN m * K ELSE size
      BY <1>2, <2>1
  <2>3. CASE m = 0
    <3>1. 1 .. m = {} /\ m * K = 0
        BY <1>1, <2>3
    <3> QED
        BY <2>2, <3>1
  <2>4. CASE m # 0
    <3> DEFINE l == m - 1
    <3>1. l \in Nat /\ l \in 0 .. n /\ l < m /\ m = l + 1 /\ m \in D
        BY <1>2, <2>2, <2>4
    <3>2. l \notin P
        BY <2>1, <3>1
    <3>3. g[1 .. l] = IF l * K <= size THEN l * K ELSE size
        BY <3>1, <3>2
    <3>4. m * K = l * K + K /\ l * K \in Nat /\ m * K < size + K
      <4>1. m * K < size + K
          BY <1>2, <3>1
      <4> HIDE DEF l
      <4>2. (l + 1) * K = l * K + K /\ l * K \in Nat
          BY <1>1, <3>1
      <4>3. m * K = (l + 1) * K
          BY <3>1
      <4> QED
          BY <4>1, <4>2, <4>3
    <3>5. g[1 .. l] = l * K /\ l * K < size
        BY <1>1, <3>3, <3>4
    <3>6. g[1 .. m] = g[1 .. l] + r[m]
      <4> DEFINE S == 1 .. m
      <4>1. S \in SUBSET D /\ m \in S /\ S \ {m} = 1 .. l
          BY <1>2, <2>2, <3>1
      <4> HIDE DEF S, D
      <4>2. Adds(g, S, m, r)
          BY <1>4, <4>1, SumLast
      <4> QED
          BY <4>1, <4>2 DEF S, Adds
    <3>7. CASE m * K <= size
      <4>1. r[m] = K
          BY <1>3, <3>1, <3>7
      <4>2. g[1 .. m] = m * K
          BY <3>4, <3>5, <3>6, <4>1
      <4> QED
          BY <2>2, <3>7, <4>2
    <3>8. CASE ~(m * K <= size)
      <4>1. r[m] = size % K
          BY <1>3, <3>1, <3>8
      <4>2. size < l * K + K /\ l * K <= size
          BY <1>1, <3>4, <3>5, <3>8
      <4>3. size % K = size - l * K
          BY <1>1, <3>1, <4>2, Remainder
      <4>4. g[1 .. m] = size
          BY <3>4, <3>5, <3>6, <4>1, <4>3
      <4> QED
          BY <2>2, <3>8, <4>4
    <3> QED
        BY <3>7, <3>8
  <2> QED
      BY <2>3, <2>4
<1>6. n \in 0 .. n
    BY <1>2
<1>7. g[1 .. n] = IF n * K <= size THEN n * K ELSE size
    BY <1>5, <1>6
<1>8. g[1 .. n] = size
  <2>1. n * K \in Int
      BY <1>1, <1>2
  <2> QED
      BY <1>2, <1>7, <2>1
<1> QED
    BY <1>8 DEF n

(* mqtt_client_a.py:40-52 over the chunks of client_a.py:119-149.  For     *)
(* every file and chunk size the payload cancels and the framing of the    *)
(* packets is left.                                                        *)
THEOREM OverheadsAreFraming == InputsInit => OverheadIsFraming
<1> SUFFICES ASSUME InputsInit PROVE OverheadIsFraming
    OBVIOUS
<1> DEFINE n == total_chunks(length)
           D == 1 .. n
           r == ReadLengths(length)
           base == mqtt_publish_packet_bytes(name, 10, qos)
           w == [i \in D |-> mqtt_publish_packet_bytes(name, r[i], qos)]
           v == [i \in D |-> mqtt_publish_packet_bytes(name, r[i], qos) - r[i]]
<1>1. length \in Nat /\ name \in Nat /\ qos \in 0 .. 2
    BY LengthsAssumption DEF InputsInit
<1>2. n \in Nat /\ r \in [D -> Nat]
    BY <1>1, ReadsTyped
<1>3. base \in Int
  <2>1. 10 \in Nat
      OBVIOUS
  <2> QED
      BY <1>1, <2>1, PacketTyped
<1> HIDE DEF n, r, base
<1>4. \A i \in D : mqtt_publish_packet_bytes(name, r[i], qos) \in Int /\ r[i] \in Int
  <2>1. \A i \in D : r[i] \in Nat
      BY <1>2
  <2> QED
      BY <1>1, <2>1, PacketTyped
<1>5. /\ w \in [D -> Int] /\ v \in [D -> Int] /\ r \in [D -> Int]
      /\ \A i \in D : w[i] = mqtt_publish_packet_bytes(name, r[i], qos)
      /\ \A i \in D : v[i] = mqtt_publish_packet_bytes(name, r[i], qos) - r[i]
  <2>1. r \in [D -> Int]
      BY <1>2
  <2>2. \A i \in D : mqtt_publish_packet_bytes(name, r[i], qos) - r[i] \in Int
      BY <1>4
  <2> QED
      BY <1>4, <2>1, <2>2
<1> HIDE DEF w, v
<1>6. IsFiniteSet(D) /\ DOMAIN r = D
  <2>1. IsFiniteSet(D)
      BY <1>2, FS_Interval
  <2> QED
      BY <1>2, <2>1
<1>7. PICK h : Sums(h, D, w) /\ Costs(h, n)
    BY <1>2, <1>3, <1>5, <1>6, PacketsAreSum DEF r, base
<1>8. PICK g : /\ Sums(g, D, v) /\ g[{}] = 0
               /\ OverheadIsFraming <=>
                     mqtt_transfer_overhead_bytes(name, name, 10, r, qos, length) = base + g[D]
    BY <1>2, <1>5, FramingIsSum DEF n, r, base
<1>9. PICK f : Sums(f, D, r) /\ f[{}] = 0
  <2>1. 0 \in Int
      OBVIOUS
  <2>2. \A b \in Int : \E e : Sums(e, D, r) /\ e[{}] = b
    <3> HIDE DEF D
    <3> QED
        BY <1>5, <1>6, SumsExist
  <2> QED
      BY <2>1, <2>2
<1>10. f[D] = length
    BY <1>1, <1>9, ReadsAreTheFile DEF n, r
<1>11. Grow(g, f, h, D)
  <2>1. \A i \in D : w[i] = v[i] + r[i]
      BY <1>4, <1>5
  <2> HIDE DEF D
  <2> QED
      BY <1>5, <1>6, <1>7, <1>8, <1>9, <2>1, SumsAdd
<1>12. /\ h[{}] = base
       /\ mqtt_transfer_overhead_bytes(name, name, 10, r, qos, length) = h[D] - length
    BY <1>7 DEF Costs, base, r
<1>13. h[D] \in Int /\ g[D] \in Int
    BY <1>7, <1>8 DEF Sums
<1> HIDE DEF D
<1>14. h[D] - length = base + g[D]
    BY <1>1, <1>3, <1>8, <1>9, <1>10, <1>11, <1>13, <1>12 DEF Grow
<1> QED
    BY <1>8, <1>14, <1>12

-----------------------------------------------------------------------------
(* PcapAnalysis.                                                           *)

(* A set of positions has a last one.                                      *)
LEMMA LastPosition ==
    ASSUME NEW n \in Nat, NEW T \in SUBSET (1 .. n), T # {}
    PROVE  Max(T) \in T /\ \A x \in T : x <= Max(T)
<1> DEFINE P == {n - x : x \in T}
<1>1. PICK d \in P : \A e \in P : d <= e
  <2>1. P # {}
      OBVIOUS
  <2>2. \A x \in T : n - x \in Nat
      OBVIOUS
  <2>3. P \subseteq Nat
      BY <2>2
  <2> HIDE DEF P
  <2> QED
      BY <2>1, <2>3, LeastNumber
<1>2. PICK x \in T : d = n - x
    BY <1>1
<1>3. \A y \in T : x >= y
  <2> SUFFICES ASSUME NEW y \in T PROVE x >= y
      OBVIOUS
  <2>1. n - x <= n - y
      BY <1>1, <1>2
  <2>2. x \in Int /\ y \in Int
      OBVIOUS
  <2> QED
      BY <2>1, <2>2
<1>4. Max(T) \in T /\ \A y \in T : Max(T) >= y
    BY <1>3 DEF Max
<1>5. \A y \in T : y \in Int
    OBVIOUS
<1> QED
    BY <1>4, <1>5

Counted == [packets : Nat, bytes : Nat, last : Int]
NothingCounted == [packets |-> 0, bytes |-> 0, last |-> 0]

CountLine(acc, line) ==
    IF line.len = Bad \/ line.time = Bad THEN acc
    ELSE [packets |-> acc.packets + 1,
          bytes |-> acc.bytes + line.len,
          last |-> IF line.time > acc.last THEN line.time ELSE acc.last]

CountMqttLine(acc, line) ==
    IF line.type = NotMqtt \/ line.len = Bad THEN acc
    ELSE [packets |-> acc.packets + 1,
          bytes |-> acc.bytes + line.len,
          types |-> [acc.types EXCEPT ![line.type] = @ + 1]]

MqttCounted == [packets : Nat, bytes : Nat, types : [MsgType \cup {Unknown} -> Nat]]
NoMqttCounted ==
    [packets |-> 0, bytes |-> 0, types |-> [t \in MsgType \cup {Unknown} |-> 0]]

LEMMA LineTyped ==
    ASSUME NEW line \in Frames
    PROVE  /\ line.len # Bad => line.len \in Nat
           /\ line.time # Bad => line.time \in Int
           /\ line.type # NotMqtt => line.type \in MsgType \cup {Unknown}
           /\ \A acc \in Counted : CountLine(acc, line) \in Counted
           /\ \A acc \in MqttCounted : CountMqttLine(acc, line) \in MqttCounted
<1>1. line.len # Bad => line.len \in Nat
    BY LengthAssumption DEF Frames
<1>2. line.time # Bad => line.time \in Int
    BY LengthAssumption DEF Frames
<1>3. line.type # NotMqtt => line.type \in MsgType \cup {Unknown}
    BY DEF Frames
<1>4. ASSUME NEW acc \in Counted PROVE CountLine(acc, line) \in Counted
    BY <1>1, <1>2 DEF Counted, CountLine
<1>5. ASSUME NEW acc \in MqttCounted PROVE CountMqttLine(acc, line) \in MqttCounted
    BY <1>1, <1>3 DEF MqttCounted, CountMqttLine
<1> QED
    BY <1>1, <1>2, <1>3, <1>4, <1>5

(* A fold from the left goes through the positions one by one.             *)
LEMMA LeftToRight ==
    ASSUME NEW n \in Nat, NEW m \in 1 .. n
    PROVE  /\ 1 .. m \in SUBSET (1 .. n) /\ 1 .. m # {}
           /\ Max(1 .. m) = m
           /\ (1 .. m) \ {Max(1 .. m)} = 1 .. m - 1
<1>1. 1 .. m \in SUBSET (1 .. n) /\ 1 .. m # {}
    OBVIOUS
<1>2. Max(1 .. m) \in 1 .. m /\ \A x \in 1 .. m : x <= Max(1 .. m)
    BY <1>1, LastPosition
<1>3. m \in 1 .. m
    OBVIOUS
<1>4. Max(1 .. m) = m
  <2>1. m <= Max(1 .. m)
      BY <1>2, <1>3
  <2> QED
      BY <1>2, <2>1
<1>5. (1 .. m) \ {m} = 1 .. m - 1
    OBVIOUS
<1> QED
    BY <1>1, <1>4, <1>5

(* What the first loop has counted after every line.                       *)
LEMMA FirstLoop ==
    ASSUME NEW s \in Seq(Frames), NEW n \in Nat, n = Len(s)
    PROVE  \E c : /\ c[0] = NothingCounted
                  /\ \A m \in 1 .. n : c[m] = CountLine(c[m - 1], s[m])
                  /\ CountFrames(s) = c[n]
<1> DEFINE D == 1 .. n
           pick == [T \in SUBSET D |-> Max(T)]
           step == [p \in D \X Counted |-> CountLine(p[2], s[p[1]])]
           IsFold(g) == g = [T \in SUBSET D |->
               IF T = {} THEN NothingCounted
               ELSE CountLine(g[T \ {Max(T)}], s[Max(T)])]
           it == CHOOSE g : IsFold(g)
           c == [m \in 0 .. n |-> it[1 .. m]]
<1>1. CountFrames(s) = it[D]
  <2>1. DOMAIN s = D
      BY LenProperties
  <2> HIDE DEF D
  <2> QED
      BY <2>1 DEF CountFrames, FoldLeft, MapThenFoldSet, CountLine, NothingCounted, Max
<1>2. IsFiniteSet(D)
    BY FS_Interval
<1>3. \A i \in D : s[i] \in Frames
    BY ElementOfSeq
<1>4. NothingCounted \in Counted
    BY DEF NothingCounted, Counted
<1>5. \A i \in D, acc \in Counted :
          step[<<i, acc>>] = CountLine(acc, s[i]) /\ step[<<i, acc>>] \in Counted
    BY <1>3, LineTyped
<1>6. step \in [D \X Counted -> Counted]
    BY <1>3, LineTyped
<1>7. \A T \in SUBSET D : T # {} => pick[T] = Max(T) /\ Max(T) \in T
    BY LastPosition
<1> HIDE DEF pick, step
<1>8. Picks(pick, D)
    BY <1>7 DEF Picks
<1>9. PICK g : Folds(g, D, Counted, NothingCounted, pick, step)
  <2> HIDE DEF D
  <2> QED
      BY <1>2, <1>4, <1>6, <1>8, FoldExists
<1>10. IsFold(g)
  <2> HIDE DEF D
  <2>1. g = [T \in SUBSET D |-> g[T]] /\ \A T \in SUBSET D : g[T] \in Counted
      BY <1>9 DEF Folds
  <2>2. ASSUME NEW T \in SUBSET D
        PROVE  g[T] = IF T = {} THEN NothingCounted
                      ELSE CountLine(g[T \ {Max(T)}], s[Max(T)])
    <3>1. CASE T = {}
        BY <1>9, <3>1 DEF Folds
    <3>2. CASE T # {}
      <4>1. g[T] = step[<<Max(T), g[T \ {Max(T)}]>>]
          BY <1>7, <1>9, <3>2 DEF Folds
      <4>2. Max(T) \in D /\ g[T \ {Max(T)}] \in Counted
          BY <1>7, <2>1, <3>2
      <4> QED
          BY <1>5, <3>2, <4>1, <4>2
    <3> QED
        BY <3>1, <3>2
  <2> QED
      BY <2>1, <2>2
<1> HIDE DEF IsFold
<1>11. IsFold(it)
    BY <1>10
<1> HIDE DEF it
<1>12. \A T \in SUBSET D : it[T] = IF T = {} THEN NothingCounted
                                   ELSE CountLine(it[T \ {Max(T)}], s[Max(T)])
    BY <1>11 DEF IsFold
<1>13. \A m \in 0 .. n : c[m] = it[1 .. m]
    OBVIOUS
<1> HIDE DEF c
<1>14. c[0] = NothingCounted
  <2>1. 1 .. 0 = {} /\ {} \in SUBSET D /\ 0 \in 0 .. n
      OBVIOUS
  <2> QED
      BY <1>12, <1>13, <2>1
<1>15. ASSUME NEW m \in 1 .. n PROVE c[m] = CountLine(c[m - 1], s[m])
  <2>1. m \in 0 .. n /\ m - 1 \in 0 .. n
      OBVIOUS
  <2>2. /\ 1 .. m \in SUBSET D /\ 1 .. m # {} /\ Max(1 .. m) = m
        /\ (1 .. m) \ {Max(1 .. m)} = 1 .. m - 1
      BY LeftToRight
  <2> DEFINE T == 1 .. m
  <2> HIDE DEF T, D
  <2>3. it[T] = CountLine(it[T \ {Max(T)}], s[Max(T)])
      BY <1>12, <2>2 DEF T
  <2>4. it[T] = CountLine(it[1 .. m - 1], s[m])
      BY <2>2, <2>3 DEF T
  <2> QED
      BY <1>13, <2>1, <2>4 DEF T
<1>16. CountFrames(s) = c[n]
    BY <1>1, <1>13
<1> QED
    BY <1>14, <1>15, <1>16

(* And the second.                                                         *)
LEMMA SecondLoop ==
    ASSUME NEW s \in Seq(Frames), NEW n \in Nat, n = Len(s)
    PROVE  \E c : /\ c[0] = NoMqttCounted
                  /\ \A m \in 1 .. n : c[m] = CountMqttLine(c[m - 1], s[m])
                  /\ CountMqtt(s) = c[n]
<1> DEFINE D == 1 .. n
           pick == [T \in SUBSET D |-> Max(T)]
           step == [p \in D \X MqttCounted |-> CountMqttLine(p[2], s[p[1]])]
           IsFold(g) == g = [T \in SUBSET D |->
               IF T = {} THEN NoMqttCounted
               ELSE CountMqttLine(g[T \ {Max(T)}], s[Max(T)])]
           it == CHOOSE g : IsFold(g)
           c == [m \in 0 .. n |-> it[1 .. m]]
<1>1. CountMqtt(s) = it[D]
  <2>1. DOMAIN s = D
      BY LenProperties
  <2> HIDE DEF D
  <2> QED
      BY <2>1 DEF CountMqtt, FoldLeft, MapThenFoldSet, CountMqttLine, NoMqttCounted, Max
<1>2. IsFiniteSet(D)
    BY FS_Interval
<1>3. \A i \in D : s[i] \in Frames
    BY ElementOfSeq
<1>4. NoMqttCounted \in MqttCounted
    BY DEF NoMqttCounted, MqttCounted
<1>5. \A i \in D, acc \in MqttCounted :
          step[<<i, acc>>] = CountMqttLine(acc, s[i]) /\ step[<<i, acc>>] \in MqttCounted
    BY <1>3, LineTyped
<1>6. step \in [D \X MqttCounted -> MqttCounted]
    BY <1>3, LineTyped
<1>7. \A T \in SUBSET D : T # {} => pick[T] = Max(T) /\ Max(T) \in T
    BY LastPosition
<1> HIDE DEF pick, step
<1>8. Picks(pick, D)
    BY <1>7 DEF Picks
<1>9. PICK g : Folds(g, D, MqttCounted, NoMqttCounted, pick, step)
  <2> HIDE DEF D
  <2> QED
      BY <1>2, <1>4, <1>6, <1>8, FoldExists
<1>10. IsFold(g)
  <2> HIDE DEF D
  <2>1. g = [T \in SUBSET D |-> g[T]] /\ \A T \in SUBSET D : g[T] \in MqttCounted
      BY <1>9 DEF Folds
  <2>2. ASSUME NEW T \in SUBSET D
        PROVE  g[T] = IF T = {} THEN NoMqttCounted
                      ELSE CountMqttLine(g[T \ {Max(T)}], s[Max(T)])
    <3>1. CASE T = {}
        BY <1>9, <3>1 DEF Folds
    <3>2. CASE T # {}
      <4>1. g[T] = step[<<Max(T), g[T \ {Max(T)}]>>]
          BY <1>7, <1>9, <3>2 DEF Folds
      <4>2. Max(T) \in D /\ g[T \ {Max(T)}] \in MqttCounted
          BY <1>7, <2>1, <3>2
      <4> QED
          BY <1>5, <3>2, <4>1, <4>2
    <3> QED
        BY <3>1, <3>2
  <2> QED
      BY <2>1, <2>2
<1> HIDE DEF IsFold
<1>11. IsFold(it)
    BY <1>10
<1> HIDE DEF it
<1>12. \A T \in SUBSET D : it[T] = IF T = {} THEN NoMqttCounted
                                   ELSE CountMqttLine(it[T \ {Max(T)}], s[Max(T)])
    BY <1>11 DEF IsFold
<1>13. \A m \in 0 .. n : c[m] = it[1 .. m]
    OBVIOUS
<1> HIDE DEF c
<1>14. c[0] = NoMqttCounted
  <2>1. 1 .. 0 = {} /\ {} \in SUBSET D /\ 0 \in 0 .. n
      OBVIOUS
  <2> QED
      BY <1>12, <1>13, <2>1
<1>15. ASSUME NEW m \in 1 .. n PROVE c[m] = CountMqttLine(c[m - 1], s[m])
  <2>1. m \in 0 .. n /\ m - 1 \in 0 .. n
      OBVIOUS
  <2>2. /\ 1 .. m \in SUBSET D /\ 1 .. m # {} /\ Max(1 .. m) = m
        /\ (1 .. m) \ {Max(1 .. m)} = 1 .. m - 1
      BY LeftToRight
  <2> DEFINE T == 1 .. m
  <2> HIDE DEF T, D
  <2>3. it[T] = CountMqttLine(it[T \ {Max(T)}], s[Max(T)])
      BY <1>12, <2>2 DEF T
  <2>4. it[T] = CountMqttLine(it[1 .. m - 1], s[m])
      BY <2>2, <2>3 DEF T
  <2> QED
      BY <1>13, <2>1, <2>4 DEF T
<1>16. CountMqtt(s) = c[n]
    BY <1>1, <1>13
<1> QED
    BY <1>14, <1>15, <1>16

-----------------------------------------------------------------------------
(* The positions of T up to m, one more at a time.                         *)
Up(T, m) == {i \in T : i <= m}

Stays(T, m) == Up(T, m) = Up(T, m - 1)

Grows(T, m) ==
    /\ m \in Up(T, m) /\ m \notin Up(T, m - 1)
    /\ Up(T, m) = Up(T, m - 1) \cup {m}
    /\ Up(T, m) \ {m} = Up(T, m - 1)

LEMMA UpTyped ==
    ASSUME NEW T, NEW m
    PROVE  Up(T, m) \in SUBSET T
BY DEF Up

LEMMA UpEnds ==
    ASSUME NEW n \in Nat, NEW T \in SUBSET (1 .. n)
    PROVE  Up(T, 0) = {} /\ Up(T, n) = T
<1>1. \A i \in T : ~(i <= 0) /\ i <= n
    OBVIOUS
<1> QED
    BY <1>1 DEF Up

LEMMA UpSteps ==
    ASSUME NEW n \in Nat, NEW T \in SUBSET (1 .. n), NEW m \in 1 .. n
    PROVE  IF m \in T THEN Grows(T, m) ELSE Stays(T, m)
<1>1. \A i \in T : i <= m <=> i <= m - 1 \/ i = m
    OBVIOUS
<1>2. ~(m <= m - 1) /\ m <= m
    OBVIOUS
<1>3. ASSUME m \notin T PROVE Stays(T, m)
    BY <1>1, <1>3 DEF Up, Stays
<1>4. ASSUME m \in T PROVE Grows(T, m)
  <2>1. m \in Up(T, m) /\ m \notin Up(T, m - 1)
      BY <1>2, <1>4 DEF Up
  <2>2. \A i \in T : i \in Up(T, m) <=> i \in Up(T, m - 1) \/ i = m
      BY <1>1 DEF Up
  <2>3. Up(T, m) \subseteq T /\ Up(T, m - 1) \subseteq T
      BY DEF Up
  <2>4. Up(T, m) = Up(T, m - 1) \cup {m} /\ Up(T, m) \ {m} = Up(T, m - 1)
      BY <1>4, <2>1, <2>2, <2>3
  <2> QED
      BY <2>1, <2>4 DEF Grows
<1> QED
    BY <1>3, <1>4

LEMMA OneMore ==
    ASSUME NEW n \in Nat, NEW T \in SUBSET (1 .. n), NEW m \in T
    PROVE  Cardinality(Up(T, m)) = Cardinality(Up(T, m - 1)) + 1
<1>1. IsFiniteSet(1 .. n)
    BY FS_Interval
<1>2. IsFiniteSet(Up(T, m - 1))
  <2>1. Up(T, m - 1) \in SUBSET (1 .. n)
      BY DEF Up
  <2> QED
      BY <1>1, <2>1, FS_Subset
<1>3. Grows(T, m)
    BY UpSteps
<1>4. Up(T, m) = Up(T, m - 1) \cup {m} /\ m \notin Up(T, m - 1)
    BY <1>3 DEF Grows
<1> QED
    BY <1>2, <1>4, FS_AddElement

(* The bytes of a set of frames are a sum over it.                         *)
LEMMA BytesAreSum ==
    ASSUME capture \in Seq(Frames), NEW S \in SUBSET Parsed, IsFiniteSet(S),
           NEW w \in [S -> Int], \A i \in S : w[i] = capture[i].len
    PROVE  \E g : Sums(g, S, w) /\ g[{}] = 0 /\ Bytes(S) = g[S]
<1> DEFINE len(i) == capture[i].len
           IsFold(g) == g = [T \in SUBSET S |-> IF T = {} THEN 0
                  ELSE len(CHOOSE x \in T : TRUE) + g[T \ {CHOOSE x \in T : TRUE}]]
           it == CHOOSE g : IsFold(g)
<1>1. Bytes(S) = it[S]
    BY DEF Bytes, MapThenSumSet, MapThenFoldSet
<1>2. \A i \in S : w[i] = len(i)
    OBVIOUS
<1> HIDE DEF len
<1>3. PICK g : Sums(g, S, w) /\ g[{}] = 0
  <2>1. 0 \in Int
      OBVIOUS
  <2>2. \A base \in Int : \E g : Sums(g, S, w) /\ g[{}] = base
      BY SumsExist
  <2> QED
      BY <2>1, <2>2
<1>4. \A T \in SUBSET S :
          T # {} => len(Chosen(T)) = w[Chosen(T)] /\ w[Chosen(T)] \in Int
    BY <1>2 DEF Chosen
<1>5. IsFold(g)
  <2>1. g = [T \in SUBSET S |-> g[T]] /\ \A T \in SUBSET S : g[T] \in Int
      BY <1>3 DEF Sums
  <2>2. ASSUME NEW T \in SUBSET S
        PROVE  g[T] = IF T = {} THEN 0 ELSE len(Chosen(T)) + g[T \ {Chosen(T)}]
    <3>1. CASE T = {}
        BY <1>3, <3>1
    <3>2. CASE T # {}
      <4>1. g[T] = g[T \ {Chosen(T)}] + w[Chosen(T)]
          BY <1>3, <3>2 DEF Sums
      <4>2. g[T \ {Chosen(T)}] \in Int
          BY <2>1
      <4>3. g[T] = w[Chosen(T)] + g[T \ {Chosen(T)}]
          BY <1>4, <3>2, <4>1, <4>2
      <4> QED
          BY <1>4, <3>2, <4>3
    <3> QED
        BY <3>1, <3>2
  <2> QED
      BY <2>1, <2>2 DEF Chosen
<1> HIDE DEF IsFold
<1>6. IsFold(it)
    BY <1>5
<1> HIDE DEF it
<1>7. Sums(it, S, w) /\ it[{}] = 0
  <2>1. it = [T \in SUBSET S |-> it[T]] /\ it[{}] = 0
    <3>1. {} \in SUBSET S
        OBVIOUS
    <3> QED
        BY <1>6, <3>1 DEF IsFold
  <2>2. ASSUME NEW T \in SUBSET S, T # {}, it[T \ {Chosen(T)}] \in Int
        PROVE  it[T] = it[T \ {Chosen(T)}] + w[Chosen(T)]
    <3>1. it[T] = len(Chosen(T)) + it[T \ {Chosen(T)}]
        BY <1>6, <2>2 DEF IsFold, Chosen
    <3>2. it[T] = w[Chosen(T)] + it[T \ {Chosen(T)}]
        BY <1>4, <2>2, <3>1
    <3> QED
        BY <1>4, <2>2, <3>2
  <2>3. SumEquations(it, S, w)
    <3>1. it[{}] \in Int
        BY <2>1
    <3>2. \A T \in SUBSET S : T # {} /\ it[T \ {Chosen(T)}] \in Int
              => it[T] = it[T \ {Chosen(T)}] + w[Chosen(T)]
        BY <2>2
    <3> QED
        BY <2>1, <3>1, <3>2 DEF SumEquations
  <2> QED
      BY <2>1, <2>3, SumTyped
<1> QED
    BY <1>1, <1>7

LEMMA Positions ==
    ASSUME capture \in Seq(Frames), NEW n \in Nat, n = Len(capture)
    PROVE  /\ DOMAIN capture = 1 .. n
           /\ \A i \in 1 .. n : capture[i] \in Frames
           /\ Parsed \in SUBSET (1 .. n) /\ Timed \in SUBSET (1 .. n)
           /\ \A i \in Parsed : capture[i].len \in Nat
           /\ \A i \in Timed : capture[i].time \in Int
           /\ \A i \in 1 .. n :
                 /\ i \in Parsed <=> capture[i].len # Bad
                 /\ i \in Timed <=> ~(capture[i].len = Bad \/ capture[i].time = Bad)
<1>1. DOMAIN capture = 1 .. n
    BY LenProperties
<1>2. \A i \in 1 .. n : capture[i] \in Frames
    BY ElementOfSeq
<1>3. /\ Parsed \in SUBSET (1 .. n) /\ Timed \in SUBSET (1 .. n)
      /\ \A i \in 1 .. n :
            /\ i \in Parsed <=> capture[i].len # Bad
            /\ i \in Timed <=> ~(capture[i].len = Bad \/ capture[i].time = Bad)
    BY <1>1 DEF Parsed, Timed
<1>4. \A i \in Parsed : capture[i].len \in Nat
    BY <1>2, <1>3, LineTyped
<1>5. \A i \in Timed : capture[i].time \in Int
    BY <1>2, <1>3, LineTyped
<1> QED
    BY <1>1, <1>2, <1>3, <1>4, <1>5

(* The first loop counts the frames of which both fields parse.            *)
LEMMA FirstLoopCounts ==
    ASSUME capture \in Seq(Frames), NEW all, all = CountFrames(capture)
    PROVE  /\ all \in Counted
           /\ all.packets = Cardinality(Timed)
           /\ all.bytes = Bytes(Timed)
           /\ \A i \in Timed : capture[i].time <= all.last
           /\ all.last \in {capture[i].time : i \in Timed} \cup {0}
<1> DEFINE n == Len(capture)
           S(m) == Up(Timed, m)
           w == [i \in Timed |-> capture[i].len]
<1>1. n \in Nat
    BY LenProperties
<1> HIDE DEF n
<1>2. /\ \A i \in 1 .. n : capture[i] \in Frames
      /\ Parsed \in SUBSET (1 .. n) /\ Timed \in SUBSET (1 .. n) /\ Timed \in SUBSET Parsed
      /\ \A i \in Timed : capture[i].len \in Nat /\ capture[i].time \in Int
      /\ \A i \in 1 .. n : i \in Timed <=> ~(capture[i].len = Bad \/ capture[i].time = Bad)
  <2>1. Timed \in SUBSET Parsed
      BY DEF Timed
  <2> QED
      BY <1>1, <2>1, Positions DEF n
<1>3. PICK c : /\ c[0] = NothingCounted
               /\ \A m \in 1 .. n : c[m] = CountLine(c[m - 1], capture[m])
               /\ CountFrames(capture) = c[n]
    BY <1>1, FirstLoop DEF n
<1>4. IsFiniteSet(Timed)
  <2>1. IsFiniteSet(1 .. n)
      BY <1>1, FS_Interval
  <2> QED
      BY <1>2, <2>1, FS_Subset
<1>5. w \in [Timed -> Int] /\ \A i \in Timed : w[i] = capture[i].len
    BY <1>2
<1> HIDE DEF w
<1>6. PICK g : Sums(g, Timed, w) /\ g[{}] = 0 /\ Bytes(Timed) = g[Timed]
    BY <1>2, <1>4, <1>5, BytesAreSum
<1> DEFINE Right(m) ==
        /\ c[m] \in Counted
        /\ c[m].packets = Cardinality(S(m))
        /\ c[m].bytes = g[S(m)]
        /\ \A i \in S(m) : capture[i].time <= c[m].last
        /\ c[m].last \in {capture[i].time : i \in S(m)} \cup {0}
<1>7. n \in Nat /\ Timed \in SUBSET (1 .. n)
    BY <1>1, <1>2
<1>8. Right(0)
  <2>1. S(0) = {}
      BY <1>7, UpEnds
  <2>2. Cardinality({}) = 0
      BY FS_EmptySet
  <2>3. c[0].packets = 0 /\ c[0].bytes = 0 /\ c[0].last = 0 /\ c[0] \in Counted
      BY <1>3 DEF NothingCounted, Counted
  <2>4. g[S(0)] = 0
      BY <1>6, <2>1
  <2> HIDE DEF S
  <2> QED
      BY <2>1, <2>2, <2>3, <2>4
<1>9. ASSUME NEW m \in 1 .. n, Right(m - 1) PROVE Right(m)
  <2>1. /\ c[m] = CountLine(c[m - 1], capture[m]) /\ capture[m] \in Frames
        /\ c[m - 1] \in Counted
      BY <1>2, <1>3, <1>9
  <2>2. c[m] \in Counted
      BY <2>1, LineTyped
  <2>3. CASE m \notin Timed
    <3>1. S(m) = S(m - 1)
      <4>1. Stays(Timed, m)
          BY <1>7, <2>3, UpSteps
      <4> QED
          BY <4>1 DEF Stays
    <3>2. c[m] = c[m - 1]
        BY <1>2, <2>1, <2>3 DEF CountLine
    <3> HIDE DEF S
    <3> QED
        BY <1>9, <3>1, <3>2
  <2>4. CASE m \in Timed
    <3>1. /\ m \in S(m) /\ m \notin S(m - 1) /\ S(m) = S(m - 1) \cup {m}
          /\ S(m) \ {m} = S(m - 1) /\ S(m) \in SUBSET Timed /\ S(m - 1) \in SUBSET Timed
      <4>1. Grows(Timed, m)
          BY <1>7, <2>4, UpSteps
      <4> QED
          BY <4>1, UpTyped DEF Grows
    <3>2. Cardinality(S(m)) = Cardinality(S(m - 1)) + 1
        BY <1>7, <2>4, OneMore
    <3> HIDE DEF S
    <3>3. g[S(m)] = g[S(m - 1)] + capture[m].len
      <4>1. Adds(g, S(m), m, w)
          BY <1>4, <1>5, <1>6, <3>1, SumLast
      <4> QED
          BY <1>5, <2>4, <3>1, <4>1 DEF Adds
    <3>4. c[m] = [packets |-> c[m - 1].packets + 1,
                  bytes |-> c[m - 1].bytes + capture[m].len,
                  last |-> IF capture[m].time > c[m - 1].last
                           THEN capture[m].time ELSE c[m - 1].last]
        BY <1>2, <2>1, <2>4 DEF CountLine
    <3>5. c[m].packets = Cardinality(S(m)) /\ c[m].bytes = g[S(m)]
        BY <1>9, <3>2, <3>3, <3>4
    <3> DEFINE old == c[m - 1].last
               new == c[m].last
               time == capture[m].time
    <3>6. new = (IF time > old THEN time ELSE old) /\ old \in Int /\ time \in Int
        BY <1>2, <2>1, <2>4, <3>4 DEF Counted
    <3>7. \A i \in S(m - 1) : capture[i].time <= old /\ capture[i].time \in Int
        BY <1>2, <1>9, <3>1
    <3>8. old \in {capture[i].time : i \in S(m - 1)} \cup {0}
        BY <1>9
    <3> HIDE DEF old, new, time
    <3>9. \A i \in S(m) : capture[i].time <= new
      <4> SUFFICES ASSUME NEW i \in S(m) PROVE capture[i].time <= new
          OBVIOUS
      <4>1. CASE i = m
          BY <3>6, <4>1 DEF time
      <4>2. CASE i \in S(m - 1)
          BY <3>6, <3>7, <4>2
      <4> QED
          BY <3>1, <4>1, <4>2
    <3>10. new \in {capture[i].time : i \in S(m)} \cup {0}
      <4>1. CASE new = time
          BY <3>1, <4>1 DEF time
      <4>2. CASE new = old
          BY <3>1, <3>8, <4>2
      <4> QED
          BY <3>6, <4>1, <4>2
    <3> QED
        BY <2>2, <3>5, <3>9, <3>10 DEF new
  <2> QED
      BY <2>3, <2>4
<1> DEFINE P == {m \in 0 .. n : ~Right(m)}
<1> HIDE DEF Right
<1>10. P = {}
  <2> SUFFICES ASSUME P # {} PROVE FALSE
      OBVIOUS
  <2>1. PICK m \in P : \A j \in P : m <= j
    <3>1. P \subseteq Nat
        BY <1>1
    <3> HIDE DEF P
    <3> QED
        BY <3>1, LeastNumber
  <2>2. m \in 0 .. n /\ ~Right(m)
      BY <2>1
  <2>3. m # 0
      BY <1>8, <2>2
  <2>4. m \in 1 .. n /\ m - 1 \in 0 .. n /\ ~(m <= m - 1)
      BY <1>1, <2>2, <2>3
  <2>5. Right(m - 1)
    <3>1. m - 1 \notin P
      <4> HIDE DEF P
      <4> QED
          BY <2>1, <2>4
    <3> QED
        BY <2>4, <3>1
  <2> QED
      BY <1>9, <2>2, <2>4, <2>5
<1>11. Right(n)
  <2>1. n \in 0 .. n
      BY <1>1
  <2> QED
      BY <1>10, <2>1
<1>12. S(n) = Timed
    BY <1>7, UpEnds
<1>13. all = c[n]
    BY <1>3
<1> QED
    BY <1>6, <1>11, <1>12, <1>13 DEF Right

(* The second counts the MQTT frames of which the length parses, and how   *)
(* many there are of every type.                                           *)
LEMMA SecondLoopCounts ==
    ASSUME capture \in Seq(Frames), NEW mqtt, mqtt = CountMqtt(capture)
    PROVE  /\ mqtt.packets = Cardinality({i \in Parsed : capture[i].type # NotMqtt})
           /\ mqtt.bytes = Bytes({i \in Parsed : capture[i].type # NotMqtt})
           /\ \A t \in MsgType \cup {Unknown} : mqtt.types[t] = Cardinality(OfType(t))
<1> DEFINE n == Len(capture)
           M == {i \in Parsed : capture[i].type # NotMqtt}
           Types == MsgType \cup {Unknown}
           S(m) == Up(M, m)
           K(t, m) == Up(OfType(t), m)
           w == [i \in M |-> capture[i].len]
<1>1. n \in Nat
    BY LenProperties
<1> HIDE DEF n
<1>2. /\ \A i \in 1 .. n : capture[i] \in Frames
      /\ Parsed \in SUBSET (1 .. n)
      /\ \A i \in Parsed : capture[i].len \in Nat
      /\ \A i \in 1 .. n : i \in Parsed <=> capture[i].len # Bad
    BY <1>1, Positions DEF n
<1>3. n \in Nat /\ M \in SUBSET (1 .. n) /\ M \in SUBSET Parsed
    BY <1>1, <1>2
<1>4. PICK c : /\ c[0] = NoMqttCounted
               /\ \A m \in 1 .. n : c[m] = CountMqttLine(c[m - 1], capture[m])
               /\ CountMqtt(capture) = c[n]
    BY <1>1, SecondLoop DEF n
<1>5. IsFiniteSet(M)
  <2>1. IsFiniteSet(1 .. n)
      BY <1>1, FS_Interval
  <2> HIDE DEF M
  <2> QED
      BY <1>3, <2>1, FS_Subset
<1>6. w \in [M -> Int] /\ \A i \in M : w[i] = capture[i].len
  <2>1. \A i \in M : capture[i].len \in Int
      BY <1>2
  <2> HIDE DEF M
  <2> QED
      BY <2>1
<1>7. \A i \in 1 .. n : i \in M <=> ~(capture[i].type = NotMqtt \/ capture[i].len = Bad)
    BY <1>2
<1>8. /\ \A t \in Types : OfType(t) \in SUBSET (1 .. n)
      /\ \A t \in Types : \A i \in 1 .. n :
            i \in OfType(t) <=> i \in M /\ capture[i].type = t
      /\ \A i \in M : capture[i].type \in Types
  <2>1. \A t \in Types : t # NotMqtt
      BY TypesAssumption
  <2>2. \A t \in Types : OfType(t) = {i \in M : capture[i].type = t}
      BY <2>1 DEF OfType
  <2>3. \A i \in M : capture[i].type \in Types
      BY <1>3, <1>2, LineTyped
  <2> HIDE DEF M, Types
  <2> QED
      BY <1>3, <2>2, <2>3
<1> HIDE DEF w, M
<1>9. PICK g : Sums(g, M, w) /\ g[{}] = 0 /\ Bytes(M) = g[M]
    BY <1>3, <1>5, <1>6, BytesAreSum
<1> DEFINE Right(m) ==
        /\ c[m] \in MqttCounted
        /\ c[m].packets = Cardinality(S(m))
        /\ c[m].bytes = g[S(m)]
        /\ \A t \in Types : c[m].types[t] = Cardinality(K(t, m))
<1>10. Right(0)
  <2>1. S(0) = {}
      BY <1>3, UpEnds
  <2>2. Cardinality({}) = 0
      BY FS_EmptySet
  <2>3. ASSUME NEW t \in Types PROVE K(t, 0) = {}
      BY <1>3, <1>8, UpEnds
  <2>4. /\ c[0] \in MqttCounted /\ c[0].packets = 0 /\ c[0].bytes = 0
        /\ \A t \in Types : c[0].types[t] = 0
      BY <1>4 DEF NoMqttCounted, MqttCounted
  <2>5. g[S(0)] = 0
      BY <1>9, <2>1
  <2> HIDE DEF S, K, Types
  <2> QED
      BY <2>1, <2>2, <2>3, <2>4, <2>5
<1>11. ASSUME NEW m \in 1 .. n, Right(m - 1) PROVE Right(m)
  <2>1. /\ c[m] = CountMqttLine(c[m - 1], capture[m]) /\ capture[m] \in Frames
        /\ c[m - 1] \in MqttCounted
      BY <1>2, <1>4, <1>11
  <2>2. c[m] \in MqttCounted
      BY <2>1, LineTyped
  <2>3. ASSUME NEW t \in Types, m \notin OfType(t) PROVE K(t, m) = K(t, m - 1)
    <3>1. Stays(OfType(t), m)
        BY <1>3, <1>8, <2>3, UpSteps
    <3> QED
        BY <3>1 DEF Stays
  <2>4. CASE m \notin M
    <3>1. S(m) = S(m - 1)
      <4>1. Stays(M, m)
          BY <1>3, <2>4, UpSteps
      <4> QED
          BY <4>1 DEF Stays
    <3>2. c[m] = c[m - 1]
        BY <1>7, <2>1, <2>4 DEF CountMqttLine
    <3>3. \A t \in Types : K(t, m) = K(t, m - 1)
        BY <1>8, <2>3, <2>4
    <3> HIDE DEF S, K, Types
    <3> QED
        BY <1>11, <3>1, <3>2, <3>3
  <2>5. CASE m \in M
    <3>1. m \in S(m) /\ S(m) \ {m} = S(m - 1) /\ S(m) \in SUBSET M
      <4>1. Grows(M, m)
          BY <1>3, <2>5, UpSteps
      <4> QED
          BY <4>1, UpTyped DEF Grows
    <3> HIDE DEF S
    <3>7. Cardinality(S(m)) = Cardinality(S(m - 1)) + 1
      <4>1. Cardinality(Up(M, m)) = Cardinality(Up(M, m - 1)) + 1
          BY <1>3, <2>5, OneMore
      <4> QED
          BY <4>1 DEF S
    <3>2. g[S(m)] = g[S(m - 1)] + capture[m].len
      <4>1. Adds(g, S(m), m, w)
          BY <1>5, <1>6, <1>9, <3>1, SumLast
      <4> QED
          BY <1>6, <2>5, <3>1, <4>1 DEF Adds
    <3> DEFINE type == capture[m].type
    <3>3. /\ c[m].packets = c[m - 1].packets + 1
          /\ c[m].bytes = c[m - 1].bytes + capture[m].len
          /\ c[m].types = [c[m - 1].types EXCEPT ![type] = @ + 1]
        BY <1>7, <2>1, <2>5 DEF CountMqttLine
    <3>4. c[m].packets = Cardinality(S(m)) /\ c[m].bytes = g[S(m)]
        BY <1>11, <3>2, <3>3, <3>7
    <3>5. c[m - 1].types \in [Types -> Nat] /\ type \in Types
        BY <1>8, <2>1, <2>5 DEF MqttCounted
    <3>6. ASSUME NEW t \in Types PROVE c[m].types[t] = Cardinality(K(t, m))
      <4>1. c[m - 1].types[t] = Cardinality(K(t, m - 1))
          BY <1>11
      <4>2. CASE t = type
        <5>1. m \in OfType(t)
            BY <1>8, <2>5, <4>2
        <5>2. Cardinality(K(t, m)) = Cardinality(K(t, m - 1)) + 1
            BY <1>3, <1>8, <5>1, OneMore
        <5>3. c[m].types[t] = c[m - 1].types[t] + 1
            BY <3>3, <3>5, <4>2
        <5> QED
            BY <4>1, <5>2, <5>3
      <4>3. CASE t # type
        <5>1. m \notin OfType(t)
            BY <1>8, <4>3
        <5>2. K(t, m) = K(t, m - 1)
            BY <2>3, <5>1
        <5>3. c[m].types[t] = c[m - 1].types[t]
            BY <3>3, <3>5, <4>3
        <5> QED
            BY <4>1, <5>2, <5>3
      <4> QED
          BY <4>2, <4>3
    <3> QED
        BY <2>2, <3>4, <3>6
  <2> QED
      BY <2>4, <2>5
<1> DEFINE P == {m \in 0 .. n : ~Right(m)}
<1> HIDE DEF Right
<1>12. P = {}
  <2> SUFFICES ASSUME P # {} PROVE FALSE
      OBVIOUS
  <2>1. PICK m \in P : \A j \in P : m <= j
    <3>1. P \subseteq Nat
        BY <1>1
    <3> HIDE DEF P
    <3> QED
        BY <3>1, LeastNumber
  <2>2. m \in 0 .. n /\ ~Right(m)
      BY <2>1
  <2>3. m # 0
      BY <1>10, <2>2
  <2>4. m \in 1 .. n /\ m - 1 \in 0 .. n /\ ~(m <= m - 1)
      BY <1>1, <2>2, <2>3
  <2>5. Right(m - 1)
    <3>1. m - 1 \notin P
      <4> HIDE DEF P
      <4> QED
          BY <2>1, <2>4
    <3> QED
        BY <2>4, <3>1
  <2> QED
      BY <1>11, <2>2, <2>4, <2>5
<1>13. Right(n)
  <2>1. n \in 0 .. n
      BY <1>1
  <2> QED
      BY <1>12, <2>1
<1>14. S(n) = M /\ \A t \in Types : K(t, n) = OfType(t)
    BY <1>3, <1>8, UpEnds
<1>15. mqtt = c[n]
    BY <1>4
<1>16. mqtt.packets = Cardinality(M) /\ mqtt.bytes = Bytes(M)
    BY <1>9, <1>13, <1>14, <1>15 DEF Right
<1>17. \A t \in Types : mqtt.types[t] = Cardinality(OfType(t))
    BY <1>13, <1>14, <1>15 DEF Right
<1> QED
    BY <1>16, <1>17 DEF M

-----------------------------------------------------------------------------
(* The numbers are those of the capture they are in the file of.           *)
CaptureInv ==
    /\ capture \in Seq(Frames)
    /\ file_size_bytes \in FileSizes
    /\ result = analyze_pcap(capture, file_size_bytes)

LEMMA AnalysisIsRight == CaptureInv => CountsRight
<1> SUFFICES ASSUME CaptureInv, ~result.raises PROVE CountsRight
    BY DEF CountsRight
<1>1. /\ capture \in Seq(Frames) /\ file_size_bytes \in Int
      /\ result = analyze_pcap(capture, file_size_bytes)
    BY FileSizesAssumption DEF CaptureInv
<1> DEFINE all == CountFrames(capture)
           mqtt == CountMqtt(capture)
<1>2. capture # <<>>
  <2>1. capture = <<>> => result.raises
      BY <1>1 DEF analyze_pcap, Raises
  <2> QED
      BY <2>1
<1>3. /\ result.total_packets = all.packets
      /\ result.total_wire_bytes = all.bytes
      /\ result.duration_seconds = all.last
      /\ result.mqtt_packet_types = mqtt.types
      /\ result.mqtt_packets = mqtt.packets
      /\ result.mqtt_wire_bytes = mqtt.bytes
      /\ \E p : result.overhead_percentage = Ratio(p, file_size_bytes)
      /\ result.goodput_mbps = Ratio(file_size_bytes * 8, all.last)
      /\ result.wire_throughput_mbps = Ratio(all.bytes * 8, all.last)
    BY <1>1, <1>2 DEF analyze_pcap
<1> HIDE DEF all, mqtt
<1>4. /\ all \in Counted /\ all.packets = Cardinality(Timed) /\ all.bytes = Bytes(Timed)
      /\ \A i \in Timed : capture[i].time <= all.last
      /\ all.last \in {capture[i].time : i \in Timed} \cup {0}
    BY <1>1, FirstLoopCounts DEF all
<1>5. /\ mqtt.packets = Cardinality({i \in Parsed : capture[i].type # NotMqtt})
      /\ mqtt.bytes = Bytes({i \in Parsed : capture[i].type # NotMqtt})
      /\ \A t \in MsgType \cup {Unknown} : mqtt.types[t] = Cardinality(OfType(t))
    BY <1>1, SecondLoopCounts DEF mqtt
<1>6. result.duration_seconds > 0 =>
          (result.goodput_mbps[1] > result.wire_throughput_mbps[1]
              <=> Bytes(Timed) < file_size_bytes)
  <2> SUFFICES ASSUME all.last > 0
               PROVE  result.goodput_mbps[1] > result.wire_throughput_mbps[1]
                          <=> Bytes(Timed) < file_size_bytes
      BY <1>3
  <2>1. /\ result.goodput_mbps[1] = file_size_bytes * 8
        /\ result.wire_throughput_mbps[1] = all.bytes * 8
      BY <1>3 DEF Ratio
  <2>2. all.bytes \in Nat /\ file_size_bytes \in Int
      BY <1>1, <1>4 DEF Counted
  <2>3. file_size_bytes * 8 > all.bytes * 8 <=> all.bytes < file_size_bytes
      BY <2>2
  <2> QED
      BY <1>4, <2>1, <2>3
<1>7. \A q \in {result.overhead_percentage, result.wire_throughput_mbps,
                 result.goodput_mbps} : q[2] > 0
  <2>1. ASSUME NEW p, NEW q \in Int PROVE Ratio(p, q)[2] > 0
      BY DEF Ratio
  <2>2. all.last \in Int
      BY <1>4 DEF Counted
  <2> QED
      BY <1>1, <1>3, <2>1, <2>2
<1> QED
    BY <1>3, <1>4, <1>5, <1>6, <1>7 DEF CountsRight

(* pcap_analyzer.py:78-169.  Of every capture, of any length, the loops    *)
(* count every frame they should exactly once.                             *)
THEOREM CountsAreRight == CaptureSpec => []CountsRight
<1>1. CaptureInit => CaptureInv
  <2> SUFFICES ASSUME CaptureInit PROVE CaptureInv
      OBVIOUS
  <2>1. <<>> \in Seq(Frames)
      BY EmptySeq
  <2> QED
      BY <2>1 DEF CaptureInit, CaptureInv
<1>2. CaptureInv /\ [CaptureNext]_captureVars => CaptureInv'
  <2> SUFFICES ASSUME CaptureInv, [CaptureNext]_captureVars PROVE CaptureInv'
      OBVIOUS
  <2>1. CASE CaptureNext
    <3>1. PICK frame \in Frames : capture' = Append(capture, frame)
        BY <2>1 DEF CaptureNext
    <3>2. capture' \in Seq(Frames)
        BY <3>1, AppendProperties DEF CaptureInv
    <3>3. file_size_bytes' = file_size_bytes /\ result' = analyze_pcap(capture', file_size_bytes)
        BY <2>1 DEF CaptureNext
    <3> QED
        BY <3>2, <3>3 DEF CaptureInv
  <2>2. CASE UNCHANGED captureVars
      BY <2>2 DEF captureVars, CaptureInv
  <2> QED
      BY <2>1, <2>2
<1> QED
    BY <1>1, <1>2, AnalysisIsRight, PTL DEF CaptureSpec
=============================================================================
