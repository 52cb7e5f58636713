--------------------------- MODULE MeasurementLog ---------------------------
(***************************************************************************)
(* output/write_csv.py: write_to_csv and the five write_to_file_* through  *)
(* which the clients call it.  Several processes append to one file: the   *)
(* MQTT sender and receiver share theirs through the mounted directory and *)
(* nothing orders them, and the two versions of the HTTP and of the CoAP   *)
(* client write different columns to a file of the same name.  A call      *)
(* looks whether the file exists, opens it for appending, which creates    *)
(* it, and closes it, which is when what it wrote reaches the file: the    *)
(* header, if the file did not exist at the look, and the rows.            *)
(***************************************************************************)
EXTENDS Integers, Sequences, SequencesExt, FiniteSets

CONSTANTS
    Writer,      \* the processes that measure
    WritesTo,    \* WritesTo[w]: the suffix of the write_to_file_* it calls
    Suffix,      \* Suffix[w]: its MEASUREMENT_SUFFIX
    MaxCalls,    \* bound: calls each process makes
    MaxKills     \* bound: processes killed

ASSUME WriterAssumption == IsFiniteSet(Writer)
ASSUME WritesToAssumption ==
    WritesTo \in [Writer -> {"http", "http_2", "mqtt", "coap", "coap_2"}]
ASSUME SuffixAssumption == DOMAIN Suffix = Writer
ASSUME CallsAssumption == MaxCalls \in Nat /\ MaxKills \in Nat

(* The column lists of the five functions differ; the protocol in the file *)
(* name is the same for both versions.                                     *)
protocol(kind) ==
    CASE kind \in {"http", "http_2"} -> "http"
      [] kind = "mqtt" -> "mqtt"
      [] kind \in {"coap", "coap_2"} -> "coap"

_measurement_file(w) == <<protocol(WritesTo[w]), Suffix[w]>>
Path == {_measurement_file(w) : w \in Writer}

(* A line is a header, with its columns, or the row of a writer's n-th     *)
(* call.                                                                   *)
Header(w) == [kind |-> "header", fieldnames |-> WritesTo[w]]
Row(w, n) == [kind |-> "row", writer |-> w, call |-> n]

VARIABLES
    exists,       \* exists[p]: is the file there
    lines,        \* lines[p]: its lines
    at,           \* at[w]: where writer w is in write_to_csv
    file_exists,  \* file_exists[w]: what its os.path.isfile returned
    calls,        \* calls[w]: the calls it has begun
    written,      \* history: the rows of the calls that returned
    overlapped,   \* history: the files that a call began to look for while
                  \* another, which had not closed it, had not found it
    dead          \* the writers that were killed

logVars == <<exists, lines, at, file_exists, calls, written, overlapped, dead>>

LogInit ==
    /\ exists = [p \in Path |-> FALSE]
    /\ lines = [p \in Path |-> <<>>]
    /\ at = [w \in Writer |-> "outside"]
    /\ file_exists = [w \in Writer |-> FALSE]
    /\ calls = [w \in Writer |-> 0]
    /\ written = {} /\ overlapped = {} /\ dead = {}

Move(w, from, to) == w \notin dead /\ at[w] = from /\ at' = [at EXCEPT ![w] = to]

(* A writer that is between its look and its close, and found no file.     *)
Creating(v) == v \notin dead /\ at[v] # "outside" /\ ~file_exists[v]

NotFound(w) == FALSE   \* mutant: the file is taken to be missing

Found(w) == exists[_measurement_file(w)]

(* file_exists = os.path.isfile(output_path)                               *)
LookAs(w, found) ==
    /\ Move(w, "outside", "looked")
    /\ calls[w] < MaxCalls
    /\ calls' = [calls EXCEPT ![w] = @ + 1]
    /\ file_exists' = [file_exists EXCEPT ![w] = found]
    /\ overlapped' =
          IF \E v \in Writer : Creating(v) /\ _measurement_file(v) = _measurement_file(w)
          THEN overlapped \cup {_measurement_file(w)} ELSE overlapped
    /\ UNCHANGED <<exists, lines, written, dead>>

Look(w) == LookAs(w, Found(w))

(* open(output_path, 'a')                                                  *)
Open(w) ==
    /\ Move(w, "looked", "open")
    /\ exists' = [exists EXCEPT ![_measurement_file(w)] = TRUE]
    /\ UNCHANGED <<lines, file_exists, calls, written, overlapped, dead>>

HeaderIfFound(w) ==   \* mutant: the test of the header is inverted
    (IF file_exists[w] THEN <<Header(w)>> ELSE <<>>) \o <<Row(w, calls[w])>>

(* What the call writes: the header if it found no file, and the rows.     *)
Output(w) ==
    (IF file_exists[w] THEN <<>> ELSE <<Header(w)>>) \o <<Row(w, calls[w])>>

Overwritten(w) == Output(w)   \* mutant: mode "w", the file starts again

Appended(w) == lines[_measurement_file(w)] \o Output(w)

(* writeheader, writerows and the end of the with block: one append.       *)
Close(w) ==
    /\ Move(w, "open", "outside")
    /\ lines' = [lines EXCEPT ![_measurement_file(w)] = Appended(w)]
    /\ written' = written \cup {Row(w, calls[w])}
    /\ UNCHANGED <<exists, file_exists, calls, overlapped, dead>>

(* The process is killed: it stops where it is, and what it has not yet    *)
(* written is lost.                                                        *)
Kill(w) ==
    /\ w \notin dead
    /\ Cardinality(dead) < MaxKills
    /\ dead' = dead \cup {w}
    /\ UNCHANGED <<exists, lines, at, file_exists, calls, written, overlapped>>

LogNext == \E w \in Writer : Look(w) \/ Open(w) \/ Close(w) \/ Kill(w)

LogSpec == LogInit /\ [][LogNext]_logVars

-----------------------------------------------------------------------------
RowsIn(p) == {i \in DOMAIN lines[p] : lines[p][i].kind = "row"}
HeadersIn(p) == DOMAIN lines[p] \ RowsIn(p)

(* The row of every call that returned is in its own file, once, and each  *)
(* process's rows are in the order of its calls.                           *)
RowsKept ==
    /\ written = UNION {{lines[p][i] : i \in RowsIn(p)} : p \in Path}
    /\ \A p \in Path : \A i, k \in RowsIn(p) :
          lines[p][i].writer = lines[p][k].writer /\ i < k =>
              lines[p][i].call < lines[p][k].call

(* A file begins with a header, that of the process whose row is the       *)
(* first, and has no other, as long as no two first writes overlap and the *)
(* process that created the file did not die before it closed it: the      *)
(* look, the open and the write are three steps, so both conditions are    *)
(* needed.  The columns of a later row may still be another version's.     *)
OneHeaderFirst ==
    \A p \in Path \ overlapped :
        /\ lines[p] # <<>>
        /\ \A w \in dead :
              at[w] = "open" /\ _measurement_file(w) = p => file_exists[w]
        => HeadersIn(p) = {1} /\ lines[p][1] = Header(lines[p][2].writer)

(* However the writers overlap there is at most one header of each of      *)
(* them: a writer that has written once never writes a header again.       *)
HeadersBounded ==
    \A p \in Path : Cardinality(HeadersIn(p))
        <= Cardinality({w \in Writer : _measurement_file(w) = p})
=============================================================================
