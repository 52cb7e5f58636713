----------------------------- MODULE HttpUpload -----------------------------
(***************************************************************************)
(* The HTTP server, flask_server.py: upload() and the save_file it calls.  *)
(* Flask's server runs every request in a thread of its own, and save_file *)
(* takes no lock: open(filepath, "wb") truncates the file, then each       *)
(* thread writes its payload, block by block, at its own offset.  Two PUTs *)
(* of one name, such as a retry that overtakes the upload it repeats, are  *)
(* therefore interleaved on the disk.                                      *)
(***************************************************************************)
EXTENDS Integers, Sequences, SequencesExt, FiniteSets

CONSTANTS
    Request,     \* the PUT requests, each handled by one thread
    File,        \* the names in their URLs
    Payload,     \* bodies: sequences of blocks
    Zeros,       \* a block that was never written, inside a file
    NoChecksum   \* an X-Checksum header that is missing

ASSUME PayloadAssumption ==
    \A p \in Payload : p \in Seq(ToSet(p)) /\ Zeros \notin ToSet(p)
ASSUME NoChecksumAssumption == NoChecksum \notin Payload

VARIABLES
    filename,  \* filename[q]: the name in the URL
    data,      \* data[q]: request.data
    expected,  \* expected[q]: X-Checksum, named by the payload it is of
    pc,        \* pc[q]: where the thread of q is
    written,   \* written[q]: the blocks its file object has written
    status,    \* status[q]: the response's status, 0 before it
    disk,      \* disk[f]: the blocks of f in OUTPUT_DIR
    latest,    \* history: latest[f], the payload of the last open of f
    spoiled    \* history: the files that threads with different payloads
               \* wrote at a time, or that a write failed on, since they were
               \* last opened by a thread alone

vars == <<filename, data, expected, pc, written, status, disk, latest, spoiled>>
request == <<filename, data, expected>>

Init ==
    /\ filename \in [Request -> File]
    /\ data \in [Request -> Payload]
    /\ expected \in [Request -> Payload \cup {NoChecksum}]
    /\ pc = [q \in Request |-> "received"]
    /\ written = [q \in Request |-> 0]
    /\ status = [q \in Request |-> 0]
    /\ disk = [f \in File |-> <<>>]
    /\ latest = [f \in File |-> <<>>]
    /\ spoiled = {}

Finish(q, code) ==
    /\ status' = [status EXCEPT ![q] = code]
    /\ pc' = [pc EXCEPT ![q] = "done"]

(* Threads that have f open, but for q.                                    *)
Others(f, q) == {r \in Request \ {q} : pc[r] = "saving" /\ filename[r] = f}

Mismatch(q) == expected[q] # NoChecksum /\ expected[q] # data[q]

Reject(q) ==
    /\ pc[q] = "received"
    /\ Mismatch(q)
    /\ Finish(q, 400)
    /\ UNCHANGED <<request, written, disk, latest, spoiled>>

(* open(filepath, "wb") truncates the file.                                *)
OpenedForUpdate(f) == disk   \* mutant: mode "r+b" leaves what is there

Truncated(f) == [disk EXCEPT ![f] = <<>>]

(* save_file opens the file.                                               *)
Open(q) ==
    LET f == filename[q]
    IN  /\ pc[q] = "received"
        /\ ~Mismatch(q)
        /\ pc' = [pc EXCEPT ![q] = "saving"]
        /\ disk' = Truncated(f)
        /\ latest' = [latest EXCEPT ![f] = data[q]]
        /\ spoiled' =
              IF Others(f, q) = {} THEN spoiled \ {f}
              ELSE IF \E r \in Others(f, q) : data[r] # data[q] THEN spoiled \cup {f}
              ELSE spoiled
        /\ UNCHANGED <<request, written, status>>

(* The blocks of a file after a block was put at an index, which may lie   *)
(* behind its end.                                                         *)
Overwrite(blocks, i, block) ==
    [k \in 1 .. IF i > Len(blocks) THEN i ELSE Len(blocks) |->
        IF k = i THEN block ELSE IF k > Len(blocks) THEN Zeros ELSE blocks[k]]

WriteBlock(q) ==
    LET f == filename[q]
        i == written[q] + 1
    IN  /\ pc[q] = "saving"
        /\ i <= Len(data[q])
        /\ disk' = [disk EXCEPT ![f] = Overwrite(@, i, data[q][i])]
        /\ written' = [written EXCEPT ![q] = i]
        /\ UNCHANGED <<request, pc, status, latest, spoiled>>

(* The open, a write or the close raises: flask answers 500.               *)
SaveFails(q) ==
    /\ \/ pc[q] = "received" /\ ~Mismatch(q) /\ UNCHANGED spoiled
       \/ pc[q] = "saving" /\ spoiled' = spoiled \cup {filename[q]}
    /\ Finish(q, 500)
    /\ UNCHANGED <<request, written, disk, latest>>

SavedShort(q) ==   \* mutant: a short write is taken for the whole
    /\ pc[q] = "saving"
    /\ written[q] >= Len(data[q]) - 1
    /\ Finish(q, 200)
    /\ UNCHANGED <<request, written, disk, latest, spoiled>>

Saved(q) ==
    /\ pc[q] = "saving"
    /\ written[q] = Len(data[q])
    /\ Finish(q, 200)
    /\ UNCHANGED <<request, written, disk, latest, spoiled>>

Answered ==
    /\ \A q \in Request : pc[q] = "done"
    /\ UNCHANGED vars

Next ==
    \/ \E q \in Request :
          Reject(q) \/ Open(q) \/ WriteBlock(q) \/ SaveFails(q) \/ Saved(q)
    \/ Answered

Spec == Init /\ [][Next]_vars

-----------------------------------------------------------------------------
(* A file nobody is writing holds the payload of the last upload that      *)
(* opened it, whole, also when uploads of that same payload overlapped:    *)
(* repeating an upload is safe.  Uploads of different payloads that        *)
(* overlapped, or a write that failed, are the only exceptions.            *)
QuietFileIsWhole ==
    \A f \in File :
        (\A q \in Request : pc[q] = "saving" => filename[q] # f) /\ f \notin spoiled
            => disk[f] = latest[f]

-----------------------------------------------------------------------------
(* Why: the inductive invariant.                                           *)
Block == {Zeros} \cup UNION {ToSet(p) : p \in Payload}

TypeOK ==
    /\ filename \in [Request -> File]
    /\ data \in [Request -> Payload]
    /\ pc \in [Request -> {"received", "saving", "done"}]
    /\ written \in [Request -> Nat]
    /\ disk \in [File -> Seq(Block)]
    /\ latest \in [File -> Payload \cup {<<>>}]
    /\ spoiled \subseteq File

Saver(q, f) == pc[q] = "saving" /\ filename[q] = f

(* A thread is inside its payload, and has not begun before it opens.      *)
InPayload ==
    \A q \in Request :
        /\ written[q] <= Len(data[q])
        /\ pc[q] = "received" => written[q] = 0

(* Those that write a file that is not spoiled write one payload.          *)
SamePayload ==
    \A q \in Request, f \in File \ spoiled : Saver(q, f) => data[q] = latest[f]

(* flask_server.py:20.  However many threads write the same payload, a     *)
(* block of it that is not in the file yet is still before one of them:    *)
(* truncating the file again only ever takes what the thread that does it  *)
(* will write.                                                             *)
StillToCome ==
    \A f \in File \ spoiled :
        /\ Len(disk[f]) <= Len(latest[f])
        /\ \A k \in 1 .. Len(latest[f]) :
              \/ k <= Len(disk[f]) /\ disk[f][k] = latest[f][k]
              \/ \E q \in Request : Saver(q, f) /\ written[q] < k

HttpInv == TypeOK /\ InPayload /\ SamePayload /\ StillToCome
=============================================================================
