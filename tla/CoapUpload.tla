----------------------------- MODULE CoapUpload -----------------------------
(***************************************************************************)
(* The CoAP benchmark: transfer_all_files of coap_client_v2.py and of      *)
(* coap_client.py (versions 2 and 1), one asyncio task that uploads the    *)
(* files of DATA_DIR one after the other, and the server's render_put,     *)
(* which never awaits and so handles a request in one step.                *)
(* aiocoap's blockwise exchange is one request and one response; it either *)
(* returns the response or raises.  A request whose attempt was given up   *)
(* may still reach the server, at any later time, or never.                *)
(***************************************************************************)
EXTENDS Integers, Sequences, SequencesExt, FiniteSets

CONSTANTS
    Files,             \* the names of the .bin files, sequences of characters;
                       \* an escape like %3D is one, and so is "&file="
    Unquoted,          \* Unquoted[c]: the character the escape c stands for
    FileSize,          \* FileSize[f]: bytes
    MAX_RETRIES,
    Versions,          \* 1: coap_client, coap_server; 2: their v2 modules
    ServerHasDataDir,  \* does the server's DATA_DIR exist
    Torn,              \* what a save that failed part-way leaves
    None

ASSUME FilesAssumption == IsFiniteSet(Files)
ASSUME FileSizeAssumption == FileSize \in [Files -> Nat]
ASSUME RetriesAssumption == MAX_RETRIES \in Nat \ {0}
ASSUME VersionsAssumption == Versions \subseteq {1, 2}
ASSUME DataDirAssumption == ServerHasDataDir \in BOOLEAN
ASSUME NoneAssumption == None \notin {"2.04", "4.00", "5.00"}

VARIABLES
    version,     \* the version of client and server that runs
    pc,          \* where the client is
    files,       \* what load_binary_files returned, in the order it is used
    todo,        \* the rest of the for loop over them
    attempt,
    response,    \* None or the code of the response
    rows,        \* the CSV rows; "file" is not in the file, it names the row
    requests,    \* PUTs that are on their way
    responses,   \* responses that are on their way
    output_dir,  \* does the server's OUTPUT_DIR exist
    saved,       \* OUTPUT_DIR: name -> content
    torn,        \* history: the names a save failed part-way for
    gone,        \* history: files deleted after they were listed
    tries        \* history: tries[f], the attempts made for f

client == <<pc, files, todo, attempt, response, rows, gone, tries>>
server == <<output_dir, saved, torn>>
vars == <<version, client, server, requests, responses>>

-----------------------------------------------------------------------------
(* What stands before the first character that is in stops.                *)
UpTo(s, stops) ==
    LET n == SelectInSeq(s, LAMBDA c : c \in stops)
    IN  IF n = 0 THEN s ELSE SubSeq(s, 1, n - 1)

(* aiocoap refuses a URI with a fragment.                                  *)
HasFragment(f) == "#" \in ToSet(f)

unquote(s) == [i \in DOMAIN s |-> IF s[i] \in DOMAIN Unquoted THEN Unquoted[s[i]]
                                                            ELSE s[i]]

(* The name render_put finds in the query "file=<name>&checksum=<hex>".    *)
(* aiocoap cuts the query at every "&" and then decodes each part; the     *)
(* last part that starts with "file=" counts.  Version 1 takes what stands *)
(* between its first two "=", version 2 all that follows the first.        *)
FileParameter(v, f) ==
    LET n == SelectLastInSeq(f, LAMBDA c : c = "&file=")
        name == unquote(UpTo(SubSeq(f, n + 1, Len(f)), {"&"}))
    IN  IF v = 2 THEN name ELSE UpTo(name, {"="})

SavedName(f) == FileParameter(version, f)

Unsorted(S) ==   \* mutant: in the order of the directory
    {s \in [1 .. Cardinality(S) -> S] : ToSet(s) = S}

(* load_binary_files sorts by size; version 1 sorts its result by name,    *)
(* which is any order here.                                                *)
ListOrders(S) ==
    {s \in [1 .. Cardinality(S) -> S] :
        /\ ToSet(s) = S
        /\ version = 2 =>
              \A i, k \in DOMAIN s : i < k => FileSize[s[i]] <= FileSize[s[k]]}

Init ==
    /\ version \in Versions
    /\ pc = "start"
    /\ files = <<>> /\ todo = <<>>
    /\ attempt = 0
    /\ response = None
    /\ rows = <<>>
    /\ requests = {} /\ responses = {}
    /\ output_dir \in BOOLEAN
    /\ saved = [n \in {SavedName(f) : f \in Files} |-> None]
    /\ torn = {} /\ gone = {}
    /\ tries = [f \in Files |-> 0]

filename == Head(todo)

(* load_binary_files: it raises when there is no file.                     *)
LoadFiles ==
    /\ pc = "start"
    /\ \E S \in SUBSET Files :
          IF S = {} THEN pc' = "failed" /\ UNCHANGED <<files, todo>>
          ELSE /\ pc' = "next"
               /\ files' \in ListOrders(S)
               /\ todo' = files'
    /\ UNCHANGED <<attempt, response, rows, gone, tries, server,
                   requests, responses>>

(* transfer_file returns at once when the file is no longer there.         *)
FileNotFound ==
    /\ pc = "next" /\ todo # <<>>
    /\ gone' = gone \cup {filename}
    /\ todo' = Tail(todo)
    /\ UNCHANGED <<pc, files, attempt, response, rows, tries, server,
                   requests, responses>>

(* It is there, but open() or the read raises, outside of any try: the     *)
(* program ends.                                                           *)
OpenFails ==
    /\ pc = "next" /\ todo # <<>>
    /\ pc' = "failed"
    /\ UNCHANGED <<files, todo, attempt, response, rows, gone, tries, server,
                   requests, responses>>

(* The file is read, and get_latency returns whatever happens: a failed    *)
(* probe is a 0.0 in the row and nothing else.                             *)
MeasureLatency ==
    /\ pc = "next" /\ todo # <<>>
    /\ pc' = "request"
    /\ UNCHANGED <<files, todo, attempt, response, rows, gone, tries, server, requests,
                   responses>>

(* A Message that cannot be built is an attempt that sends nothing.        *)
SendPut ==
    /\ pc = "request"
    /\ IF HasFragment(filename)
       THEN UNCHANGED requests
       ELSE requests' = requests \cup {[file |-> filename, attempt |-> attempt]}
    /\ tries' = [tries EXCEPT ![filename] = @ + 1]
    /\ pc' = "waiting"
    /\ UNCHANGED <<files, todo, attempt, response, rows, gone, server,
                   responses>>

(* The response to this attempt arrives and ends the loop.                 *)
Answered ==
    /\ pc = "waiting"
    /\ \E r \in responses :
          /\ r.file = filename /\ r.attempt = attempt
          /\ response' = r.code
          /\ responses' = responses \ {r}
    /\ pc' = "row"
    /\ UNCHANGED <<files, todo, attempt, rows, gone, tries, server, requests>>

(* The attempt raises: back-off, then the next attempt if one is left.     *)
NoRetry ==          \* mutant: the loop ends with the exception
    /\ pc = "waiting"
    /\ attempt' = attempt + 1
    /\ pc' = "row"
    /\ UNCHANGED <<files, todo, response, rows, gone, tries, server,
                   requests, responses>>

AttemptFails ==
    /\ pc = "waiting"
    /\ attempt' = attempt + 1
    /\ pc' = IF attempt + 1 < MAX_RETRIES THEN "request" ELSE "row"
    /\ UNCHANGED <<files, todo, response, rows, gone, tries, server,
                   requests, responses>>

(* transfer_file returns: its local variables go with it.                  *)
Return ==
    /\ pc' = "next"
    /\ todo' = Tail(todo)
    /\ attempt' = 0
    /\ response' = None

WaitAgain ==      \* mutant: a response that did not come is awaited again
    /\ pc = "row" /\ response = None
    /\ pc' = "waiting" /\ attempt' = MAX_RETRIES - 1
    /\ UNCHANGED <<files, todo, response, rows, gone, tries,
                   server, requests, responses>>

GiveUp ==
    /\ pc = "row" /\ response = None
    /\ Return
    /\ UNCHANGED <<files, rows, gone, tries, server, requests, responses>>

not_rejected(code) == code # "4.00"   \* mutant: only a mismatch is a failure

is_successful(code) == code = "2.04"

WriteRow ==
    /\ pc = "row" /\ response # None
    /\ FileSize[filename] > 0
    /\ rows' = Append(rows, [file |-> filename,
                             integrity_ok |-> is_successful(response)])
    /\ Return
    /\ UNCHANGED <<files, gone, tries, server, requests, responses>>

(* overhead_pct divides by the size of the file, outside of any try: the   *)
(* whole program ends.                                                     *)
DivisionByZero ==
    /\ pc = "row" /\ response # None
    /\ FileSize[filename] = 0
    /\ pc' = "failed"
    /\ UNCHANGED <<files, todo, attempt, response, rows, gone, tries,
                   server, requests, responses>>

AllDone ==
    /\ pc = "next" /\ todo = <<>>
    /\ pc' = "done"
    /\ UNCHANGED <<files, todo, attempt, response, rows, gone, tries,
                   server, requests, responses>>

ClientStep ==
    \/ LoadFiles \/ FileNotFound \/ OpenFails \/ MeasureLatency \/ SendPut
    \/ Answered \/ AttemptFails \/ GiveUp \/ WriteRow \/ DivisionByZero \/ AllDone

-----------------------------------------------------------------------------
Respond(q, code) ==
    responses' = responses \cup
        {[file |-> q.file, attempt |-> q.attempt, code |-> code]}

(* The digest of the payload is not the one in the query.                  *)
RejectPut(q) == Respond(q, "4.00") /\ UNCHANGED server

(* output_directory_exists makes OUTPUT_DIR, but only when DATA_DIR is     *)
(* missing: that is the directory it looks for.                            *)
output_directory_exists == output_dir' = (output_dir \/ ~ServerHasDataDir)

SavePut(q) ==
    /\ output_directory_exists
    /\ output_dir'
    /\ saved' = [saved EXCEPT ![SavedName(q.file)] = q.file]
    /\ Respond(q, "2.04")
    /\ UNCHANGED torn

(* save_file raises, and aiocoap answers 5.00: the directory is missing or *)
(* the file cannot be opened, and nothing changes, or a write fails, after *)
(* the open has truncated the file.                                        *)
SaveFails(q) ==
    /\ output_directory_exists
    /\ \/ UNCHANGED <<saved, torn>>
       \/ /\ output_dir'
          /\ saved' = [saved EXCEPT ![SavedName(q.file)] = Torn]
          /\ torn' = torn \cup {SavedName(q.file)}
    /\ Respond(q, "5.00")

RenderPut ==
    /\ \E q \in requests, damaged \in BOOLEAN :
          /\ requests' = requests \ {q}
          /\ IF damaged THEN RejectPut(q) ELSE SavePut(q) \/ SaveFails(q)
    /\ UNCHANGED client

Stopped == pc \in {"done", "failed"} /\ UNCHANGED vars

Next == (ClientStep \/ RenderPut \/ Stopped) /\ UNCHANGED version

(* The event loop runs the client whenever its await is over; no request   *)
(* hangs for ever, because aiocoap gives up retransmitting.  The server    *)
(* and the network owe nothing.                                            *)
Spec == Init /\ [][Next]_vars /\ WF_vars(ClientStep /\ UNCHANGED version)

-----------------------------------------------------------------------------
(* Names that reach the server as they are, with no other file of the      *)
(* client saved under them.                                                *)
Carried(f) ==
    /\ SavedName(f) = f
    /\ \A g \in Files \ {f} : SavedName(g) # f

(* coap_client_v2.py:154-157, coap_server_v2.py:16: when the name reaches  *)
(* the server as it is, a row that says integrity_ok means that the server *)
(* holds that file's bytes under that name, whatever attempt was answered  *)
(* and whatever arrives late; only a later save of that name that fails    *)
(* part-way takes it away.                                                 *)
OkMeansSaved ==
    \A i \in DOMAIN rows :
        rows[i].integrity_ok /\ Carried(rows[i].file) =>
            \/ saved[rows[i].file] = rows[i].file
            \/ rows[i].file \in torn

(* A listed file that has no row when the batch is over had all of its     *)
(* attempts raise, or was deleted: no upload is dropped without a try.     *)
MissingRowExplained ==
    pc = "done" =>
        \A f \in ToSet(files) :
            \/ \E i \in DOMAIN rows : rows[i].file = f
            \/ f \in gone
            \/ tries[f] = MAX_RETRIES

(* In version 2 an empty file is sorted to the front, so the abort it      *)
(* causes, with its answer there, costs the rows of the whole batch and    *)
(* not of a part of it.                                                    *)
AbortLosesBatch ==
    version = 2 /\ pc = "failed" /\ response # None => rows = <<>>

(* The batch ends, whatever the server and the network do.                 *)
BatchEnds == <>(pc \in {"done", "failed"})
=============================================================================
