---------------------------- MODULE FileDelivery ----------------------------
(***************************************************************************)
(* What a receiver of files promises, whatever protocol feeds it: at most  *)
(* one file is being received at a time, it grows only at its end, a       *)
(* transfer gets at most one verdict, the verdict comes as soon as the     *)
(* announced number of chunks is there and never before, and the verdict   *)
(* "intact" is only ever given to the announced content.  The verdict      *)
(* "corrupted" promises nothing here: MqttReceiver!VerdictComplete says    *)
(* when it is right.                                                       *)
(***************************************************************************)
EXTENDS Integers, Sequences

CONSTANTS File, Chunk, Content, None

VARIABLES
    current,   \* the file being received, or None
    output,    \* what the transfer has received so far, in order
    verdicts   \* the verdicts given, in the order given

dvars == <<current, output, verdicts>>

Init ==
    /\ current = None
    /\ output = <<>>
    /\ verdicts = <<>>

(* A transfer of f is announced; one in progress is given up without a     *)
(* verdict.                                                                *)
Begin(f) ==
    /\ current' = f
    /\ output' = <<>>
    /\ UNCHANGED verdicts

Receive(c) ==
    /\ current # None
    /\ Len(output) + 1 # Len(Content[current])
    /\ output' = Append(output, c)
    /\ UNCHANGED <<current, verdicts>>

Report(c, ok) ==
    /\ current # None
    /\ Len(output) + 1 = Len(Content[current])
    /\ ok => Append(output, c) = Content[current]
    /\ verdicts' = Append(verdicts, [file |-> current, ok |-> ok])
    /\ current' = None
    /\ output' = <<>>

Abandon ==
    /\ current' = None
    /\ output' = <<>>
    /\ UNCHANGED verdicts

Next ==
    \/ \E f \in File : Begin(f)
    \/ \E c \in Chunk : Receive(c) \/ \E ok \in BOOLEAN : Report(c, ok)
    \/ Abandon

Spec == Init /\ [][Next]_dvars
=============================================================================
