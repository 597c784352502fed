----------------------------- MODULE LedgerSpec -----------------------------
(***************************************************************************)
(* What the Ledger service promises, independently of how the server is    *)
(* written.  The ledger goes through a sequence of versions, each made     *)
(* from the one before by one whole block.  A GetOutputs call is answered  *)
(* with the outputs of some version, a watermark tip of that version or a  *)
(* later one, and a height of a version at least as recent again: all      *)
(* three were current at some moment of the call, in that order.  That the *)
(* three be of one version is more than the code does.                     *)
(***************************************************************************)
EXTENDS LedgerData

VARIABLES
    versions,       \* every version so far, the current one last
    began,          \* began[c]: the version current when c's call began, 0 if none
    asked,          \* asked[c]: the query of c's call, or of its last one
    answer          \* answer[c]: the answer c holds, as a set of at most one

vars == <<versions, began, asked, answer>>

Init ==
    /\ versions = <<Genesis>>
    /\ began = [c \in Client |-> 0]
    /\ asked \in [Client -> Query]
    /\ answer = [c \in Client |-> {}]

Install(b) ==
    /\ ValidBlock(b)
    /\ versions' = Append(versions, StateAfter(versions[Len(versions)], b))
    /\ UNCHANGED <<began, asked, answer>>

Begin(c, q) ==
    /\ began[c] = 0
    /\ ValidQuery(q)
    /\ began' = [began EXCEPT ![c] = Len(versions)]
    /\ asked' = [asked EXCEPT ![c] = q]
    /\ answer' = [answer EXCEPT ![c] = {}]
    /\ UNCHANGED versions

Refuse(c, q) ==
    /\ began[c] = 0
    /\ ~ValidQuery(q)
    /\ asked' = [asked EXCEPT ![c] = q]
    /\ answer' = [answer EXCEPT ![c] = {}]
    /\ UNCHANGED <<versions, began>>

\* The answer that reads outputs, tip and height from versions i, j and k.
AnswerAt(q, i, j, k) ==
    [outputs |-> Lookup(versions[i].utxos, q),
     tip     |-> versions[j].tip,
     height  |-> versions[k].height]

Return(c) ==
    /\ began[c] # 0
    /\ \E i, j, k \in began[c]..Len(versions) :
          /\ i <= j /\ j <= k
          /\ answer' = [answer EXCEPT ![c] = {AnswerAt(asked[c], i, j, k)}]
    /\ began' = [began EXCEPT ![c] = 0]
    /\ UNCHANGED <<versions, asked>>

Next ==
    \/ \E b \in Block : Install(b)
    \/ \E c \in Client, q \in Query : Begin(c, q) \/ Refuse(c, q)
    \/ \E c \in Client : Return(c)

Spec == Init /\ [][Next]_vars
=============================================================================
