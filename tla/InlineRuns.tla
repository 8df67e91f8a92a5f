------------------------------ MODULE InlineRuns ------------------------------
(***************************************************************************)
(* The runs that the request itself executes, in one transaction: building *)
(* a knowledge graph, exporting a case, checking a package to import.      *)
(*                                                                         *)
(* The row is flushed as RUNNING at the start, and committed with what the *)
(* run produced at the end.  When the work raises, the handler does not    *)
(* roll back: it marks the row FAILED and commits whatever the session     *)
(* holds.  Runs share no row, so a requester makes one run and is its id.  *)
(* SUCCEEDED stands for COMPLETED, and for all ends of a package check.    *)
(***************************************************************************)
EXTENDS CaseRequests

VARIABLES
  draft,     \* per requester: the run as its session holds it
  recorded,  \* per requester: the run as it is committed
  packages,  \* requesters whose package is in storage
  inline     \* per requester: its position

inlineVars == <<draft, recorded, packages, inline>>

(* The rows that belong to a finished run; key: is there a storage_key?     *)
Products == [GRAPH |-> {"entities", "relationships"}, EXPORT |-> {"manifest"}, IMPORT |-> {}]
InlineKind == DOMAIN Products
InlineRow ==
  [kind : InlineKind \cup {"none"}, status : {"none", "RUNNING", "SUCCEEDED", "FAILED"},
   rows : SUBSET UNION {Products[k] : k \in InlineKind}, key : BOOLEAN]
NoInlineRow == [kind |-> "none", status |-> "none", rows |-> {}, key |-> FALSE]

InlineInit ==
  /\ draft = [c \in Requester |-> NoInlineRow]
  /\ recorded = [c \in Requester |-> NoInlineRow]
  /\ packages = {}
  /\ inline = [c \in Requester |-> "away"]

(* A plausible bug: the storage key of an export is set with its id.        *)
KeyFirstM(k) ==
  [kind |-> k, status |-> "RUNNING", rows |-> {}, key |-> k = "EXPORT"]

Opened(k) == [kind |-> k, status |-> "RUNNING", rows |-> {}, key |-> FALSE]

OpenRun(c) ==
  /\ inline[c] = "away"
  /\ \E k \in InlineKind : draft' = [draft EXCEPT ![c] = Opened(k)]
  /\ inline' = [inline EXCEPT ![c] = "working"]
  /\ UNCHANGED <<recorded, packages>>

Working(c, k) == inline[c] = "working" /\ draft[c].kind = k

(* build_graph: the entities are added to the session, and then the edges.  *)
AddGraphRows(c) ==
  /\ Working(c, "GRAPH")
  /\ draft' = [draft EXCEPT ![c].rows =
       IF "entities" \in @ THEN Products["GRAPH"] ELSE {"entities"}]
  /\ UNCHANGED <<recorded, packages, inline>>

WriteArchive(c) ==
  /\ Working(c, "EXPORT")
  /\ packages' = packages \cup {c}
  /\ UNCHANGED <<draft, recorded, inline>>

(* The package is written before the try block, and then named.             *)
WriteImport(c) ==
  /\ Working(c, "IMPORT")
  /\ packages' = packages \cup {c}
  /\ draft' = [draft EXCEPT ![c].key = TRUE]
  /\ UNCHANGED <<recorded, inline>>

WorkDone(c) ==
  \/ Working(c, "GRAPH") /\ draft[c].rows = Products["GRAPH"]
  \/ Working(c, "EXPORT") /\ c \in packages
  \/ Working(c, "IMPORT") /\ draft[c].key

(* The outcome is assigned and committed; the answer to the commit may be   *)
(* lost, and then nothing more can be written.                              *)
CommitInline(c) ==
  /\ WorkDone(c)
  /\ LET done == [draft[c] EXCEPT !.status = "SUCCEEDED", !.rows = Products[draft[c].kind],
                                  !.key = @ \/ draft[c].kind = "EXPORT"]
     IN /\ draft' = [draft EXCEPT ![c] = done]
        /\ recorded' = [recorded EXCEPT ![c] = done]
  /\ \E p \in {"answering", "over"} : inline' = [inline EXCEPT ![c] = p]
  /\ UNCHANGED packages

(* The except clause, reached from the work or from building the answer.    *)
HandleError(c) ==
  /\ inline[c] \in {"working", "answering"}
  /\ draft[c].kind = "IMPORT" => draft[c].key
  /\ draft' = [draft EXCEPT ![c].status = "FAILED"]
  /\ recorded' = [recorded EXCEPT ![c] = draft'[c]]
  /\ inline' = [inline EXCEPT ![c] = "over"]
  /\ UNCHANGED packages

(* The answer is given; or a flush or commit was refused, which ends the    *)
(* transaction for the except clause as well; or the process is killed.     *)
LeaveInline(c) ==
  /\ inline[c] \in {"working", "answering"}
  /\ inline' = [inline EXCEPT ![c] = "over"]
  /\ UNCHANGED <<draft, recorded, packages>>

InlineNext(c) ==
  \/ OpenRun(c) \/ AddGraphRows(c) \/ WriteArchive(c) \/ WriteImport(c)
  \/ CommitInline(c) \/ HandleError(c) \/ LeaveInline(c)

-----------------------------------------------------------------------------

InlineTypeOK ==
  /\ draft \in [Requester -> InlineRow]
  /\ recorded \in [Requester -> InlineRow]
  /\ packages \subseteq Requester
  /\ inline \in [Requester -> {"away", "working", "answering", "over"}]

(* What a committed run names is there: its package is in storage, though   *)
(* the except clause commits without a rollback; and a run that shows       *)
(* success has all of its rows, and its package if it is an export.         *)
RecordsBacked ==
  \A c \in Requester :
    LET row == recorded[c] IN
    /\ row.key => c \in packages
    /\ row.status = "SUCCEEDED"
         => row.rows = Products[row.kind] /\ (row.kind = "EXPORT" => row.key)
=============================================================================
