--------------------------- MODULE CorrelationEngine ---------------------------
(***************************************************************************)
(* What a correlation run derives: pairs of items of the case that share a *)
(* signal.  The run as a row with a status is CaseAnalyses.                *)
(*                                                                         *)
(* Ten kinds of exact groups differ in the signal they compare; those of   *)
(* extracted texts are followed.  A correlation is identified by its type  *)
(* and pair, and only the first signal found for it is kept as support.    *)
(***************************************************************************)
EXTENDS TimelineEngine

VARIABLES
  correlations  \* those of the newest run that succeeded

engineVars == <<recordVars, timeline, correlations>>

Correlation == [type : TextType \cup PairTable \cup {"temporal_overlap"},
                left : Item, right : Item]

CorrelationInit == correlations = {}

CorrelationTables == WithRows("extraction") \o WithRows("signature_ai") \o WithRows("audio_ai")

(* Payloads of QR codes are compared as they are, other texts normalised.   *)
Signal(r) == IF r.type = "qr_code" THEN r.text ELSE Folded[r.text]

-----------------------------------------------------------------------------
(* Of the rows rs, the known items k and the timeline tl.                   *)

Members(rs, k, type, signal) ==
  {i \in k : \E r \in rs : /\ r.table = "extraction" /\ r.item = i
                           /\ r.type = type /\ Signal(r) = signal}

TextCorrelations(rs, k) ==
  {c \in [type : TextType, left : k, right : k] :
     /\ c.left < c.right
     /\ \E v \in Text : {c.left, c.right} \subseteq Members(rs, k, c.type, v)}

(* Both items of a comparison have to be in the case; nothing keeps them    *)
(* apart, and canonical_pair puts them in order.                            *)
PairCorrelations(rs, k) ==
  {c \in [type : PairTable, left : k, right : k] :
     /\ c.left <= c.right
     /\ \E r \in rs : r.table = c.type /\ {r.item, r.other} = {c.left, c.right}}

EventTimes(tl, i) ==
  {e[3] : e \in {x \in tl.dated : x[1] = i}}
    \cup {Now : r \in {x \in tl.rows : x.item = i}}
    \cup (IF i \in tl.updated THEN {Now} ELSE {})
    \cup (IF i \in tl.known THEN {held[i].uploaded} ELSE {})

TemporalCorrelations(tl, k) ==
  {c \in [type : {"temporal_overlap"}, left : k, right : k] :
     c.left < c.right /\ EventTimes(tl, c.left) \cap EventTimes(tl, c.right) # {}}

(* A case with fewer than two items has none.                               *)
Correlated(rs, k, tl) ==
  IF Cardinality(k) < 2 THEN {}
  ELSE TextCorrelations(rs, k) \cup PairCorrelations(rs, k) \cup TemporalCorrelations(tl, k)

-----------------------------------------------------------------------------

(* The metadata of an item was compared as it is now.                       *)
CorrelationStart ==
  /\ BeginBuild("correlation", [i \in Item |-> Blank])
  /\ UNCHANGED <<timeline, correlations>>

CorrelationRead ==
  /\ ReadTable("correlation", CorrelationTables,
               OfKnown("correlation") \cup ReferenceKnown("correlation"))
  /\ UNCHANGED <<timeline, correlations>>

(* The events of the latest timeline are selected last; what the matchers   *)
(* make of it all is published in one commit.                               *)
CorrelationPublish ==
  /\ HasAll("correlation", CorrelationTables)
  /\ LET b == reading["correlation"] IN
       correlations' = Correlated(b.seen, b.known, timeline)
  /\ EndBuild("correlation")
  /\ UNCHANGED timeline

CorrelationNext ==
  \/ CorrelationStart \/ CorrelationRead \/ CorrelationPublish
  \/ AbandonBuild("correlation") /\ UNCHANGED <<timeline, correlations>>

CorrelationTypeOK == correlations \subseteq Correlation

(* Whatever commits while an engine reads one table after the other, what   *)
(* it publishes misses nothing that was on record when it began and holds   *)
(* nothing that is not: a timeline has the rows there were, and two items   *)
(* are correlated if they shared a signal then, and only if they do now.    *)
(* "No relationship is emitted without a concrete shared signal"            *)
(* (docs/correlation-engine.md).                                            *)
BuildsBracketed ==
  [][/\ timeline' # timeline =>
          /\ reading["timeline"].before \subseteq timeline'.rows
          /\ timeline'.rows \subseteq rows
     /\ correlations' # correlations =>
          LET b == reading["correlation"] IN
            /\ Correlated(b.before, b.known, NoTimeline) \subseteq correlations'
            /\ correlations' \subseteq Correlated(rows, Uploaded, timeline)]_engineVars
=============================================================================
