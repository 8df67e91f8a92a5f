---------------------------- MODULE EntityResolver ----------------------------
(***************************************************************************)
(* What an entity resolution run derives: the canonical entities of a case *)
(* and the relationships between them.  The run as a row with a status is  *)
(* CaseAnalyses.                                                           *)
(*                                                                         *)
(* An entity is named by its type and normalised key.  Of the entities     *)
(* those of media, extracted texts and matching signatures are followed;   *)
(* cameras, locations, logos and the like are found as texts are.  The     *)
(* events and fusion runs that an entity cites are those about its         *)
(* evidence.                                                               *)
(***************************************************************************)
EXTENDS CorrelationEngine

VARIABLES
  earlier,  \* the correlations there were when the build at work began
  graph     \* of the newest run that succeeded

graphVars == <<engineVars, earlier, graph>>

Name == [type : TextType \cup {"media", "signature"}, item : Item \cup {Absent},
         other : Item \cup {Foreign, Absent}, text : Text \cup {"none"}]
Entity == [name : Name, items : SUBSET (Item \cup {Foreign})]

Media(i) == [type |-> "media", item |-> i, other |-> Absent, text |-> "none"]
Comparison(r) == [type |-> "signature", item |-> r.item, other |-> r.other, text |-> "none"]

(* A plausible bug: the key of an extracted text is its spelling.           *)
SpellingM(r) == [type |-> r.type, item |-> Absent, other |-> Absent, text |-> r.text]

Mention(r) == [type |-> r.type, item |-> Absent, other |-> Absent, text |-> Folded[r.text]]

(* A relationship for one of the items it is supported by.                  *)
RelationType == {"contains", "signed_by", "related_to"}
Relation == [source : Name, target : Name, type : RelationType, item : Item]
Link(source, type, target, i) ==
  [source |-> source, target |-> target, type |-> type, item |-> i]

Graph == [entities : SUBSET Entity, relations : SUBSET Relation, taken : SUBSET Correlation]
NoGraph == [entities |-> {}, relations |-> {}, taken |-> {}]

GraphInit == earlier = {} /\ graph = NoGraph

ResolverTables == WithRows("extraction") \o WithRows("signature_ai")

-----------------------------------------------------------------------------
(* Of a build b, and the correlations cs it takes up.                       *)

Mentions(b) == {r \in b.seen : r.table = "extraction"}
Matches(b) == {r \in b.seen : r.table = "signature_ai"}

(* _upsert adds the item to the draft with the same key, if there is one;   *)
(* the reference of a comparison is added whatever case it is of.           *)
Entities(b) ==
  {[name |-> Media(i), items |-> {i}] : i \in b.known}
    \cup {[name |-> Mention(r), items |-> {x.item : x \in {y \in Mentions(b) : Mention(y) = Mention(r)}}] :
            r \in Mentions(b)}
    \cup {[name |-> Comparison(r), items |-> {r.item, r.other}] : r \in Matches(b)}

Contained(b) == {Link(Media(r.item), "contains", Mention(r), r.item) : r \in Mentions(b)}

(* The reference is linked when it is in the case; an item compared with    *)
(* itself is not related to itself.                                         *)
Signed(b) ==
  {Link(Media(r.item), "signed_by", Comparison(r), r.item) : r \in Matches(b)}
    \cup {Link(Media(r.other), "signed_by", Comparison(r), r.other) :
            r \in {x \in Matches(b) : x.other \in b.known}}
    \cup {Link(Media(r.item), "related_to", Media(r.other), r.item) :
            r \in {x \in Matches(b) : x.other \in b.known /\ x.other # x.item}}

(* Only those between items the build knows, as evidence of the left one.   *)
Taken(b, cs) == {c \in cs : {c.left, c.right} \subseteq b.known}

Correlates(b, cs) ==
  {Link(Media(c.left), IF c.type = "signature_ai" THEN "signed_by" ELSE "related_to",
        Media(c.right), c.left) : c \in {x \in Taken(b, cs) : x.left # x.right}}

-----------------------------------------------------------------------------

ResolverStart ==
  /\ BeginBuild("entities", [i \in Item |-> Blank])
  /\ earlier' = correlations
  /\ UNCHANGED <<timeline, correlations, graph>>

ResolverRead ==
  /\ ReadTable("entities", ResolverTables, OfKnown("entities"))
  /\ UNCHANGED <<timeline, correlations, earlier, graph>>

(* The latest correlations are taken up last.                               *)
ResolverPublish ==
  /\ HasAll("entities", ResolverTables)
  /\ LET b == reading["entities"] IN
       graph' = [entities |-> Entities(b),
                 relations |-> Contained(b) \cup Signed(b) \cup Correlates(b, correlations),
                 taken |-> Taken(b, correlations \cap earlier)]
  /\ EndBuild("entities")
  /\ UNCHANGED <<timeline, correlations, earlier>>

ResolverNext ==
  \/ ResolverStart \/ ResolverRead \/ ResolverPublish
  \/ AbandonBuild("entities") /\ UNCHANGED <<timeline, correlations, earlier, graph>>

EnginesInit == RecordsInit /\ TimelineInit /\ CorrelationInit /\ GraphInit

(* The builds and the writes of the given kinds; without "past", items are  *)
(* uploaded at present.                                                     *)
EngineKind == Engine \cup {"past", "dates", "texts", "comparisons", "others"}

AddRows(kinds) ==
  \/ "texts" \in kinds /\ \E r \in TextRow : AddRow(r)
  \/ "comparisons" \in kinds /\ \E r \in PairRow : AddRow(r)
  \/ "others" \in kinds /\ \E r \in PlainRow : AddRow(r)

EnginesNext(kinds) ==
  \/ /\ kinds # {}
     /\ \/ \E i \in Item, t \in IF "past" \in kinds THEN Time ELSE {Now} : Upload(i, t)
        \/ "dates" \in kinds
             /\ \E i \in Item, s \in Section, d \in Date \ {Absent} : AddDate(i, s, d)
        \/ AddRows(kinds)
     /\ UNCHANGED <<timeline, correlations, earlier, graph>>
  \/ "timeline" \in kinds /\ TimelineNext /\ UNCHANGED <<correlations, earlier, graph>>
  \/ "correlation" \in kinds /\ CorrelationNext /\ UNCHANGED <<earlier, graph>>
  \/ "entities" \in kinds /\ ResolverNext

GraphTypeOK ==
  /\ earlier \subseteq Correlation
  /\ graph \in Graph

EnginesTypeOK == RecordsTypeOK /\ TimelineTypeOK /\ CorrelationTypeOK /\ GraphTypeOK

ItemsOf(name) == UNION {e.items : e \in {x \in graph.entities : x.name = name}}

(* "Identical normalized keys merge into one canonical entity with multi-   *)
(* evidence support counts" (docs/entity-resolution.md): a relationship     *)
(* joins two different entities and rests on evidence of an end, of both    *)
(* unless both are media; and of two items that were correlated by a text   *)
(* or a signature before the build began, the graph has an entity that rests*)
(* on both, although correlation and resolver normalise on their own.       *)
GraphExplained ==
  /\ \A e, f \in graph.entities : e.name = f.name => e = f
  /\ \A l \in graph.relations :
       /\ l.source # l.target
       /\ {l.source, l.target} \subseteq {e.name : e \in graph.entities}
       /\ l.item \in ItemsOf(l.source)
       /\ l.target.type # "media" => l.item \in ItemsOf(l.target)
  /\ \A c \in graph.taken : c.type \in TextType \cup {"signature_ai"} =>
       \E e \in graph.entities : /\ e.name.type # "media"
                                 /\ {c.left, c.right} \subseteq e.items
=============================================================================
