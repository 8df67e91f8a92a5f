---------------------------- MODULE TimelineEngine ----------------------------
(***************************************************************************)
(* What a timeline run derives: the dated events of the items of the case  *)
(* and the conflicts between them.  The run as a row with a status is      *)
(* CaseAnalyses; the unique index lets one build work at a time.           *)
(*                                                                         *)
(* Events keep what identifies them; their order and wording is left out.  *)
(* Every timestamp carries the time zone "UTC" once it is normalised, and  *)
(* event ids contain the id of a row, so neither conflicting time zones    *)
(* nor duplicate events are ever reported.                                 *)
(***************************************************************************)
EXTENDS CaseRecords

CONSTANTS
  Spread  \* times that differ by more suggest that a clock has drifted

ASSUME SpreadAssumption == Spread \in Nat

VARIABLES
  timeline  \* the newest timeline: its items, their dates, rows and conflicts

Conflict ==
  [type : {"multiple_timestamps", "filesystem_before_exif", "future_timestamp", "clock_drift"},
   item : Item]
Timeline == [known : SUBSET Item, dated : SUBSET (Item \X Section \X Time),
             updated : SUBSET Item, missing : SUBSET Item, rows : SUBSET Row,
             conflicts : SUBSET Conflict]
NoTimeline == [known |-> {}, dated |-> {}, updated |-> {}, missing |-> {}, rows |-> {},
               conflicts |-> {}]

TimelineInit == timeline = NoTimeline

(* A plausible bug: the custody events are left out.                        *)
NoCustodyM ==
  WithRows("processing") \o WithRows("extraction") \o WithRows("forensic")
    \o WithRows("image_ai") \o WithRows("document_ai") \o WithRows("signature_ai")
    \o WithRows("video_ai") \o WithRows("audio_ai") \o WithRows("fusion")

(* The tables in the order build() selects from them.                       *)
TimelineTables ==
  WithRows("processing") \o WithRows("extraction") \o WithRows("custody") \o WithRows("forensic")
    \o WithRows("image_ai") \o WithRows("document_ai") \o WithRows("signature_ai")
    \o WithRows("video_ai") \o WithRows("audio_ai") \o WithRows("fusion")

-----------------------------------------------------------------------------
(* Of a build b.                                                            *)

(* A section with a date that can be read is an event, and an image without *)
(* any EXIF data is one without time; an unreadable date is neither.  All   *)
(* items are images.                                                        *)
Dated(b) == {e \in b.known \X Section \X Time : b.sheets[e[1]].dates[e[2]] = e[3]}
Missing(b) == {i \in b.known : b.sheets[i].dates["exif"] = Absent}

(* Writing a date sets updated_at; the services' other writes to the row    *)
(* come with rows of their tables.                                          *)
Updated(b) == {i \in b.known : \E s \in Section : b.sheets[i].dates[s] # Absent}

MetadataTimes(b, i) == {e \in Section \X Time : b.sheets[i].dates[e[1]] = e[2]}

Stamps(b, i) ==
  {b.sheets[i].uploaded} \cup {e[2] : e \in MetadataTimes(b, i)}
    \cup {Now : r \in {x \in b.seen : x.item = i}}
    \cup (IF i \in Updated(b) THEN {Now} ELSE {})

MultipleTimes(b) == {i \in b.known : Cardinality(MetadataTimes(b, i)) > 1}

FilesystemFirst(b) ==
  {i \in b.known : \E t, u \in Time :
     {<<"filesystem", t>>, <<"exif", u>>} \subseteq MetadataTimes(b, i) /\ t < u}

InFuture(b) == {i \in b.known : \E t \in Stamps(b, i) : t > Now}

(* A plausible bug: each timestamp is compared with the next one.           *)
NeighboursM(b) ==
  {i \in b.known : \E t, u \in Stamps(b, i) :
     u > t + Spread /\ ~ \E v \in Stamps(b, i) : t < v /\ v < u}

Drifted(b) == {i \in b.known : \E t, u \in Stamps(b, i) : u > t + Spread}

Conflicts(b) ==
  [type : {"multiple_timestamps"}, item : MultipleTimes(b)]
    \cup [type : {"filesystem_before_exif"}, item : FilesystemFirst(b)]
    \cup [type : {"future_timestamp"}, item : InFuture(b)]
    \cup [type : {"clock_drift"}, item : Drifted(b)]

-----------------------------------------------------------------------------

TimelineStart == BeginBuild("timeline", held) /\ UNCHANGED timeline

TimelineRead ==
  /\ ReadTable("timeline", TimelineTables, OfKnown("timeline") \cup ReferenceKnown("timeline"))
  /\ UNCHANGED timeline

(* Events, conflicts and SUCCEEDED are one commit.                          *)
TimelinePublish ==
  /\ HasAll("timeline", TimelineTables)
  /\ LET b == reading["timeline"] IN
       timeline' = [known |-> b.known, dated |-> Dated(b), updated |-> Updated(b),
                    missing |-> Missing(b), rows |-> b.seen, conflicts |-> Conflicts(b)]
  /\ EndBuild("timeline")

TimelineNext ==
  \/ TimelineStart \/ TimelineRead \/ TimelinePublish
  \/ AbandonBuild("timeline") /\ UNCHANGED timeline

TimelineTypeOK == timeline \in Timeline

(* Conflicts "are never silently discarded" (docs/timeline-engine.md:100):  *)
(* an item that one timeline reports is reported by every later one, except *)
(* for dates in the future, which time overtakes.                           *)
ConflictsStand ==
  [][\A c \in timeline.conflicts :
       c.type # "future_timestamp" => c \in timeline'.conflicts]_<<recordVars, timeline>>
=============================================================================
