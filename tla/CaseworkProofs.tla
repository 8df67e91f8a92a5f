---------------------------- MODULE CaseworkProofs ----------------------------
(***************************************************************************)
(* What investigators who work on one case at the same time may rely on,   *)
(* though each request writes what it computed from rows that others have  *)
(* changed since: first the members and the stage of a collaboration,      *)
(* then the status, tasks and reports of an investigation.                 *)
(***************************************************************************)
EXTENDS Collaboration, InvestigationWorkflow, FiniteSetTheorems, TLAPS

-----------------------------------------------------------------------------
(* Why a case loses its last owner only to a request that was overtaken,   *)
(* and why its stage moves along the policy unless one was.                *)

(* The rows of case_members: an id is one user's, and has a role.           *)
MembersKnown ==
  /\ \A u \in User : members[u].id = 0 => members[u] = NoMember
  /\ \A u \in User : members[u].id # 0 => members[u].role \in MemberRole
  /\ \A u \in User : members[u].id <= memberRows
  /\ \A u, v \in User : members[u].id = members[v].id /\ members[u].id # 0 => u = v

(* What a request asks for, and what it has read whether that is stale or   *)
(* not.                                                                     *)
CollabAsked(c) ==
  LET q == collab[c] IN
  /\ q.at \in {"allowed", "loaded", "ready"} =>
       /\ q.op \in MemberOp /\ q.user \in User
       /\ q.op \in {"add", "role"} => q.want \in MemberRole
       /\ q.op \in {"transfer", "remove"} => q.want = "none"
       /\ q.op = "transfer" => q.caller \in User
  /\ q.at \in {"loaded", "ready"} /\ q.op # "add" => q.row.id # 0
  /\ q.at = "stage" =>
       q.want \in CaseStage /\ (q.stage # "none" => q.want \in NextStages[q.stage])

(* What a request that nobody overtook has read is still so: its row, the   *)
(* stage, and that the owner it removes is not the last.                    *)
CollabTimely(c) ==
  LET q == collab[c] IN
  /\ q.at \in {"loaded", "ready"} => q.row = members[q.user]
  /\ q.at = "ready" /\ q.op \in {"role", "remove"} /\ GivesUpOwner(q)
       => \E u \in Owners : u # q.user
  /\ q.at = "stage" => q.stage = caseStage

CollabInv ==
  /\ CollabTypeOK
  /\ MembersKnown
  /\ \A c \in Requester : CollabAsked(c)
  /\ \A c \in Requester \ collabLate : CollabTimely(c)

(* Nobody is a member and nobody asks at the start.                         *)
LEMMA CollabStarts == CollabInit => CollabInv
<1> SUFFICES ASSUME CollabInit PROVE CollabInv
  OBVIOUS
<1>1. NoMember \in MemberRow
  BY MaxMemberRowsAssumption DEF NoMember, MemberRow
<1>2. Away \in CollabRequest /\ Away.at = "away"
  BY <1>1 DEF Away, CollabRequest
<1>3. CollabTypeOK
  BY <1>1, <1>2, MaxMemberRowsAssumption DEF CollabInit, CollabTypeOK
<1>4. MembersKnown
  BY DEF CollabInit, MembersKnown, NoMember
<1>5. \A c \in Requester : CollabAsked(c) /\ CollabTimely(c)
  BY <1>2 DEF CollabInit, CollabAsked, CollabTimely
<1> QED
  BY <1>3, <1>4, <1>5 DEF CollabInv

(* Owners counted: more than one means another one.                         *)
LEMMA AnotherOwner ==
  ASSUME NEW S, NEW u, Cardinality(S) > 1
  PROVE  \E v \in S : v # u
<1>1. SUFFICES ASSUME S \subseteq {u} PROVE FALSE
  OBVIOUS
<1>2. S = {} \/ S = {u}
  BY <1>1
<1>3. Cardinality({}) = 0 /\ Cardinality({u}) = 1
  BY FS_EmptySet, FS_Singleton
<1> QED
  BY <1>2, <1>3

-----------------------------------------------------------------------------
(* A request that stays on time saw no change of the tables.                *)
LEMMA CollabOnTime ==
  ASSUME CollabOvertakes, NEW d \in Requester, d \notin collabLate', collab'[d].at # "away"
  PROVE  d \notin collabLate /\ members' = members /\ caseStage' = caseStage
BY DEF CollabOvertakes, Collaborating

(* What another request knows, after a step of c.                           *)
LEMMA OthersAsk ==
  ASSUME CollabInv, CollabOvertakes, NEW d \in Requester, collab'[d] = collab[d]
  PROVE  CollabAsked(d)' /\ (d \notin collabLate' => CollabTimely(d)')
<1>1. CollabAsked(d)'
  BY DEF CollabInv, CollabAsked
<1>2. ASSUME d \notin collabLate'
      PROVE  CollabTimely(d)'
  <2>1. CASE collab[d].at = "away"
    BY <2>1 DEF CollabTimely
  <2>2. CASE collab[d].at # "away"
    <3>1. d \notin collabLate /\ members' = members /\ caseStage' = caseStage
      BY <1>2, <2>2, CollabOnTime
    <3> QED
      BY <1>2, <3>1 DEF CollabInv, CollabTimely, Owners
  <2> QED
    BY <2>1, <2>2
<1> QED
  BY <1>1, <1>2

(* A request that reads, or ends without a change.                          *)
LEMMA HoldStep ==
  ASSUME CollabInv, CollabOvertakes, NEW c \in Requester, NEW q \in CollabRequest,
         collab' = [collab EXCEPT ![c] = q], UNCHANGED <<members, memberRows, caseStage>>,
         collab'[c] = q => CollabAsked(c)' /\ (c \notin collabLate' => CollabTimely(c)')
  PROVE  CollabInv'
<1>1. collab \in [Requester -> CollabRequest]
  BY DEF CollabInv, CollabTypeOK
<1>2. collab'[c] = q /\ \A d \in Requester \ {c} : collab'[d] = collab[d]
  BY <1>1
<1>3. CollabTypeOK'
  BY <1>1 DEF CollabInv, CollabTypeOK, CollabOvertakes, Collaborating
<1>4. MembersKnown'
  BY DEF CollabInv, MembersKnown
<1>5. ASSUME NEW d \in Requester
      PROVE  CollabAsked(d)' /\ (d \notin collabLate' => CollabTimely(d)')
  BY <1>2, OthersAsk
<1> QED
  BY <1>3, <1>4, <1>5 DEF CollabInv

(* A request that is refused.                                               *)
LEMMA RefuseStep ==
  ASSUME CollabInv, CollabOvertakes, NEW c \in Requester, Refuse(c)
  PROVE  CollabInv'
<1>1. Away \in CollabRequest
  BY MaxMemberRowsAssumption DEF Away, CollabRequest, NoMember, MemberRow
<1>2. collab' = [collab EXCEPT ![c] = Away] /\ UNCHANGED <<members, memberRows, caseStage>>
  BY DEF Refuse, Leave
<1>3. collab'[c] = Away => CollabAsked(c)' /\ CollabTimely(c)'
  BY DEF Away, CollabAsked, CollabTimely
<1> QED
  BY <1>1, <1>2, <1>3, HoldStep

(* A commit that ends c's request.                                          *)
LEMMA CommitStep ==
  ASSUME CollabInv, CollabOvertakes, NEW c \in Requester, Leave(c),
         members' \in [User -> MemberRow], memberRows' \in 0..MaxMemberRows,
         caseStage' \in CaseStage \cup {"none"}, MembersKnown'
  PROVE  CollabInv'
<1>1. collab \in [Requester -> CollabRequest]
  BY DEF CollabInv, CollabTypeOK
<1>2. Away \in CollabRequest
  BY MaxMemberRowsAssumption DEF Away, CollabRequest, NoMember, MemberRow
<1>3. /\ collab' \in [Requester -> CollabRequest] /\ collab'[c] = Away
      /\ \A d \in Requester \ {c} : collab'[d] = collab[d]
  BY <1>1, <1>2 DEF Leave
<1>4. CollabTypeOK'
  BY <1>3 DEF CollabTypeOK, CollabOvertakes, Collaborating
<1>5. ASSUME NEW d \in Requester
      PROVE  CollabAsked(d)' /\ (d \notin collabLate' => CollabTimely(d)')
  <2>1. CASE d = c
    BY <1>3, <2>1 DEF Away, CollabAsked, CollabTimely
  <2>2. CASE d # c
    BY <1>3, <2>2, OthersAsk
  <2> QED
    BY <2>1, <2>2
<1> QED
  BY <1>4, <1>5 DEF CollabInv

-----------------------------------------------------------------------------
(* The checks of a request, in the order it makes them.                     *)
LEMMA ChecksKeep ==
  ASSUME CollabInv, CollabOvertakes, NEW c \in Requester,
         AskMembers(c) \/ LoadMember(c) \/ LoadCaller(c) \/ CountOwners(c)
  PROVE  CollabInv' /\ members' = members /\ caseStage' = caseStage
<1>1. /\ collab[c] \in CollabRequest /\ members \in [User -> MemberRow]
      /\ collab \in [Requester -> CollabRequest]
  BY DEF CollabInv, CollabTypeOK
<1>2. CollabAsked(c) /\ (c \notin collabLate => CollabTimely(c))
  BY DEF CollabInv
<1>3. CASE AskMembers(c)
  <2> DEFINE Asked(op, u, caller, admin, r) ==
               [Away EXCEPT !.at = "allowed", !.op = op, !.user = u, !.want = r,
                  !.caller = IF op = "transfer" THEN caller ELSE "none",
                  !.admin = admin /\ op = "transfer"]
  <2>0. \E op \in MemberOp, u, caller \in User, admin \in BOOLEAN, r \in MemberRole \cup {"none"} :
          /\ MayManage(caller, admin)
          /\ (r = "none") <=> op \in {"transfer", "remove"}
          /\ Holds(c, Asked(op, u, caller, admin, r))
    BY <1>3, Zenon DEF AskMembers
  <2> HIDE DEF Asked
  <2>1. PICK op \in MemberOp, u \in User, caller \in User, admin \in BOOLEAN,
             r \in MemberRole \cup {"none"} :
          /\ (r = "none") <=> op \in {"transfer", "remove"}
          /\ Holds(c, Asked(op, u, caller, admin, r))
    BY <2>0
  <2> DEFINE by == IF op = "transfer" THEN caller ELSE "none"
             power == admin /\ op = "transfer"
             q == [Away EXCEPT !.at = "allowed", !.op = op, !.user = u, !.want = r,
                     !.caller = by, !.admin = power]
  <2>2. by \in User \cup {"none"} /\ power \in BOOLEAN /\ (op = "transfer" => by \in User)
    OBVIOUS
  <2> HIDE DEF by, power
  <2>3. /\ q \in CollabRequest /\ q.at = "allowed" /\ q.op = op /\ q.user = u
        /\ q.want = r /\ q.caller = by
    <3>1. NoMember \in MemberRow
      BY MaxMemberRowsAssumption DEF NoMember, MemberRow
    <3>2. q \in CollabRequest
      BY <2>2, <3>1 DEF Away, CollabRequest
    <3>3. q.at = "allowed" /\ q.op = op /\ q.user = u
      BY DEF Away
    <3>4. q.want = r /\ q.caller = by
      BY DEF Away
    <3> QED
      BY <3>2, <3>3, <3>4
  <2>4. Holds(c, q)
    BY <2>1 DEF Asked, by, power
  <2> HIDE DEF q
  <2>5. collab'[c] = q => CollabAsked(c)' /\ CollabTimely(c)'
    BY <2>1, <2>2, <2>3 DEF CollabAsked, CollabTimely
  <2> QED
    BY <2>3, <2>4, <2>5, HoldStep DEF Holds
<1>4. CASE LoadMember(c)
  <2> DEFINE old == collab[c]
             row == members[old.user]
             q == [old EXCEPT !.at = "loaded", !.row = row]
  <2>1. /\ old.at = "allowed"
        /\ IF (old.op = "add") <=> (row = NoMember) THEN Holds(c, q) ELSE Refuse(c)
    BY <1>4 DEF LoadMember
  <2>2. row \in MemberRow /\ (row # NoMember => row.id # 0)
    BY <1>1, <1>2, <2>1 DEF CollabAsked, CollabInv, MembersKnown
  <2>3. CASE Refuse(c)
    BY <2>3, RefuseStep DEF Refuse
  <2>4. CASE Holds(c, q) /\ ((old.op = "add") <=> (row = NoMember))
    <3>1. /\ q \in CollabRequest /\ q.at = "loaded" /\ q.op = old.op /\ q.user = old.user
          /\ q.want = old.want /\ q.caller = old.caller /\ q.row = row
      BY <1>1, <2>2 DEF CollabRequest
    <3>2. q.op # "add" => q.row.id # 0
      BY <2>2, <2>4, <3>1
    <3>3. members' = members
      BY <2>4 DEF Holds
    <3> HIDE DEF q
    <3>4. collab'[c] = q => CollabAsked(c)' /\ CollabTimely(c)'
      BY <1>2, <2>1, <3>1, <3>2, <3>3 DEF CollabAsked, CollabTimely
    <3> QED
      BY <2>4, <3>1, <3>4, HoldStep DEF Holds
  <2> QED
    BY <2>1, <2>3, <2>4
<1>5. CASE LoadCaller(c)
  <2> DEFINE old == collab[c]
             found == members[old.caller]
             own == IF found.id = old.row.id THEN old.row ELSE found
             q == [old EXCEPT !.at = "ready", !.own = own]
  <2>1. /\ old.at = "loaded" /\ old.op = "transfer"
        /\ Holds(c, q) \/ Refuse(c)
    BY <1>5 DEF LoadCaller
  <2>2. own \in MemberRow
    BY <1>1, <1>2, <2>1 DEF CollabAsked, CollabRequest
  <2>3. CASE Refuse(c)
    BY <2>3, RefuseStep DEF Refuse
  <2>4. CASE Holds(c, q)
    <3> HIDE DEF own
    <3>1. /\ q \in CollabRequest /\ q.at = "ready" /\ q.op = old.op /\ q.user = old.user
          /\ q.want = old.want /\ q.caller = old.caller /\ q.row = old.row
      BY <1>1, <2>2 DEF CollabRequest
    <3>2. members' = members
      BY <2>4 DEF Holds
    <3> HIDE DEF q
    <3>3. collab'[c] = q => CollabAsked(c)' /\ (c \notin collabLate => CollabTimely(c)')
      BY <1>2, <2>1, <3>1, <3>2 DEF CollabAsked, CollabTimely
    <3>4. collab'[c] = q /\ c \notin collabLate' => c \notin collabLate
      BY <3>1, CollabOnTime
    <3> QED
      BY <2>4, <3>1, <3>3, <3>4, HoldStep DEF Holds
  <2> QED
    BY <2>1, <2>3, <2>4
<1>6. CASE CountOwners(c)
  <2> DEFINE old == collab[c]
             q == [old EXCEPT !.at = "ready"]
  <2>1. /\ old.at = "loaded" /\ old.op # "transfer"
        /\ \/ Refuse(c)
           \/ /\ Holds(c, q)
              /\ old.op \in {"role", "remove"} /\ GivesUpOwner(old)
                   => ~LastOwner(Cardinality(Owners))
    BY <1>6 DEF CountOwners
  <2>2. CASE Refuse(c)
    BY <2>2, RefuseStep DEF Refuse
  <2>3. CASE /\ Holds(c, q)
             /\ old.op \in {"role", "remove"} /\ GivesUpOwner(old)
                  => ~LastOwner(Cardinality(Owners))
    <3>1. /\ q \in CollabRequest /\ q.at = "ready" /\ q.op = old.op /\ q.user = old.user
          /\ q.want = old.want /\ q.caller = old.caller /\ q.row = old.row
      BY <1>1 DEF CollabRequest
    <3>2. members' = members /\ GivesUpOwner(q) = GivesUpOwner(old)
      BY <2>3, <3>1 DEF Holds, GivesUpOwner
    <3>3. old.op \in {"role", "remove"} /\ GivesUpOwner(old) => \E u \in Owners : u # old.user
      <4>1. IsFiniteSet(Owners)
        BY UserAssumption, FS_Subset DEF Owners
      <4>2. Cardinality(Owners) \in Nat
        BY <4>1, FS_CardinalityType
      <4>3. ~LastOwner(Cardinality(Owners)) => Cardinality(Owners) > 1
        BY <4>2 DEF LastOwner
      <4> QED
        BY <2>3, <4>3, AnotherOwner
    <3> HIDE DEF q
    <3>4. collab'[c] = q => CollabAsked(c)' /\ (c \notin collabLate => CollabTimely(c)')
      BY <1>2, <2>1, <3>1, <3>2, <3>3 DEF CollabAsked, CollabTimely, GivesUpOwner, Owners
    <3>5. collab'[c] = q /\ c \notin collabLate' => c \notin collabLate
      BY <3>1, CollabOnTime
    <3> QED
      BY <2>3, <3>1, <3>4, <3>5, HoldStep DEF Holds
  <2> QED
    BY <2>1, <2>2, <2>3
<1> QED
  BY <1>3, <1>4, <1>5, <1>6

-----------------------------------------------------------------------------
(* The commits.  For each: the rows stay known, and a request that nobody   *)
(* overtook leaves an owner where there was one.                            *)
LEMMA AssignKeeps ==
  ASSUME CollabInv, NEW row \in MemberRow, NEW role \in MemberRole
  PROVE  /\ Assign(row, role) \in [User -> MemberRow]
         /\ \A u \in User : /\ Assign(row, role)[u].id = members[u].id
                            /\ members[u].id = 0 => Assign(row, role)[u] = members[u]
                            /\ members[u].id # 0 => Assign(row, role)[u].role \in MemberRole
                            /\ members[u].id # row.id => Assign(row, role)[u] = members[u]
                            /\ members[u] = row /\ row.id # 0 => Assign(row, role)[u].role = role
<1>1. members \in [User -> MemberRow] /\ MembersKnown
  BY DEF CollabInv, CollabTypeOK
<1>2. ASSUME NEW u \in User, members[u].id = row.id, row.id # 0
      PROVE  /\ Assign(row, role)[u] \in MemberRow /\ Assign(row, role)[u].id = members[u].id
             /\ Assign(row, role)[u].role \in MemberRole
             /\ members[u] = row => Assign(row, role)[u].role = role
  <2> DEFINE x == Column(members[u].role, row.role, role)
  <2>1. members[u].role \in MemberRole
    BY <1>1, <1>2 DEF MembersKnown
  <2>2. x \in MemberRole /\ (members[u] = row => x = role)
    BY <2>1 DEF Column
  <2>3. Assign(row, role)[u] = [members[u] EXCEPT !.role = x]
    BY <1>2 DEF Assign
  <2> HIDE DEF x
  <2> QED
    BY <1>1, <2>2, <2>3 DEF MemberRow
<1>3. ASSUME NEW u \in User, ~(members[u].id = row.id /\ row.id # 0)
      PROVE  Assign(row, role)[u] = members[u]
  BY <1>3 DEF Assign
<1>4. Assign(row, role) \in [User -> MemberRow]
  <2>1. \A u \in User : Assign(row, role)[u] \in MemberRow
    BY <1>1, <1>2, <1>3
  <2>2. Assign(row, role) = [u \in User |-> Assign(row, role)[u]]
    BY DEF Assign
  <2> QED
    BY <2>1, <2>2
<1> QED
  BY <1>1, <1>2, <1>3, <1>4 DEF MembersKnown

(* Rows whose ids and roles are still those of their users are known.       *)
LEMMA RowsStayKnown ==
  ASSUME MembersKnown, UNCHANGED memberRows,
         \A u \in User : /\ members'[u].id = members[u].id
                         /\ members[u].id = 0 => members'[u] = members[u]
                         /\ members[u].id # 0 => members'[u].role \in MemberRole
  PROVE  MembersKnown'
BY DEF MembersKnown

KeepsOwner(c) ==
  Owners # {} /\ Owners' = {}
    => c \in collabLate /\ collab[c].at = "ready" /\ collab'[c].at = "away"

(* A request ends by leaving.                                               *)
LEMMA LeaveEnds ==
  ASSUME CollabInv, NEW c \in Requester, Leave(c)
  PROVE  collab'[c].at = "away"
BY DEF CollabInv, CollabTypeOK, Leave, Away

(* add_member.                                                              *)
LEMMA AddKeeps ==
  ASSUME CollabInv, CollabOvertakes, NEW c \in Requester, CommitAdd(c)
  PROVE  CollabInv' /\ KeepsOwner(c) /\ caseStage' = caseStage
<1> DEFINE q == collab[c]
<1>1. /\ members \in [User -> MemberRow] /\ MembersKnown /\ memberRows \in 0..MaxMemberRows
      /\ caseStage \in CaseStage \cup {"none"} /\ MaxMemberRows \in Nat
  BY MaxMemberRowsAssumption DEF CollabInv, CollabTypeOK
<1>2. CASE Refuse(c)
  BY <1>2, RefuseStep DEF Refuse, KeepsOwner, Owners
<1>3. CASE /\ members[q.user] = NoMember
           /\ members' = [members EXCEPT ![q.user] = [id |-> memberRows + 1, role |-> q.want]]
           /\ memberRows' = memberRows + 1 /\ Leave(c) /\ UNCHANGED caseStage
  <2>1. q.user \in User /\ q.want \in MemberRole /\ memberRows < MaxMemberRows
    BY DEF CommitAdd, CollabInv, CollabAsked
  <2>2. memberRows + 1 \in 0..MaxMemberRows
    BY <1>1, <2>1
  <2>3. [id |-> memberRows + 1, role |-> q.want] \in MemberRow
    BY <2>1, <2>2 DEF MemberRow
  <2>4. members' \in [User -> MemberRow] /\ memberRows' \in 0..MaxMemberRows
    BY <1>1, <1>3, <2>2, <2>3
  <2>5. /\ members'[q.user] = [id |-> memberRows + 1, role |-> q.want]
        /\ \A u \in User \ {q.user} : members'[u] = members[u]
    BY <1>1, <1>3, <2>1
  <2>6. MembersKnown'
    <3>1. \A u \in User : members[u].id \in Nat /\ members[u].id <= memberRows
      BY <1>1 DEF MembersKnown, MemberRow
    <3> QED
      BY <1>1, <1>3, <2>1, <2>5, <3>1 DEF MembersKnown
  <2>7. Owners \subseteq Owners'
    BY <1>3, <2>5 DEF Owners, NoMember
  <2> QED
    BY <1>1, <1>3, <2>4, <2>6, <2>7, CommitStep DEF KeepsOwner
<1> QED
  BY <1>2, <1>3 DEF CommitAdd

(* update_member without a transfer.                                        *)
LEMMA RoleKeeps ==
  ASSUME CollabInv, CollabOvertakes, NEW c \in Requester, CommitRole(c)
  PROVE  CollabInv' /\ KeepsOwner(c) /\ caseStage' = caseStage
<1> DEFINE q == collab[c]
<1>1. /\ members \in [User -> MemberRow] /\ MembersKnown /\ memberRows \in 0..MaxMemberRows
      /\ caseStage \in CaseStage \cup {"none"} /\ q \in CollabRequest
  BY DEF CollabInv, CollabTypeOK
<1>2. /\ q.at = "ready" /\ q.op = "role" /\ q.user \in User /\ q.want \in MemberRole
      /\ q.row.id # 0 /\ q.row \in MemberRow
  BY <1>1 DEF CommitRole, CollabInv, CollabAsked, CollabRequest
<1>3. CASE Refuse(c)
  BY <1>3, RefuseStep DEF Refuse, KeepsOwner, Owners
<1>4. CASE members' = Assign(q.row, q.want) /\ Leave(c) /\ UNCHANGED <<memberRows, caseStage>>
  <2>1. /\ members' \in [User -> MemberRow]
        /\ \A u \in User : /\ members'[u].id = members[u].id
                           /\ members[u].id = 0 => members'[u] = members[u]
                           /\ members[u].id # 0 => members'[u].role \in MemberRole
                           /\ members[u].id # q.row.id => members'[u] = members[u]
                           /\ members[u] = q.row => members'[u].role = q.want
    BY <1>2, <1>4, AssignKeeps
  <2>2. MembersKnown'
    BY <1>1, <1>4, <2>1, RowsStayKnown
  <2>3. CollabInv'
    BY <1>1, <1>4, <2>1, <2>2, CommitStep
  <2>4. ASSUME c \notin collabLate, Owners # {}
        PROVE  Owners' # {}
    <3>1. /\ q.row = members[q.user]
          /\ GivesUpOwner(q) => \E u \in Owners : u # q.user
      BY <1>2, <2>4 DEF CollabInv, CollabTimely
    <3>2. \A u \in User \ {q.user} : members'[u] = members[u]
      BY <1>1, <1>2, <2>1, <3>1 DEF MembersKnown
    <3>3. CASE q.want = "owner"
      BY <1>2, <2>1, <3>1, <3>3 DEF Owners
    <3>4. CASE q.want # "owner"
      <4>1. \E u \in Owners : u # q.user
        BY <2>4, <3>1, <3>4 DEF GivesUpOwner, Owners
      <4> QED
        BY <3>2, <4>1 DEF Owners
    <3> QED
      BY <3>3, <3>4
  <2> QED
    BY <1>2, <1>4, <2>3, <2>4, LeaveEnds DEF KeepsOwner
<1> QED
  BY <1>3, <1>4 DEF CommitRole

(* update_member with transfer_ownership.                                   *)
LEMMA TransferKeeps ==
  ASSUME CollabInv, CollabOvertakes, NEW c \in Requester, CommitTransfer(c)
  PROVE  CollabInv' /\ KeepsOwner(c) /\ caseStage' = caseStage
<1> DEFINE q == collab[c]
           lead == IF q.own.id = q.row.id THEN members ELSE Assign(q.own, "lead_investigator")
           owner == Assign(q.row, "owner")
<1>1. /\ members \in [User -> MemberRow] /\ MembersKnown /\ memberRows \in 0..MaxMemberRows
      /\ caseStage \in CaseStage \cup {"none"} /\ q \in CollabRequest
  BY DEF CollabInv, CollabTypeOK
<1>2. /\ q.at = "ready" /\ q.op = "transfer" /\ q.user \in User
      /\ q.row.id # 0 /\ q.row \in MemberRow /\ q.own \in MemberRow
  BY <1>1 DEF CommitTransfer, CollabInv, CollabAsked, CollabRequest
<1>3. CASE Refuse(c)
  BY <1>3, RefuseStep DEF Refuse, KeepsOwner, Owners
<1>4. CASE /\ members' = [u \in User |-> IF members[u].id = q.row.id THEN owner[u] ELSE lead[u]]
           /\ Leave(c) /\ UNCHANGED <<memberRows, caseStage>>
  <2>1. "owner" \in MemberRole /\ "lead_investigator" \in MemberRole
    BY DEF MemberRole
  <2>2. /\ owner \in [User -> MemberRow]
        /\ \A u \in User : /\ owner[u].id = members[u].id
                           /\ members[u].id = 0 => owner[u] = members[u]
                           /\ members[u].id # 0 => owner[u].role \in MemberRole
                           /\ members[u] = q.row => owner[u].role = "owner"
    BY <1>2, <2>1, AssignKeeps
  <2>3. /\ lead \in [User -> MemberRow]
        /\ \A u \in User : /\ lead[u].id = members[u].id
                           /\ members[u].id = 0 => lead[u] = members[u]
                           /\ members[u].id # 0 => lead[u].role \in MemberRole
    BY <1>1, <1>2, <2>1, AssignKeeps DEF MembersKnown
  <2> HIDE DEF lead, owner
  <2>4. /\ members' \in [User -> MemberRow]
        /\ \A u \in User : /\ members'[u].id = members[u].id
                           /\ members[u].id = 0 => members'[u] = members[u]
                           /\ members[u].id # 0 => members'[u].role \in MemberRole
                           /\ members[u] = q.row => members'[u].role = "owner"
    BY <1>4, <2>2, <2>3
  <2>5. MembersKnown'
    BY <1>1, <1>4, <2>4, RowsStayKnown
  <2>6. CollabInv'
    BY <1>1, <1>4, <2>4, <2>5, CommitStep
  <2>7. c \notin collabLate => Owners' # {}
    <3>1. c \notin collabLate => q.row = members[q.user]
      BY <1>2 DEF CollabInv, CollabTimely
    <3> QED
      BY <1>2, <2>4, <3>1 DEF Owners
  <2> QED
    BY <1>2, <1>4, <2>6, <2>7, LeaveEnds DEF KeepsOwner
<1> QED
  BY <1>3, <1>4 DEF CommitTransfer

(* remove_member.                                                           *)
LEMMA RemoveKeeps ==
  ASSUME CollabInv, CollabOvertakes, NEW c \in Requester, CommitRemove(c)
  PROVE  CollabInv' /\ KeepsOwner(c) /\ caseStage' = caseStage
<1> DEFINE q == collab[c]
<1>1. /\ members \in [User -> MemberRow] /\ MembersKnown /\ memberRows \in 0..MaxMemberRows
      /\ caseStage \in CaseStage \cup {"none"} /\ NoMember \in MemberRow
  BY MaxMemberRowsAssumption DEF CollabInv, CollabTypeOK, NoMember, MemberRow
<1>2. /\ q.at = "ready" /\ q.op = "remove" /\ q.user \in User /\ q.row.id # 0 /\ q.want = "none"
      /\ members' = [u \in User |-> IF members[u].id = q.row.id THEN NoMember ELSE members[u]]
      /\ Leave(c) /\ UNCHANGED <<memberRows, caseStage>>
  BY DEF CommitRemove, CollabInv, CollabAsked
<1>3. members' \in [User -> MemberRow]
  BY <1>1, <1>2
<1>4. MembersKnown'
  <2>1. \A u \in User : members'[u] \in {members[u], NoMember} /\ memberRows \in Nat
    BY <1>1, <1>2
  <2> QED
    BY <1>1, <1>2, <2>1 DEF MembersKnown, NoMember
<1>5. CollabInv'
  BY <1>1, <1>2, <1>3, <1>4, CommitStep
<1>6. ASSUME c \notin collabLate, Owners # {}
      PROVE  Owners' # {}
  <2>1. /\ q.row = members[q.user]
        /\ GivesUpOwner(q) => \E u \in Owners : u # q.user
    BY <1>2, <1>6 DEF CollabInv, CollabTimely
  <2>2. \A u \in User \ {q.user} : members'[u] = members[u]
    BY <1>1, <1>2, <2>1 DEF MembersKnown
  <2>3. \E u \in Owners : u # q.user
    BY <1>2, <1>6, <2>1 DEF GivesUpOwner, Owners
  <2> QED
    BY <2>2, <2>3 DEF Owners
<1> QED
  BY <1>2, <1>5, <1>6, LeaveEnds DEF KeepsOwner

(* Every step about the members keeps the invariant, and the last owner     *)
(* unless the request was overtaken.                                        *)
LEMMA MembersStep ==
  ASSUME CollabInv, CollabOvertakes, NEW c \in Requester, MembersNext(c)
  PROVE  CollabInv' /\ KeepsOwner(c) /\ caseStage' = caseStage
<1>1. CASE AskMembers(c) \/ LoadMember(c) \/ LoadCaller(c) \/ CountOwners(c)
  BY <1>1, ChecksKeep DEF KeepsOwner, Owners
<1> QED
  BY <1>1, AddKeeps, RoleKeeps, TransferKeeps, RemoveKeeps DEF MembersNext

(* Every step about the stage keeps the invariant, and moves along an edge  *)
(* of the policy unless the request was overtaken.                          *)
LEMMA StageStep ==
  ASSUME CollabInv, CollabOvertakes, NEW c \in Requester, StageNext(c)
  PROVE  /\ CollabInv' /\ members' = members
         /\ caseStage # "none" /\ caseStage' # caseStage
              => caseStage' \in NextStages[caseStage] \/ collabLate # {}
<1>1. /\ members \in [User -> MemberRow] /\ MembersKnown /\ memberRows \in 0..MaxMemberRows
      /\ caseStage \in CaseStage \cup {"none"} /\ collab \in [Requester -> CollabRequest]
  BY DEF CollabInv, CollabTypeOK
<1>2. CASE GetStage(c)
  <2>1. /\ caseStage = "none" /\ caseStage' = "open" /\ "open" \in CaseStage
        /\ UNCHANGED <<members, memberRows, collab>>
    BY <1>2 DEF GetStage, CaseStage
  <2>2. CollabTypeOK' /\ MembersKnown'
    BY <1>1, <2>1 DEF CollabTypeOK, MembersKnown, CollabOvertakes, Collaborating
  <2>3. \A d \in Requester : CollabAsked(d)' /\ (d \notin collabLate' => CollabTimely(d)')
    BY <2>1, OthersAsk
  <2> QED
    BY <2>1, <2>2, <2>3 DEF CollabInv
<1>3. CASE LoadStage(c)
  <2>1. PICK to \in CaseStage :
          /\ to \in NextStages[IF caseStage = "none" THEN "open" ELSE caseStage]
          /\ Holds(c, [Away EXCEPT !.at = "stage", !.stage = caseStage, !.want = to])
    BY <1>3 DEF LoadStage, MayMove
  <2> DEFINE q == [Away EXCEPT !.at = "stage", !.stage = caseStage, !.want = to]
  <2>2. q \in CollabRequest /\ q.at = "stage" /\ q.stage = caseStage /\ q.want = to
    <3>1. NoMember \in MemberRow
      BY MaxMemberRowsAssumption DEF NoMember, MemberRow
    <3> QED
      BY <1>1, <3>1 DEF Away, CollabRequest
  <2>3. Holds(c, q)
    BY <2>1
  <2> HIDE DEF q
  <2>4. collab'[c] = q => CollabAsked(c)' /\ CollabTimely(c)'
    BY <2>1, <2>2, <2>3 DEF Holds, CollabAsked, CollabTimely
  <2> QED
    BY <2>2, <2>3, <2>4, HoldStep DEF Holds
<1>4. CASE CommitStage(c)
  <2> DEFINE q == collab[c]
  <2>1. /\ q.at = "stage" /\ q.want \in CaseStage
        /\ q.stage # "none" => q.want \in NextStages[q.stage]
        /\ c \notin collabLate => q.stage = caseStage
    BY <1>4 DEF CommitStage, CollabInv, CollabAsked, CollabTimely
  <2>2. CASE Refuse(c)
    BY <2>2, RefuseStep DEF Refuse
  <2>3. CASE /\ caseStage' = Column(caseStage, q.stage, q.want) /\ Leave(c)
             /\ UNCHANGED <<members, memberRows>>
    <3>1. caseStage' \in CaseStage \cup {"none"}
      BY <1>1, <2>1, <2>3 DEF Column
    <3>2. MembersKnown'
      BY <1>1, <2>3 DEF MembersKnown
    <3>3. CollabInv'
      BY <1>1, <2>3, <3>1, <3>2, CommitStep
    <3> QED
      BY <2>1, <2>3, <3>3 DEF Column
  <2> QED
    BY <1>4, <2>2, <2>3 DEF CommitStage
<1> QED
  BY <1>2, <1>3, <1>4 DEF StageNext

-----------------------------------------------------------------------------
(* Why milestones keep up with the status of an investigation, a task ends *)
(* with its time, and the history of a report's review stays legal, though *)
(* requests write what they computed from rows that others have changed.   *)

(* The policy's tables: no status is its own successor.                     *)
LEMMA StatusTable ==
  \A s \in InvestigationStatus : NextStatuses[s] \subseteq InvestigationStatus \ {s}
BY DEF InvestigationStatus, NextStatuses

(* The same of the statuses of a task.                                      *)
LEMMA TaskTable ==
  \A s \in TaskStatus : NextTaskStatuses[s] \subseteq TaskStatus \ {s}
BY DEF TaskStatus, NextTaskStatuses

(* The same of the statuses of a report's approval.                         *)
LEMMA ApprovalTable ==
  \A s \in ApprovalStatus : NextApprovals[s] \subseteq ApprovalStatus \ {s}
BY DEF ApprovalStatus, NextApprovals

(* The history of a review that ends in status.                             *)
Course(history, status) ==
  /\ Len(history) \in Nat \ {0}
  /\ history[1] # "published"
  /\ history[Len(history)] = status
  /\ \A i \in 1..(Len(history) - 1) : history[i + 1] \in NextApprovals[history[i]]

(* A review as it is stored, or as a request has loaded it.                 *)
LegalReview(r) ==
  /\ r.kind = "report" => r.status \in ApprovalStatus /\ Course(r.history, r.status)
  /\ r.kind = "evidence" => r.status \in EvidenceReviewStatus

(* What a request has read, and what it asks for.                           *)
FlowKnown(c) ==
  /\ flow[c].at \in {"derive", "status"} => flow[c].status \in InvestigationStatus
  /\ flow[c].at = "status" =>
       /\ flow[c].to \in NextStatuses[flow[c].status]
       /\ c \notin flowLate => flow[c].status = investigation
  /\ flow[c].at = "task" =>
       /\ flow[c].task.status \in TaskStatus
       /\ flow[c].to \in NextTaskStatuses[flow[c].task.status]
  /\ flow[c].at = "review" =>
       /\ flow[c].review.kind = review.kind /\ review.kind # "none"
       /\ LegalReview(flow[c].review)
       /\ flow[c].to \in ReviewStatus
       /\ MayDecide(review.kind, flow[c].review.status, flow[c].to)

FlowInv ==
  /\ FlowTypeOK
  /\ MilestonesCoverStatus
  /\ TaskTimes
  /\ workTask.status = "none" => workTask = NoTask
  /\ review.kind = "none" => review = NoReview
  /\ LegalReview(review)
  /\ \A c \in Requester : FlowKnown(c)

(* The invariant gives the properties.                                      *)
LEMMA FlowSafe ==
  FlowInv => FlowTypeOK /\ MilestonesCoverStatus /\ TaskTimes /\ ReviewHistoryLegal
BY DEF FlowInv, LegalReview, Course, ReviewHistoryLegal

(* The records a request starts with are of their types.                    *)
LEMMA NothingLoaded == NoTask \in TaskRow /\ NoReview \in ReviewRow /\ NoRequest \in FlowRequest
<1>1. NoTask \in TaskRow
  BY DEF NoTask, TaskRow
<1>2. NoReview \in ReviewRow
  BY DEF NoReview, ReviewRow
<1> QED
  BY <1>1, <1>2 DEF NoRequest, FlowRequest

(* No rows and no requests at the start.                                    *)
LEMMA FlowStarts == FlowInit => FlowInv
<1> SUFFICES ASSUME FlowInit PROVE FlowInv
  OBVIOUS
<1>1. FlowTypeOK
  BY NothingLoaded DEF FlowInit, FlowTypeOK
<1>2. MilestonesCoverStatus /\ TaskTimes
  BY DEF FlowInit, MilestonesCoverStatus, Derived, TaskTimes, NoTask
<1>3. LegalReview(review)
  BY DEF FlowInit, LegalReview, NoReview
<1>4. \A c \in Requester : FlowKnown(c)
  BY DEF FlowInit, FlowKnown, NoRequest
<1> QED
  BY <1>1, <1>2, <1>3, <1>4 DEF FlowInit, FlowInv, NoTask, NoReview

(* A new list with one more entry is a course that ends in that entry.      *)
LEMMA CourseExtended ==
  ASSUME NEW h \in Seq(ReviewStatus), NEW s \in ApprovalStatus, Course(h, s),
         NEW to \in NextApprovals[s]
  PROVE  /\ Append(h, to) \in Seq(ReviewStatus)
         /\ Course(Append(h, to), to)
<1>1. to \in ReviewStatus
  BY ApprovalTable DEF ReviewStatus
<1>2. /\ Append(h, to) \in Seq(ReviewStatus)
      /\ Len(Append(h, to)) = Len(h) + 1
      /\ \A i \in 1..Len(h) : Append(h, to)[i] = h[i]
      /\ Append(h, to)[Len(h) + 1] = to
  BY <1>1
<1>3. Len(h) \in Nat \ {0}
  BY DEF Course
<1>4. Append(h, to)[1] # "published"
  BY <1>2, <1>3 DEF Course
<1>5. ASSUME NEW i \in 1..(Len(Append(h, to)) - 1)
      PROVE  Append(h, to)[i + 1] \in NextApprovals[Append(h, to)[i]]
  <2>1. CASE i = Len(h)
    BY <1>2, <1>3, <2>1 DEF Course
  <2>2. CASE i # Len(h)
    <3>1. i \in 1..(Len(h) - 1) /\ i + 1 \in 1..Len(h)
      BY <1>2, <1>3, <2>2
    <3> QED
      BY <1>2, <3>1 DEF Course
  <2> QED
    BY <2>1, <2>2
<1> QED
  BY <1>2, <1>3, <1>4, <1>5 DEF Course

-----------------------------------------------------------------------------
(* What is common to the steps: only c's request changes, and a request     *)
(* that stays on time saw no change of the tables.                          *)
LEMMA OnTime ==
  ASSUME FlowTypeOK, FlowOvertakes, NEW d \in Requester, d \notin flowLate', flow'[d].at # "away"
  PROVE  d \notin flowLate /\ investigation' = investigation
BY DEF FlowOvertakes, Flowing

(* A request that only reads: what it holds then is what is stored.         *)
LEMMA ReadStep ==
  ASSUME FlowInv, FlowOvertakes, NEW c \in Requester, NEW q \in FlowRequest, Reads(c, q),
         (flow' = [flow EXCEPT ![c] = q]) => FlowKnown(c)'
  PROVE  FlowInv' /\ investigation' = investigation
<1>1. /\ flow' = [flow EXCEPT ![c] = q]
      /\ UNCHANGED <<investigation, milestones, workTask, review>>
  BY DEF Reads
<1>2. /\ flow' \in [Requester -> FlowRequest] /\ flowLate' \subseteq Requester
      /\ \A d \in Requester \ {c} : flow'[d] = flow[d]
  BY <1>1 DEF FlowInv, FlowTypeOK, FlowOvertakes, Flowing
<1>3. FlowTypeOK'
  BY <1>1, <1>2 DEF FlowInv, FlowTypeOK
<1>4. MilestonesCoverStatus' /\ TaskTimes' /\ LegalReview(review)'
  BY <1>1 DEF FlowInv, MilestonesCoverStatus, TaskTimes, LegalReview
<1>5. ASSUME NEW d \in Requester
      PROVE  FlowKnown(d)'
  <2>1. CASE d = c
    BY <1>1, <2>1
  <2>2. CASE d # c
    BY <1>1, <1>2, <2>2, OnTime DEF FlowInv, FlowKnown
  <2> QED
    BY <2>1, <2>2
<1> QED
  BY <1>1, <1>3, <1>4, <1>5 DEF FlowInv

(* A commit that ends c's request: the others keep what they hold, as long  *)
(* as a review that is at work is still of its kind.                        *)
LEMMA OthersKnow ==
  ASSUME FlowInv, FlowOvertakes, NEW c \in Requester, EndFlow(c) \/ UNCHANGED flow,
         review.kind # "none" => review'.kind = review.kind
  PROVE  /\ flow' \in [Requester -> FlowRequest] /\ flowLate' \subseteq Requester
         /\ \A d \in Requester : FlowKnown(d)'
<1>1. flow' \in [Requester -> FlowRequest]
  BY NothingLoaded DEF FlowInv, FlowTypeOK, EndFlow
<1>2. flowLate' \subseteq Requester
  BY DEF FlowOvertakes, Flowing
<1>3. ASSUME NEW d \in Requester
      PROVE  FlowKnown(d)'
  <2>1. flow'[d] = NoRequest \/ flow'[d] = flow[d]
    BY DEF FlowInv, FlowTypeOK, EndFlow
  <2>2. CASE flow'[d] = NoRequest
    BY <2>2 DEF NoRequest, FlowKnown
  <2>3. CASE flow'[d] = flow[d]
    BY <2>3, OnTime DEF FlowInv, FlowKnown
  <2> QED
    BY <2>1, <2>2, <2>3
<1> QED
  BY <1>1, <1>2, <1>3

(* The status and its milestones.                                           *)
LEMMA StatusStep ==
  ASSUME FlowInv, FlowOvertakes, NEW c \in Requester, StatusNext(c)
  PROVE  /\ FlowInv'
         /\ investigation # "none" /\ investigation' # investigation
              => investigation' \in NextStatuses[investigation] \/ flowLate # {}
<1>1. CASE EnsureWorkflow(c)
  <2>1. /\ investigation = "none" /\ investigation' = "NEW"
        /\ milestones' = milestones \cup {"INVESTIGATION_STARTED"}
        /\ UNCHANGED <<workTask, review, flow>>
    BY <1>1 DEF EnsureWorkflow
  <2>2. /\ flow' \in [Requester -> FlowRequest] /\ flowLate' \subseteq Requester
        /\ \A d \in Requester : FlowKnown(d)'
    BY <2>1, OthersKnow
  <2>3. FlowTypeOK'
    BY <2>1, <2>2 DEF FlowInv, FlowTypeOK, InvestigationStatus, NextStatuses, Milestone
  <2>4. MilestonesCoverStatus' /\ TaskTimes' /\ LegalReview(review)'
    BY <2>1 DEF FlowInv, MilestonesCoverStatus, Derived, TaskTimes, LegalReview
  <2> QED
    BY <2>1, <2>2, <2>3, <2>4 DEF FlowInv
<1>2. CASE LoadWorkflow(c)
  <2> DEFINE q == [NoRequest EXCEPT !.at = "derive", !.status = investigation]
  <2>1. Reads(c, q) /\ investigation \in InvestigationStatus
    BY <1>2 DEF LoadWorkflow, FlowInv, FlowTypeOK
  <2>2. /\ q \in FlowRequest /\ q.at = "derive" /\ q.status = investigation
    BY <2>1, NothingLoaded DEF NoRequest, FlowRequest
  <2>3. flow' = [flow EXCEPT ![c] = q] => FlowKnown(c)'
    BY <2>1, <2>2 DEF FlowInv, FlowTypeOK, FlowKnown
  <2> HIDE DEF q
  <2> QED
    BY <2>1, <2>2, <2>3, ReadStep
<1>3. CASE CommitDerived(c)
  <2>1. /\ flow[c].at = "derive" /\ EndFlow(c)
        /\ milestones' = milestones \cup Derived(flow[c].status)
        /\ UNCHANGED <<investigation, workTask, review>>
    BY <1>3 DEF CommitDerived
  <2>2. /\ flow' \in [Requester -> FlowRequest] /\ flowLate' \subseteq Requester
        /\ \A d \in Requester : FlowKnown(d)'
    BY <2>1, OthersKnow
  <2>3. FlowTypeOK'
    BY <2>1, <2>2 DEF FlowInv, FlowTypeOK, Derived
  <2>4. MilestonesCoverStatus' /\ TaskTimes' /\ LegalReview(review)'
    BY <2>1 DEF FlowInv, MilestonesCoverStatus, Derived, TaskTimes, LegalReview
  <2> QED
    BY <2>1, <2>2, <2>3, <2>4 DEF FlowInv
<1>4. CASE LoadStatus(c)
  <2>1. PICK to \in InvestigationStatus :
          /\ to \in NextStatuses[investigation]
          /\ Reads(c, [NoRequest EXCEPT !.at = "status", !.status = investigation, !.to = to])
    BY <1>4 DEF LoadStatus, MayEnter
  <2> DEFINE q == [NoRequest EXCEPT !.at = "status", !.status = investigation, !.to = to]
  <2>2. investigation \in InvestigationStatus
    BY <1>4 DEF LoadStatus, FlowInv, FlowTypeOK
  <2>3. q \in FlowRequest /\ q.at = "status" /\ q.status = investigation /\ q.to = to
    BY <2>2, NothingLoaded DEF NoRequest, FlowRequest
  <2>4. flow' = [flow EXCEPT ![c] = q] => FlowKnown(c)'
    <3>1. investigation' = investigation
      BY <2>1 DEF Reads
    <3> QED
      BY <2>1, <2>2, <2>3, <3>1 DEF FlowInv, FlowTypeOK, FlowKnown
  <2>5. Reads(c, q)
    BY <2>1
  <2> HIDE DEF q
  <2> QED
    BY <2>3, <2>4, <2>5, ReadStep
<1>5. CASE CommitStatus(c)
  <2>1. /\ flow[c].at = "status" /\ EndFlow(c)
        /\ investigation' = Column(investigation, flow[c].status, flow[c].to)
        /\ milestones' = milestones \cup Derived(flow[c].to)
        /\ UNCHANGED <<workTask, review>>
    BY <1>5 DEF CommitStatus, Reached
  <2>2. /\ flow' \in [Requester -> FlowRequest] /\ flowLate' \subseteq Requester
        /\ \A d \in Requester : FlowKnown(d)'
    BY <2>1, OthersKnow
  <2>3. /\ flow[c].status \in InvestigationStatus
        /\ flow[c].to \in NextStatuses[flow[c].status]
        /\ c \notin flowLate => flow[c].status = investigation
    BY <2>1 DEF FlowInv, FlowKnown
  <2>4. flow[c].to \in InvestigationStatus /\ investigation' = flow[c].to
    BY <2>1, <2>3, StatusTable DEF Column
  <2>5. FlowTypeOK'
    BY <2>1, <2>2, <2>4 DEF FlowInv, FlowTypeOK, Derived
  <2>6. MilestonesCoverStatus' /\ TaskTimes' /\ LegalReview(review)'
    BY <2>1, <2>4 DEF FlowInv, MilestonesCoverStatus, TaskTimes, LegalReview
  <2> QED
    BY <2>1, <2>2, <2>3, <2>4, <2>5, <2>6 DEF FlowInv
<1> QED
  BY <1>1, <1>2, <1>3, <1>4, <1>5 DEF StatusNext, EnsureWorkflow, CommitDerived

(* A task, with its times.                                                  *)
LEMMA TaskStepKeeps ==
  ASSUME FlowInv, FlowOvertakes, NEW c \in Requester,
         CreateTask(c) \/ LoadTask(c) \/ CommitTask(c)
  PROVE  FlowInv' /\ investigation' = investigation
<1>0. workTask \in TaskRow /\ (workTask # NoTask => workTask.status \in TaskStatus)
  BY DEF FlowInv, FlowTypeOK, TaskRow
<1>1. CASE CreateTask(c)
  <2>1. /\ UNCHANGED <<investigation, milestones, review, flow>>
        /\ workTask' \in TaskRow /\ workTask'.status \in {"OPEN", "ASSIGNED"}
    BY <1>1 DEF CreateTask, NoTask, TaskRow, TaskStatus, NextTaskStatuses
  <2>2. /\ flow' \in [Requester -> FlowRequest] /\ flowLate' \subseteq Requester
        /\ \A d \in Requester : FlowKnown(d)'
    BY <2>1, OthersKnow
  <2>3. FlowTypeOK'
    BY <2>1, <2>2 DEF FlowInv, FlowTypeOK
  <2>4. MilestonesCoverStatus' /\ TaskTimes' /\ LegalReview(review)'
    BY <2>1 DEF FlowInv, MilestonesCoverStatus, TaskTimes, LegalReview
  <2> QED
    BY <2>1, <2>2, <2>3, <2>4 DEF FlowInv
<1>2. CASE LoadTask(c)
  <2>1. PICK to \in NextTaskStatuses[workTask.status] :
          Reads(c, [NoRequest EXCEPT !.at = "task", !.task = workTask, !.to = to])
    BY <1>2 DEF LoadTask
  <2>2. workTask.status \in TaskStatus /\ to \in TaskStatus
    BY <1>0, <1>2, TaskTable DEF LoadTask
  <2> DEFINE q == [NoRequest EXCEPT !.at = "task", !.task = workTask, !.to = to]
  <2>3. q \in FlowRequest /\ q.at = "task" /\ q.task = workTask /\ q.to = to
    BY <1>0, <2>2, NothingLoaded DEF NoRequest, FlowRequest
  <2>4. flow' = [flow EXCEPT ![c] = q] => FlowKnown(c)'
    BY <2>2, <2>3 DEF FlowInv, FlowTypeOK, FlowKnown
  <2>5. Reads(c, q)
    BY <2>1
  <2> HIDE DEF q
  <2> QED
    BY <2>3, <2>4, <2>5, ReadStep
<1>3. CASE CommitTask(c)
  <2> DEFINE q == flow[c]
  <2>1. /\ q.at = "task" /\ EndFlow(c)
        /\ UNCHANGED <<investigation, milestones, review>>
        /\ workTask' = [status |-> Column(workTask.status, q.task.status, q.to),
                        completed |-> CompletedAt(workTask, q.task, q.to),
                        cancelled |-> CancelledAt(workTask, q.task, q.to)]
    BY <1>3 DEF CommitTask
  <2>2. /\ flow' \in [Requester -> FlowRequest] /\ flowLate' \subseteq Requester
        /\ \A d \in Requester : FlowKnown(d)'
    BY <2>1, OthersKnow
  <2>3. q.task.status \in TaskStatus /\ q.to \in NextTaskStatuses[q.task.status]
    BY <2>1 DEF FlowInv, FlowKnown
  <2>4. q.to \in TaskStatus /\ workTask'.status = q.to
    BY <2>1, <2>3, TaskTable DEF Column
  <2>5. /\ workTask'.completed \in BOOLEAN /\ workTask'.cancelled \in BOOLEAN
        /\ q.to = "COMPLETED" => workTask'.completed
        /\ q.to = "CANCELLED" => workTask'.cancelled
    BY <1>0, <2>1 DEF CompletedAt, CancelledAt, Column, TaskRow
  <2>6. workTask' \in TaskRow
    BY <2>1, <2>4, <2>5 DEF TaskRow
  <2>7. FlowTypeOK'
    BY <2>1, <2>2, <2>6 DEF FlowInv, FlowTypeOK
  <2>8. MilestonesCoverStatus' /\ TaskTimes' /\ LegalReview(review)'
    BY <2>1, <2>4, <2>5 DEF FlowInv, MilestonesCoverStatus, TaskTimes, LegalReview
  <2>9. workTask'.status # "none"
    BY <2>4 DEF TaskStatus, NextTaskStatuses
  <2> QED
    BY <2>1, <2>2, <2>7, <2>8, <2>9 DEF FlowInv
<1> QED
  BY <1>1, <1>2, <1>3

(* A review, with its history.                                              *)
LEMMA ReviewStepKeeps ==
  ASSUME FlowInv, FlowOvertakes, NEW c \in Requester,
         CreateReview(c) \/ LoadReview(c) \/ CommitReview(c)
  PROVE  FlowInv' /\ investigation' = investigation
<1>0. review \in ReviewRow /\ LegalReview(review)
  BY DEF FlowInv, FlowTypeOK
<1>1. CASE CreateReview(c)
  <2>0. PICK k \in {"report", "evidence"} :
          \E s \in InitialStatuses(k) :
            /\ review' = [kind |-> k, status |-> s, history |-> <<s>>]
            /\ milestones' = milestones \cup
                 (IF k = "report" /\ s = "approved" THEN {"REPORT_APPROVED"} ELSE {})
    BY <1>1 DEF CreateReview
  <2>1. PICK s \in InitialStatuses(k) :
            /\ review' = [kind |-> k, status |-> s, history |-> <<s>>]
            /\ milestones' = milestones \cup
                 (IF k = "report" /\ s = "approved" THEN {"REPORT_APPROVED"} ELSE {})
    BY <2>0
  <2>2. UNCHANGED <<investigation, workTask, flow>> /\ review = NoReview
    BY <1>1 DEF CreateReview
  <2>3. /\ flow' \in [Requester -> FlowRequest] /\ flowLate' \subseteq Requester
        /\ \A d \in Requester : FlowKnown(d)'
    BY <2>2, OthersKnow DEF NoReview
  <2>4. s \in ReviewStatus /\ s # "published"
        /\ (k = "report" => s \in ApprovalStatus) /\ (k = "evidence" => s \in EvidenceReviewStatus)
    BY DEF InitialStatuses, ReviewStatus, EvidenceReviewStatus
  <2>5. /\ <<s>> \in Seq(ReviewStatus) /\ Len(<<s>>) = 1 /\ <<s>>[1] = s
    BY <2>4
  <2>6. FlowTypeOK'
    <3>1. review' \in ReviewRow
      BY <2>1, <2>4, <2>5 DEF ReviewRow
    <3>2. milestones' \subseteq Milestone
      BY <2>1 DEF FlowInv, FlowTypeOK, Milestone
    <3> QED
      BY <2>2, <2>3, <3>1, <3>2 DEF FlowInv, FlowTypeOK
  <2>7. MilestonesCoverStatus' /\ TaskTimes'
    BY <2>1, <2>2 DEF FlowInv, MilestonesCoverStatus, TaskTimes
  <2>8. LegalReview(review)'
    BY <2>1, <2>4, <2>5 DEF LegalReview, Course
  <2> QED
    BY <2>1, <2>2, <2>3, <2>6, <2>7, <2>8 DEF FlowInv
<1>2. CASE LoadReview(c)
  <2>1. PICK to \in ReviewStatus :
          /\ MayDecide(review.kind, review.status, to)
          /\ Reads(c, [NoRequest EXCEPT !.at = "review", !.review = review, !.to = to])
    BY <1>2 DEF LoadReview
  <2> DEFINE q == [NoRequest EXCEPT !.at = "review", !.review = review, !.to = to]
  <2>2. q \in FlowRequest /\ q.at = "review" /\ q.review = review /\ q.to = to
    BY <1>0, NothingLoaded DEF NoRequest, FlowRequest
  <2>3. review.kind # "none" /\ review' = review
    BY <1>2, <2>1 DEF LoadReview, FlowInv, Reads
  <2>4. flow' = [flow EXCEPT ![c] = q] => FlowKnown(c)'
    BY <1>0, <2>1, <2>2, <2>3 DEF FlowInv, FlowTypeOK, FlowKnown
  <2>5. Reads(c, q)
    BY <2>1
  <2> HIDE DEF q
  <2> QED
    BY <2>2, <2>4, <2>5, ReadStep
<1>3. CASE CommitReview(c)
  <2> DEFINE q == flow[c]
             h == Append(q.review.history, q.to)
  <2>1. /\ q.at = "review" /\ EndFlow(c)
        /\ UNCHANGED <<investigation, milestones, workTask>>
        /\ review' = [review EXCEPT !.status = Column(review.status, q.review.status, q.to),
                                    !.history = h]
    BY <1>3 DEF CommitReview, ExtendedHistory
  <2>2. /\ q.review.kind = review.kind /\ review.kind # "none"
        /\ LegalReview(q.review) /\ q.to \in ReviewStatus
        /\ MayDecide(review.kind, q.review.status, q.to)
        /\ q.review.history \in Seq(ReviewStatus)
    BY <2>1 DEF FlowInv, FlowKnown, FlowTypeOK, FlowRequest, ReviewRow
  <2>3. h \in Seq(ReviewStatus)
    BY <2>2
  <2>4. /\ review'.kind = review.kind /\ review'.history = h
        /\ review'.status = Column(review.status, q.review.status, q.to)
    BY <1>0, <2>1 DEF ReviewRow
  <2>5. review' \in ReviewRow
    BY <1>0, <2>1, <2>2, <2>3 DEF ReviewRow, Column
  <2>6. /\ flow' \in [Requester -> FlowRequest] /\ flowLate' \subseteq Requester
        /\ \A d \in Requester : FlowKnown(d)'
    BY <2>1, <2>4, OthersKnow
  <2>7. LegalReview(review)'
    <3>1. CASE review.kind = "report"
      <4>1. /\ q.review.status \in ApprovalStatus /\ Course(q.review.history, q.review.status)
            /\ q.to \in NextApprovals[q.review.status]
        BY <2>2, <3>1 DEF LegalReview, MayDecide
      <4>2. Course(h, q.to) /\ q.to \in ApprovalStatus \ {q.review.status}
        BY <2>2, <4>1, CourseExtended, ApprovalTable
      <4> QED
        BY <2>4, <3>1, <4>2 DEF LegalReview, Column
    <3>2. CASE review.kind # "report"
      BY <1>0, <2>2, <2>4, <3>2 DEF LegalReview, Column, MayDecide
    <3> QED
      BY <3>1, <3>2
  <2>8. FlowTypeOK'
    BY <2>1, <2>5, <2>6 DEF FlowInv, FlowTypeOK
  <2>9. MilestonesCoverStatus' /\ TaskTimes'
    BY <2>1 DEF FlowInv, MilestonesCoverStatus, TaskTimes
  <2> QED
    BY <2>1, <2>2, <2>4, <2>6, <2>7, <2>8, <2>9 DEF FlowInv
<1> QED
  BY <1>1, <1>2, <1>3

(* Every step of a request keeps the invariant, and moves the investigation *)
(* along the policy unless the request was overtaken.                       *)
LEMMA FlowStep ==
  ASSUME FlowInv, FlowOvertakes, NEW c \in Requester,
         StatusNext(c) \/ TaskNext(c) \/ ReviewNext(c)
  PROVE  /\ FlowInv'
         /\ investigation # "none" /\ investigation' # investigation
              => investigation' \in NextStatuses[investigation] \/ flowLate # {}
BY StatusStep, TaskStepKeeps, ReviewStepKeeps DEF StatusNext, TaskNext, ReviewNext
=============================================================================
