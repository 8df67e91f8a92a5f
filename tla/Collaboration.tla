---------------------------- MODULE Collaboration ----------------------------
(***************************************************************************)
(* CollaborationService: the members of a case, their roles, the check     *)
(* that keeps the last owner, and the stage of the case.                   *)
(*                                                                         *)
(* Each action is one statement that reads, or one commit; a request holds *)
(* the rows it has read.  Notifications, the activity feed, assignments,   *)
(* comments, tasks and reviews of this service only insert rows or         *)
(* overwrite one column, and no check of it reads them.                    *)
(***************************************************************************)
EXTENDS Naturals, FiniteSets, CaseRequests

CONSTANTS
  User,          \* users that may be members
  MaxMemberRows  \* bound: rows ever inserted into case_members

ASSUME UserAssumption == IsFiniteSet(User)
ASSUME MaxMemberRowsAssumption == MaxMemberRows \in Nat

VARIABLES
  members,     \* case_members: the row of each user
  memberRows,  \* rows inserted so far: a row added again has another id
  caseStage,   \* case_workflow_states.stage, "none" before the row exists
  collab,      \* per requester: what it is asked and what it has read
  collabLate   \* history: requests that are overtaken

collabVars == <<members, memberRows, caseStage, collab, collabLate>>

(* investigator, analyst and reviewer are told apart from viewer nowhere.   *)
MemberRole == {"owner", "lead_investigator", "viewer"}
ManageRoles == {"owner", "lead_investigator"}

MemberRow == [id : 0..MaxMemberRows, role : MemberRole \cup {"none"}]
NoMember == [id |-> 0, role |-> "none"]

CaseStage == {"open", "evidence_collection", "analysis", "review", "reporting",
              "closed", "archived"}
NextStages ==
  [s \in CaseStage |->
     CASE s = "open" -> {"evidence_collection"}
       [] s = "evidence_collection" -> {"analysis", "open"}
       [] s = "analysis" -> {"review", "evidence_collection"}
       [] s = "review" -> {"reporting", "analysis"}
       [] s = "reporting" -> {"closed", "review"}
       [] s = "closed" -> {"archived", "reporting"}
       [] s = "archived" -> {}]

MemberOp == {"add", "role", "transfer", "remove"}
(* want is the role, or the stage, the request asks for; row and own are    *)
(* the rows of the user it is about and of its caller, as they were read.   *)
CollabRequest ==
  [at : {"away", "allowed", "loaded", "ready", "stage"},
   op : MemberOp \cup {"none"}, user : User \cup {"none"}, caller : User \cup {"none"},
   admin : BOOLEAN, want : MemberRole \cup CaseStage \cup {"none"},
   row : MemberRow, own : MemberRow, stage : CaseStage \cup {"none"}]
Away == [at |-> "away", op |-> "none", user |-> "none", caller |-> "none",
         admin |-> FALSE, want |-> "none", row |-> NoMember, own |-> NoMember,
         stage |-> "none"]

CollabInit ==
  /\ members = [u \in User |-> NoMember]
  /\ memberRows = 0
  /\ caseStage = "none"
  /\ collab = [c \in Requester |-> Away]
  /\ collabLate = {}

Owners == {u \in User : members[u].role = "owner"}

Collaborating == {c \in Requester : collab[c].at # "away"}
Leave(c) == collab' = [collab EXCEPT ![c] = Away]

(* The request ends without a change: refused, not found, or rolled back.   *)
Refuse(c) ==
  /\ Leave(c)
  /\ UNCHANGED <<members, memberRows, caseStage>>

(* A read of the request: its session keeps the new record.                 *)
Holds(c, request) ==
  /\ collab' = [collab EXCEPT ![c] = request]
  /\ UNCHANGED <<members, memberRows, caseStage>>

-----------------------------------------------------------------------------
(* Members.                                                                 *)

(* admin.manage_users, or no authentication, decides without a read.        *)
MayManage(caller, admin) == admin \/ members[caller].role \in ManageRoles

AskMembers(c) ==
  /\ collab[c].at = "away"
  /\ \E op \in MemberOp, u, caller \in User, admin \in BOOLEAN, r \in MemberRole \cup {"none"} :
       /\ MayManage(caller, admin)
       /\ (r = "none") <=> op \in {"transfer", "remove"}
       /\ Holds(c, [Away EXCEPT !.at = "allowed", !.op = op, !.user = u, !.want = r,
                      !.caller = IF op = "transfer" THEN caller ELSE "none",
                      !.admin = admin /\ op = "transfer"])

(* add_member refuses a member, the others a user who is none.              *)
LoadMember(c) ==
  LET q == collab[c]
      row == members[q.user]
  IN /\ q.at = "allowed"
     /\ IF (q.op = "add") <=> (row = NoMember)
        THEN Holds(c, [q EXCEPT !.at = "loaded", !.row = row])
        ELSE Refuse(c)

(* Only an owner or an administrator transfers ownership.  A row that the   *)
(* session holds already stays as it was loaded.                            *)
LoadCaller(c) ==
  LET q == collab[c]
      found == members[q.caller]
      own == IF found.id = q.row.id THEN q.row ELSE found
  IN /\ q.at = "loaded" /\ q.op = "transfer"
     /\ IF own.role = "owner" \/ q.admin
        THEN Holds(c, [q EXCEPT !.at = "ready", !.own = own])
        ELSE Refuse(c)

GivesUpOwner(q) == q.row.role = "owner" /\ q.want # "owner"
(* A plausible bug: an off-by-one in the count of owners.                   *)
BelowOneM(n) == n < 1

LastOwner(n) == n <= 1

(* count_owners: a role that is given up must not be the last.              *)
CountOwners(c) ==
  LET q == collab[c] IN
  /\ q.at = "loaded" /\ q.op # "transfer"
  /\ IF q.op \in {"role", "remove"} /\ GivesUpOwner(q) /\ LastOwner(Cardinality(Owners))
     THEN Refuse(c)
     ELSE Holds(c, [q EXCEPT !.at = "ready"])

(* uq_case_members_case_user refuses a user added in between.               *)
CommitAdd(c) ==
  LET q == collab[c] IN
  /\ q.at = "ready" /\ q.op = "add"
  /\ memberRows < MaxMemberRows
  /\ IF members[q.user] = NoMember
     THEN /\ members' = [members EXCEPT ![q.user] = [id |-> memberRows + 1, role |-> q.want]]
          /\ memberRows' = memberRows + 1
          /\ Leave(c)
          /\ UNCHANGED caseStage
     ELSE Refuse(c)

(* An UPDATE of a row that is gone raises and rolls the request back.       *)
StillThere(row) == row.id = 0 \/ \E u \in User : members[u].id = row.id

Assign(row, role) ==
  [u \in User |->
     IF members[u].id = row.id /\ row.id # 0
     THEN [members[u] EXCEPT !.role = Column(@, row.role, role)]
     ELSE members[u]]

CommitRole(c) ==
  LET q == collab[c] IN
  /\ q.at = "ready" /\ q.op = "role"
  /\ IF q.want = q.row.role \/ StillThere(q.row)
     THEN /\ members' = Assign(q.row, q.want)
          /\ Leave(c)
          /\ UNCHANGED <<memberRows, caseStage>>
     ELSE Refuse(c)

(* The caller, if a member, becomes a lead investigator, and then the row   *)
(* an owner: they may be the same row.                                      *)
CommitTransfer(c) ==
  LET q == collab[c]
      lead == IF q.own.id = q.row.id THEN members ELSE Assign(q.own, "lead_investigator")
      owner == Assign(q.row, "owner")
  IN /\ q.at = "ready" /\ q.op = "transfer"
     /\ IF /\ q.own.role = "lead_investigator" \/ StillThere(q.own)
           /\ q.row.role = "owner" \/ StillThere(q.row)
        THEN /\ members' = [u \in User |->
                  IF members[u].id = q.row.id THEN owner[u] ELSE lead[u]]
             /\ Leave(c)
             /\ UNCHANGED <<memberRows, caseStage>>
        ELSE Refuse(c)

(* A DELETE that finds no row only warns.                                   *)
CommitRemove(c) ==
  LET q == collab[c] IN
  /\ q.at = "ready" /\ q.op = "remove"
  /\ members' = [u \in User |->
       IF members[u].id = q.row.id THEN NoMember ELSE members[u]]
  /\ Leave(c)
  /\ UNCHANGED <<memberRows, caseStage>>

MembersNext(c) ==
  \/ AskMembers(c) \/ LoadMember(c) \/ LoadCaller(c) \/ CountOwners(c)
  \/ CommitAdd(c) \/ CommitRole(c) \/ CommitTransfer(c) \/ CommitRemove(c)

-----------------------------------------------------------------------------
(* The stage of the case.                                                   *)

(* get_workflow creates the row on the first look.                          *)
GetStage(c) ==
  /\ collab[c].at = "away"
  /\ caseStage = "none"
  /\ caseStage' = "open"
  /\ UNCHANGED <<members, memberRows, collab>>

(* A plausible bug: the stage is overwritten without a look at the policy.  *)
AnyStageM(from, to) == {from, to} \subseteq CaseStage

MayMove(from, to) == to \in NextStages[from]

(* Without a row the request inserts one that is open, uncommitted.         *)
LoadStage(c) ==
  /\ collab[c].at = "away"
  /\ \E to \in CaseStage :
       /\ MayMove(IF caseStage = "none" THEN "open" ELSE caseStage, to)
       /\ Holds(c, [Away EXCEPT !.at = "stage", !.stage = caseStage, !.want = to])

(* uq_case_workflow_states_case_id refuses a second row.                    *)
CommitStage(c) ==
  LET q == collab[c] IN
  /\ q.at = "stage"
  /\ IF q.stage = "none" /\ caseStage # "none"
     THEN Refuse(c)
     ELSE /\ caseStage' = Column(caseStage, q.stage, q.want)
          /\ Leave(c)
          /\ UNCHANGED <<members, memberRows>>

StageNext(c) == GetStage(c) \/ LoadStage(c) \/ CommitStage(c)

(* Who is overtaken: a request at work while another changes the tables.    *)
CollabOvertakes ==
  collabLate' = {d \in Collaborating' :
    d \in collabLate \/ members' # members \/ caseStage' # caseStage}

-----------------------------------------------------------------------------

CollabTypeOK ==
  /\ members \in [User -> MemberRow]
  /\ memberRows \in 0..MaxMemberRows
  /\ caseStage \in CaseStage \cup {"none"}
  /\ collab \in [Requester -> CollabRequest]
  /\ collabLate \subseteq Requester

(* A case that has an owner never loses the last one to a request that ran  *)
(* alone: only a request that another one overtook, between its checks and  *)
(* its commit, may leave the case without an owner.                         *)
LastOwnerKept ==
  [][Owners # {} /\ Owners' = {}
       => \E c \in collabLate : collab[c].at = "ready" /\ collab'[c].at = "away"]_collabVars
=============================================================================
