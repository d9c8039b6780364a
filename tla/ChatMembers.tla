----------------------------- MODULE ChatMembers -----------------------------
(***************************************************************************)
(* The members of one conversation, direct or group: chat/services.py,     *)
(* ConversationService and ParticipantService.                             *)
(*                                                                         *)
(* A request reads rows and checks them, then saves, in a transaction of   *)
(* its own, what it has read.  Every transaction that saves also updates   *)
(* the row of the conversation and reads counts only after that, so its    *)
(* commit is one step; nothing else is locked.                             *)
(***************************************************************************)
EXTENDS Integers, Sequences, FiniteSets, FiniteSetsExt

CONSTANTS Users,
          Requests,    \* requests served at the same time
          MaxRows      \* bound of the model: Participant rows

VARIABLES conv,        \* the Conversation row, and its DirectConversationPair
          rows,        \* the Participant rows, oldest first
          req          \* what each request has read

memberVars == <<conv, rows, req>>

Roles == {"OWNER", "ADMIN", "MEMBER", "NONE"}
Row == [user : Users, role : Roles, is : {"active", "left", "removed"}]
Conversation == [kind : {"direct", "group"}, made : BOOLEAN,
                 count : 0..MaxRows, deleted : BOOLEAN]
Idle == [op |-> "idle"]

Joins(user, role) == [user |-> user, role |-> role, is |-> "active"]
Active == {i \in DOMAIN rows : rows[i].is = "active"}
IsActive(u) == \E i \in Active : rows[i].user = u
HasRole(i, roles) == rows[i].role \in roles

(* The creator and the members of the creator's choice.                    *)
Chosen(members) == \A i, j \in DOMAIN members : members[i] = members[j] => i = j

(* create_group has returned, or two users have no conversation yet.       *)
MembersInit ==
    /\ \/ \E n \in 1..MaxRows : \E members \in [1..n -> Users] :
             /\ Chosen(members)
             /\ rows = [i \in 1..n |-> Joins(members[i], IF i = 1 THEN "OWNER" ELSE "MEMBER")]
             /\ conv = [kind |-> "group", made |-> TRUE, count |-> n, deleted |-> FALSE]
       \/ /\ rows = << >>
          /\ conv = [kind |-> "direct", made |-> FALSE, count |-> 0, deleted |-> FALSE]
    /\ req = [p \in Requests |-> Idle]

-----------------------------------------------------------------------------
(* What a request reads and checks.  The views do not find a deleted       *)
(* conversation; later steps do not look again.                            *)

Asks(p, request) ==
    /\ req[p] = Idle
    /\ req' = [req EXCEPT ![p] = request]
    /\ UNCHANGED <<conv, rows>>

Group == conv.kind = "group" /\ ~conv.deleted
Owners == {i \in Active : HasRole(i, {"OWNER"})}

GivenRoles == {"ADMIN", "MEMBER"}

(* Who may bring in, or put out, members of a role.                        *)
Manages(by, role) ==
    \/ HasRole(by, {"OWNER"}) /\ role \in GivenRoles
    \/ HasRole(by, {"ADMIN"}) /\ role = "MEMBER"

MayAdd(by, u, role) == Manages(by, role) /\ ~IsActive(u)
MayRemove(by, i) == rows[i].user # rows[by].user /\ Manages(by, rows[i].role)
MayChange(by, i, role) == by \in Owners /\ ~HasRole(i, {"OWNER", role})
MayTransfer(from, to) == from \in Owners /\ rows[from].user # rows[to].user

(* An existing pair is returned as it is, also when both have left.        *)
PairIsNew == conv.kind = "direct" /\ ~conv.made
AskDirect(p) == PairIsNew /\ Asks(p, [op |-> "direct"])

AskAdd(p) ==
    /\ Group /\ Len(rows) < MaxRows
    /\ \E by \in Active, u \in Users, role \in GivenRoles :
          MayAdd(by, u, role) /\ Asks(p, [op |-> "add", user |-> u, role |-> role])

AskRemove(p) ==
    /\ Group
    /\ \E by, i \in Active : MayRemove(by, i) /\ Asks(p, [op |-> "remove", row |-> i])

AskLeave(p) ==
    /\ ~conv.deleted
    /\ \E i \in Active :
          Asks(p, IF i \in Owners THEN [op |-> "heir", row |-> i]
                  ELSE [op |-> "leave", row |-> i, heir |-> 0])

AskChange(p) ==
    /\ Group
    /\ \E by, i \in Active, role \in GivenRoles :
          MayChange(by, i, role) /\ Asks(p, [op |-> "change", row |-> i, role |-> role])

AskTransfer(p) ==
    /\ Group
    /\ \E from, to \in Active :
          MayTransfer(from, to) /\ Asks(p, [op |-> "transfer", row |-> from, to |-> to])

AskDelete(p) == Group /\ Owners # {} /\ Asks(p, [op |-> "delete"])

-----------------------------------------------------------------------------
(* What it saves.                                                          *)

Ends(p) == req' = [req EXCEPT ![p] = Idle]
Does(p, op) == req[p].op = op

(* The pair is unique: the second transaction rolls back.                  *)
MakeDirect(p) ==
    /\ Does(p, "direct") /\ PairIsNew
    /\ \E u, v \in Users :
          u # v /\ rows' = <<Joins(u, "NONE"), Joins(v, "NONE")>>
    /\ conv' = [conv EXCEPT !.made = TRUE, !.count = 2]
    /\ Ends(p)

(* unique_active_participation: a row that would be the user's second      *)
(* active one is refused, and with it the count.                           *)
AnyRowIsNew(u) == TRUE                          \* bug: no such constraint
RowIsNew(u) == ~IsActive(u)

Add(p) ==
    /\ Does(p, "add") /\ RowIsNew(req[p].user) /\ Len(rows) < MaxRows
    /\ rows' = Append(rows, Joins(req[p].user, req[p].role))
    /\ conv' = [conv EXCEPT !.count = @ + 1]
    /\ Ends(p)

(* F("participant_count") - 1, whatever has become of the row meanwhile;   *)
(* the column is not negative.                                             *)
OneFewer == conv.count - 1

Remove(p) ==
    /\ Does(p, "remove") /\ conv.count > 0
    /\ rows' = [rows EXCEPT ![req[p].row].is = "removed"]
    /\ conv' = [conv EXCEPT !.count = OneFewer]
    /\ Ends(p)

(* _transfer_ownership_on_departure: the oldest admin, then the oldest     *)
(* member; the heir's row is saved with the transaction of the departure.  *)
Candidates(i, role) == {j \in Active : rows[j].user # rows[i].user /\ rows[j].role = role}

Heir(i) ==
    IF Candidates(i, "ADMIN") # {} THEN Min(Candidates(i, "ADMIN"))
    ELSE IF Candidates(i, "MEMBER") # {} THEN Min(Candidates(i, "MEMBER"))
    ELSE 0

PickHeir(p) ==
    /\ Does(p, "heir")
    /\ req' = [req EXCEPT ![p] = [op |-> "leave", row |-> req[p].row,
                                  heir |-> Heir(req[p].row)]]
    /\ UNCHANGED <<conv, rows>>

NobodyCounted(left) == conv.count = 1           \* bug: direct ones by the count, too
NobodyLeft(left) ==
    IF conv.kind = "direct" THEN \A i \in DOMAIN left : left[i].is # "active"
    ELSE OneFewer <= 0

Leave(p) ==
    /\ Does(p, "leave") /\ conv.count > 0
    /\ LET i == req[p].row
           left == [j \in DOMAIN rows |->
                      IF j = i THEN [rows[j] EXCEPT !.is = "left"]
                      ELSE IF j = req[p].heir THEN [rows[j] EXCEPT !.role = "OWNER"]
                      ELSE rows[j]]
       IN /\ rows' = left
          /\ conv' = [conv EXCEPT !.count = OneFewer,
                                  !.deleted = @ \/ NobodyLeft(left)]
    /\ Ends(p)

Change(p) ==
    /\ Does(p, "change")
    /\ rows' = [rows EXCEPT ![req[p].row].role = req[p].role]
    /\ Ends(p)
    /\ UNCHANGED conv

Transfer(p) ==
    /\ Does(p, "transfer")
    /\ rows' = [rows EXCEPT ![req[p].row].role = "ADMIN", ![req[p].to].role = "OWNER"]
    /\ Ends(p)
    /\ UNCHANGED conv

Delete(p) ==
    /\ Does(p, "delete")
    /\ conv' = [conv EXCEPT !.deleted = TRUE]
    /\ Ends(p)
    /\ UNCHANGED rows

(* A constraint, a deadlock between row locks, or the end of the worker:   *)
(* nothing is saved.                                                       *)
Fail(p) == req[p] # Idle /\ Ends(p) /\ UNCHANGED <<conv, rows>>

MembersStep(p) ==
    \/ AskDirect(p) \/ AskAdd(p) \/ AskRemove(p) \/ AskLeave(p)
    \/ AskChange(p) \/ AskTransfer(p) \/ AskDelete(p)
    \/ MakeDirect(p) \/ Add(p) \/ Remove(p) \/ PickHeir(p) \/ Leave(p)
    \/ Change(p) \/ Transfer(p) \/ Delete(p) \/ Fail(p)

-----------------------------------------------------------------------------
(* A user is in a conversation once, and participant_count, which double   *)
(* departures (a removal of somebody who is leaving) take below the number *)
(* of active members, is never above it.                                   *)
MembersAreCounted ==
    /\ \A i, j \in Active : rows[i].user = rows[j].user => i = j
    /\ conv.count <= Cardinality(Active)

(* Whoever leaves a conversation last closes it, though the count may have *)
(* drifted: only a removal leaves one behind that is open and empty.  And  *)
(* a direct conversation is closed by nothing else than that.              *)
LastToLeaveCloses ==
    [][/\ (Active # {} /\ Active' = {} /\ ~conv'.deleted)
             => \E i \in Active : rows'[i].is = "removed"
       /\ conv.kind = "direct" /\ conv'.deleted => Active' = {}]_memberVars
=============================================================================
