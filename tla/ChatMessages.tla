---------------------------- MODULE ChatMessages ----------------------------
(***************************************************************************)
(* One message of the conversation of ChatMembers, its edits and its       *)
(* reactions: chat/services.py, MessageService and ReactionService, as the *)
(* REST views and the WebSocket consumer call them.  Edits and counts of   *)
(* reactions are made under a lock on the row of the message; what was     *)
(* checked before may be stale by then.                                    *)
(***************************************************************************)
EXTENDS ChatMembers

CONSTANTS Emojis,
          Talks,               \* bound of the model: kinds with a message
          MaxEdits,            \* MAX_EDIT_COUNT
          MaxUserReactions     \* MAX_USER_REACTIONS_PER_MESSAGE

ASSUME ChatAssumption ==
    /\ IsFiniteSet(Users) /\ Cardinality(Users) > 1 /\ IsFiniteSet(Requests)
    /\ MaxRows \in Nat \ {0, 1} /\ MaxEdits \in Nat /\ MaxUserReactions \in Nat

VARIABLES message,     \* the Message row
          history,     \* edit numbers of its MessageEditHistory rows
          reactions,   \* its MessageReaction rows
          counts       \* message.reaction_counts

messageVars == <<message, history, reactions, counts>>
chatVars == <<memberVars, messageVars>>

NoMessage == [is |-> "none", edits |-> 0]

ChatInit ==
    /\ MembersInit
    /\ message = NoMessage /\ history = {} /\ reactions = {}
    /\ counts = [e \in Emojis |-> 0]

-----------------------------------------------------------------------------
(* What a request reads and checks.                                        *)

Says(p, request) ==
    /\ Asks(p, request)
    /\ UNCHANGED messageVars

(* A WebSocket: a member may still send when the conversation has been     *)
(* deleted.                                                                *)
MaySend(u) == IsActive(u)

AskSend(p) ==
    /\ message.is = "none" /\ conv.kind \in Talks
    /\ \E u \in Users : MaySend(u) /\ Says(p, [op |-> "send", user |-> u])

Sender(u) == ~conv.deleted /\ IsActive(u) /\ message.is = "sent" /\ message.by = u

AskEdit(p) == \E u \in Users : Sender(u) /\ Says(p, [op |-> "edit"])
AskUnsend(p) == \E u \in Users : Sender(u) /\ Says(p, [op |-> "unsend"])

MayReact(u) == ~conv.deleted /\ IsActive(u)
UnderLimit(u) == Cardinality({r \in reactions : r[1] = u}) < MaxUserReactions

(* A row that exists is returned by add_reaction and deleted by            *)
(* toggle_reaction, which looks for it before it looks at the limit.       *)
Adds(row) == row \notin reactions /\ UnderLimit(row[1])

AskReact(p) ==
    \E row \in Users \X Emojis :
       /\ MayReact(row[1]) /\ message.is = "sent" /\ Adds(row)
       /\ Says(p, [op |-> "react", row |-> row])

(* "there": the row that was read still exists; one added later is another.*)
AskUnreact(p) ==
    \E r \in reactions :
       /\ MayReact(r[1]) /\ message.is # "none"
       /\ Says(p, [op |-> "unreact", row |-> r, there |-> TRUE])

-----------------------------------------------------------------------------
(* What it saves.                                                          *)

Saved(p) == Ends(p) /\ UNCHANGED <<conv, rows>>

Send(p) ==
    /\ Does(p, "send") /\ message.is = "none"
    /\ message' = [is |-> "sent", edits |-> 0, by |-> req[p].user]
    /\ Saved(p)
    /\ UNCHANGED <<history, reactions, counts>>

(* The row is locked and read again.                                       *)
MayEditAsRead == message.edits < MaxEdits       \* bug: trusts the first read
MayEdit == message.is = "sent" /\ message.edits < MaxEdits

Recorded == history \cup {message.edits + 1}

Edit(p) ==
    /\ Does(p, "edit") /\ MayEdit
    /\ history' = Recorded
    /\ message' = [message EXCEPT !.edits = @ + 1]
    /\ Saved(p)
    /\ UNCHANGED <<reactions, counts>>

Unsend(p) ==
    /\ Does(p, "unsend")
    /\ message' = [message EXCEPT !.is = "deleted"]
    /\ Saved(p)
    /\ UNCHANGED <<history, reactions, counts>>

(* The row is unique: a second one rolls back, and its count with it.      *)
React(p) ==
    /\ Does(p, "react") /\ req[p].row \notin reactions
    /\ reactions' = reactions \cup {req[p].row}
    /\ counts' = [counts EXCEPT ![req[p].row[2]] = @ + 1]
    /\ Saved(p)
    /\ UNCHANGED <<message, history>>

(* delete() of a row that is gone deletes nothing; the count goes down all *)
(* the same, though not below zero.                                        *)
CountsAnyway(row, there) == counts              \* bug: the count is left alone
CountedDown(row, there) == [counts EXCEPT ![row[2]] = IF @ > 0 THEN @ - 1 ELSE 0]

Unreact(p) ==
    /\ Does(p, "unreact")
    /\ LET row == req[p].row IN
          /\ reactions' = IF req[p].there THEN reactions \ {row} ELSE reactions
          /\ counts' = CountedDown(row, req[p].there)
          /\ req' = [q \in Requests |->
                       IF q = p THEN Idle
                       ELSE IF Does(q, "unreact") /\ req[q].row = row /\ req[p].there
                            THEN [req[q] EXCEPT !.there = FALSE]
                            ELSE req[q]]
    /\ UNCHANGED <<conv, rows, message, history>>

MessageStep(p) ==
    \/ AskSend(p) \/ AskEdit(p) \/ AskUnsend(p) \/ AskReact(p) \/ AskUnreact(p)
    \/ Send(p) \/ Edit(p) \/ Unsend(p) \/ React(p) \/ Unreact(p)

ChatNext ==
    \E p \in Requests : (MembersStep(p) /\ UNCHANGED messageVars) \/ MessageStep(p)

ChatSpec == ChatInit /\ [][ChatNext]_chatVars

-----------------------------------------------------------------------------
ChatTypes ==
    /\ conv \in Conversation /\ rows \in Seq(Row) /\ Len(rows) <= MaxRows
    /\ history \subseteq 1..MaxEdits /\ reactions \subseteq Users \X Emojis
    /\ counts \in [Emojis -> 0..Cardinality(Users)]

ChatIsCounted == ChatTypes /\ MembersAreCounted

(* However many edits and reactions are under way, a message has one row   *)
(* of history for each edit and no more than it may have, and counts of    *)
(* reactions that two removals of one row take below the rows and nothing  *)
(* takes above them.                                                       *)
MessageIsCounted ==
    /\ history = 1..message.edits /\ message.edits <= MaxEdits
    /\ \A e \in Emojis : counts[e] <= Cardinality({r \in reactions : r[2] = e})

(* A deleted message is not edited, and its history does not grow.         *)
DeletedIsNotEdited ==
    [][message.is = "deleted" => message'.edits = message.edits]_chatVars
=============================================================================
