-------------------------- MODULE Messaging_proofs --------------------------
(***************************************************************************)
(* Theorems about ChatMembers and ChatMessages, for any number of users,   *)
(* requests, rows, edits and reactions, and about NotificationDelivery,    *)
(* for any callers, channels and retries.                                  *)
(***************************************************************************)
EXTENDS ChatMessages, NotificationDelivery, SequenceTheorems, FiniteSetTheorems, TLAPS

(* What a request holds, when there are n rows.                            *)
IsRequest(r, n) ==
    /\ r.op = "add" => r.user \in Users /\ r.role \in Roles
    /\ r.op \in {"remove", "heir", "leave", "change", "transfer"} => r.row \in 1..n
    /\ r.op = "change" => r.role \in Roles
    /\ r.op = "transfer" => r.to \in 1..n
    /\ r.op = "send" => r.user \in Users
    /\ r.op \in {"react", "unreact"} => r.row \in Users \X Emojis
    /\ r.op = "unreact" =>
          r \in [op : {"unreact"}, row : Users \X Emojis, there : BOOLEAN]

(* Only a group is added to and deleted.                                   *)
IsRequestNow(r) ==
    /\ IsRequest(r, Len(rows))
    /\ r.op \in {"add", "delete"} => conv.kind = "group"

Requesting ==
    /\ req = [q \in Requests |-> req[q]]
    /\ \A q \in Requests : IsRequestNow(req[q])

RowsAreTyped == rows \in Seq(Row) /\ Len(rows) <= MaxRows

OneRowEach == \A i, j \in Active : rows[i].user = rows[j].user => i = j

(* A direct conversation that is not made has nobody and cannot be over;   *)
(* one that is over has nobody.                                            *)
ConversationIsSound ==
    /\ conv \in Conversation
    /\ ~conv.made => rows = << >> /\ conv.kind = "direct" /\ ~conv.deleted
    /\ conv.kind = "direct" /\ conv.deleted => Active = {}

MessageRow ==
    [is : {"none"}, edits : {0}]
    \cup [is : {"deleted"}, edits : Nat]
    \cup [is : {"sent", "deleted"}, edits : Nat, by : Users]

RowsOf(e) == {r \in reactions : r[2] = e}

MessageIsSound ==
    /\ message \in MessageRow
    /\ reactions \subseteq Users \X Emojis
    /\ counts \in [Emojis -> Nat]
    /\ MessageIsCounted

MembersInv ==
    /\ RowsAreTyped
    /\ ConversationIsSound
    /\ OneRowEach
    /\ conv.count <= Cardinality(Active)
    /\ Requesting

IInv == MembersInv /\ MessageIsSound

-----------------------------------------------------------------------------
(* Sequences of rows, and the sets of the active ones.                     *)

LEMMA RowsDomain ==
    ASSUME RowsAreTyped
    PROVE  /\ Len(rows) \in Nat
           /\ DOMAIN rows = 1..Len(rows)
           /\ rows \in [1..Len(rows) -> Row]
           /\ Active \subseteq 1..Len(rows)
BY LenProperties DEF RowsAreTyped, Active

LEMMA FunctionIsRows ==
    ASSUME NEW n \in Nat, NEW f \in [1..n -> Row]
    PROVE  f \in Seq(Row) /\ Len(f) = n /\ DOMAIN f = 1..n
<1>1. f \in Seq(Row)
    BY SeqDef
<1> QED BY <1>1, LenProperties

LEMMA FirstNumbers ==
    ASSUME NEW n \in Nat
    PROVE  IsFiniteSet(1..n) /\ Cardinality(1..n) = n
<1>1. Cardinality(1..n) = IF 1 > n THEN 0 ELSE n - 1 + 1
    BY FS_Interval
<1> QED BY <1>1, FS_Interval

LEMMA ActiveRowsAreFinite ==
    ASSUME NEW s \in Seq(Row)
    PROVE  LET active == {i \in DOMAIN s : s[i].is = "active"} IN
           /\ IsFiniteSet(active)
           /\ Cardinality(active) \in Nat
           /\ Cardinality(active) <= Len(s)
<1> DEFINE active == {i \in DOMAIN s : s[i].is = "active"}
<1>1. Len(s) \in Nat /\ active \in SUBSET (1..Len(s))
    BY LenProperties
<1>2. IsFiniteSet(1..Len(s)) /\ Cardinality(1..Len(s)) = Len(s)
    BY <1>1, FirstNumbers
<1> QED BY <1>1, <1>2, FS_Subset, FS_CardinalityType

LEMMA ActiveIsFinite ==
    /\ RowsAreTyped => /\ IsFiniteSet(Active)
                       /\ Cardinality(Active) \in Nat
                       /\ Cardinality(Active) <= Len(rows)
    /\ RowsAreTyped' => /\ IsFiniteSet(Active')
                        /\ Cardinality(Active') \in Nat
                        /\ Cardinality(Active') <= Len(rows')
BY ActiveRowsAreFinite DEF RowsAreTyped, Active

(* Rows that keep their users, of which at most one stops being active.    *)
LEMMA AtMostOneLeaves ==
    ASSUME RowsAreTyped, OneRowEach,
           rows' \in [1..Len(rows) -> Row],
           \A j \in 1..Len(rows) : rows'[j].user = rows[j].user,
           NEW i,
           \A j \in 1..Len(rows) : rows'[j].is = "active" => rows[j].is = "active",
           \A j \in 1..Len(rows) : j # i /\ rows[j].is = "active" => rows'[j].is = "active"
    PROVE  /\ RowsAreTyped' /\ OneRowEach' /\ Len(rows') = Len(rows)
           /\ Active' \subseteq Active
           /\ Active \ {i} \subseteq Active'
           /\ Cardinality(Active') >= Cardinality(Active) - 1
<1>1. /\ Len(rows) \in Nat
      /\ DOMAIN rows = 1..Len(rows)
    BY RowsDomain
<1>2. rows' \in Seq(Row) /\ Len(rows') = Len(rows) /\ DOMAIN rows' = 1..Len(rows)
    BY <1>1, FunctionIsRows
<1>3. RowsAreTyped'
    BY <1>2 DEF RowsAreTyped
<1>4. Active' \subseteq Active /\ Active \ {i} \subseteq Active'
    BY <1>1, <1>2 DEF Active
<1>5. OneRowEach'
    <2> SUFFICES ASSUME NEW j \in Active', NEW k \in Active', rows'[j].user = rows'[k].user
                 PROVE  j = k
        BY DEF OneRowEach
    <2>1. j \in Active /\ k \in Active /\ j \in 1..Len(rows) /\ k \in 1..Len(rows)
        BY <1>1, <1>4 DEF Active
    <2> QED BY <2>1 DEF OneRowEach
<1>6. Cardinality(Active') >= Cardinality(Active) - 1
    <2>1. IsFiniteSet(Active) /\ Cardinality(Active) \in Nat
        BY ActiveIsFinite
    <2>2. IsFiniteSet(Active') /\ Cardinality(Active') \in Nat
        <3>1. Active' \in SUBSET Active
            BY <1>4
        <3> QED BY <2>1, <3>1, FS_Subset, FS_CardinalityType
    <2>3. /\ Cardinality(Active \ {i}) \in Nat
          /\ Cardinality(Active \ {i}) >= Cardinality(Active) - 1
        <3>1. /\ IsFiniteSet(Active \ {i})
              /\ Cardinality(Active \ {i}) =
                    IF i \in Active THEN Cardinality(Active) - 1 ELSE Cardinality(Active)
            BY <2>1, FS_RemoveElement
        <3>2. Cardinality(Active \ {i}) \in Nat
            BY <3>1, FS_CardinalityType
        <3> QED BY <2>1, <3>1, <3>2
    <2>4. Active \ {i} \in SUBSET Active'
        BY <1>4
    <2>5. Cardinality(Active \ {i}) <= Cardinality(Active')
        BY <2>2, <2>4, FS_Subset
    <2> QED BY <2>1, <2>2, <2>3, <2>5
<1> QED BY <1>2, <1>3, <1>4, <1>5, <1>6

(* Rows of which none starts or stops being active.                        *)
LEMMA NobodyMoves ==
    ASSUME RowsAreTyped, OneRowEach,
           rows' \in [1..Len(rows) -> Row],
           \A j \in 1..Len(rows) : rows'[j].user = rows[j].user /\ rows'[j].is = rows[j].is
    PROVE  /\ RowsAreTyped' /\ OneRowEach' /\ Len(rows') = Len(rows)
           /\ Active' = Active
<1>1. /\ Len(rows) \in Nat
      /\ DOMAIN rows = 1..Len(rows)
    BY RowsDomain
<1>2. rows' \in Seq(Row) /\ Len(rows') = Len(rows) /\ DOMAIN rows' = 1..Len(rows)
    BY <1>1, FunctionIsRows
<1>3. RowsAreTyped'
    BY <1>2 DEF RowsAreTyped
<1>4. Active' = Active
    BY <1>1, <1>2 DEF Active
<1>5. OneRowEach'
    <2> SUFFICES ASSUME NEW j \in Active', NEW k \in Active', rows'[j].user = rows'[k].user
                 PROVE  j = k
        BY DEF OneRowEach
    <2>1. j \in Active /\ k \in Active /\ j \in 1..Len(rows) /\ k \in 1..Len(rows)
        BY <1>1, <1>4 DEF Active
    <2> QED BY <2>1 DEF OneRowEach
<1> QED BY <1>2, <1>3, <1>4, <1>5

LEMMA MoreRows ==
    ASSUME NEW n \in Nat, NEW m \in Nat, n <= m, NEW r, IsRequest(r, n)
    PROVE  IsRequest(r, m)
BY DEF IsRequest

(* One request changes; the others stay what they were.                    *)
LEMMA OneRequestChanges ==
    ASSUME Requesting, RowsAreTyped, NEW p \in Requests, NEW r,
           req' = [req EXCEPT ![p] = r],
           Len(rows') \in Nat, Len(rows) <= Len(rows'), conv'.kind = conv.kind,
           IsRequest(r, Len(rows')),
           r.op \in {"add", "delete"} => conv.kind = "group"
    PROVE  Requesting'
<1>1. Len(rows) \in Nat
    BY RowsDomain
<1>2. /\ req' = [q \in Requests |-> req'[q]]
      /\ req'[p] = r
      /\ \A q \in Requests : q # p => req'[q] = req[q]
    BY DEF Requesting
<1>3. \A q \in Requests : IsRequest(req[q], Len(rows'))
    BY <1>1, MoreRows DEF Requesting, IsRequestNow
<1>4. ASSUME NEW q \in Requests PROVE IsRequestNow(req[q])'
    <2>1. CASE q = p
        BY <1>2, <2>1 DEF IsRequestNow
    <2>2. CASE q # p
        BY <1>2, <1>3, <2>2 DEF IsRequestNow, Requesting
    <2> QED BY <2>1, <2>2
<1> QED BY <1>2, <1>4 DEF Requesting

LEMMA EndsIsRequest ==
    ASSUME NEW n
    PROVE  IsRequest(Idle, n) /\ Idle.op \notin {"add", "delete"}
BY DEF IsRequest, Idle

(* A request that has saved what it had to.                                *)
LEMMA EndsKeeps ==
    ASSUME Requesting, RowsAreTyped, NEW p \in Requests, Ends(p),
           Len(rows') \in Nat, Len(rows) <= Len(rows'), conv'.kind = conv.kind
    PROVE  Requesting'
BY OneRequestChanges, EndsIsRequest DEF Ends

LEMMA AsksKeeps ==
    ASSUME MembersInv, NEW p \in Requests, NEW r, Asks(p, r),
           IsRequest(r, Len(rows)),
           r.op \in {"add", "delete"} => conv.kind = "group"
    PROVE  MembersInv'
<1>1. /\ conv' = conv /\ rows' = rows /\ Len(rows) \in Nat
      /\ req' = [req EXCEPT ![p] = r]
    BY RowsDomain DEF Asks, MembersInv
<1>2. Len(rows') = Len(rows) /\ conv'.kind = conv.kind
    BY <1>1
<1>3. Requesting'
    <2>1. IsRequest(r, Len(rows')) /\ Len(rows') \in Nat /\ Len(rows) <= Len(rows')
        BY <1>1, <1>2
    <2> QED BY <1>1, <1>2, <2>1, OneRequestChanges DEF MembersInv
<1>4. Active' = Active
    BY <1>1 DEF Active
<1>5. RowsAreTyped' /\ ConversationIsSound' /\ OneRowEach'
    BY <1>1, <1>4 DEF MembersInv, RowsAreTyped, ConversationIsSound, OneRowEach
<1> QED BY <1>1, <1>3, <1>4, <1>5 DEF MembersInv

-----------------------------------------------------------------------------
(* The requests of members ask for what they may.                          *)
LEMMA AskingKeeps ==
    ASSUME MembersInv, NEW p \in Requests,
           \/ AskDirect(p) \/ AskAdd(p) \/ AskRemove(p) \/ AskLeave(p)
           \/ AskChange(p) \/ AskTransfer(p) \/ AskDelete(p)
    PROVE  MembersInv'
<1>1. Active \subseteq 1..Len(rows)
    BY RowsDomain DEF MembersInv
<1>2. CASE AskDirect(p)
    BY <1>2, AsksKeeps DEF AskDirect, IsRequest
<1>3. CASE AskAdd(p)
    <2>1. PICK u \in Users, role \in GivenRoles :
             Asks(p, [op |-> "add", user |-> u, role |-> role])
        BY <1>3 DEF AskAdd
    <2>2. IsRequest([op |-> "add", user |-> u, role |-> role], Len(rows))
        BY DEF IsRequest, GivenRoles, Roles
    <2> QED BY <1>3, <2>1, <2>2, AsksKeeps DEF AskAdd, Group
<1>4. CASE AskRemove(p)
    <2>1. PICK i \in Active : Asks(p, [op |-> "remove", row |-> i])
        BY <1>4 DEF AskRemove
    <2>2. IsRequest([op |-> "remove", row |-> i], Len(rows))
        BY <1>1 DEF IsRequest
    <2> QED BY <2>1, <2>2, AsksKeeps
<1>5. CASE AskLeave(p)
    <2>1. PICK i \in Active :
             \/ Asks(p, [op |-> "heir", row |-> i])
             \/ Asks(p, [op |-> "leave", row |-> i, heir |-> 0])
        BY <1>5 DEF AskLeave
    <2>2. /\ IsRequest([op |-> "heir", row |-> i], Len(rows))
          /\ IsRequest([op |-> "leave", row |-> i, heir |-> 0], Len(rows))
        BY <1>1 DEF IsRequest
    <2> QED BY <2>1, <2>2, AsksKeeps
<1>6. CASE AskChange(p)
    <2>1. PICK i \in Active, role \in GivenRoles :
             Asks(p, [op |-> "change", row |-> i, role |-> role])
        BY <1>6 DEF AskChange
    <2>2. IsRequest([op |-> "change", row |-> i, role |-> role], Len(rows))
        BY <1>1 DEF IsRequest, GivenRoles, Roles
    <2> QED BY <2>1, <2>2, AsksKeeps
<1>7. CASE AskTransfer(p)
    <2>1. PICK from \in Active, to \in Active :
             Asks(p, [op |-> "transfer", row |-> from, to |-> to])
        BY <1>7 DEF AskTransfer
    <2>2. IsRequest([op |-> "transfer", row |-> from, to |-> to], Len(rows))
        BY <1>1 DEF IsRequest
    <2> QED BY <2>1, <2>2, AsksKeeps
<1>8. CASE AskDelete(p)
    <2>1. IsRequest([op |-> "delete"], Len(rows))
        BY DEF IsRequest
    <2> QED BY <1>8, <2>1, AsksKeeps DEF AskDelete, Group
<1> QED BY <1>2, <1>3, <1>4, <1>5, <1>6, <1>7, <1>8

-----------------------------------------------------------------------------
(* What members' requests save.                                            *)

LEMMA NewRowIsRow ==
    ASSUME NEW u \in Users, NEW role \in Roles
    PROVE  /\ Joins(u, role) \in Row
           /\ Joins(u, role).user = u /\ Joins(u, role).is = "active"
BY DEF Joins, Row

LEMMA MakeDirectKeeps ==
    ASSUME MembersInv, NEW p \in Requests, MakeDirect(p)
    PROVE  MembersInv'
<1>1. PICK u \in Users, v \in Users :
         u # v /\ rows' = <<Joins(u, "NONE"), Joins(v, "NONE")>>
    BY DEF MakeDirect
<1>2. /\ Joins(u, "NONE") \in Row /\ Joins(v, "NONE") \in Row
      /\ Joins(u, "NONE").user = u /\ Joins(u, "NONE").is = "active"
      /\ Joins(v, "NONE").user = v /\ Joins(v, "NONE").is = "active"
    BY NewRowIsRow DEF Roles
<1>3. /\ rows' \in Seq(Row) /\ Len(rows') = 2 /\ DOMAIN rows' = 1..2
      /\ rows'[1] = Joins(u, "NONE") /\ rows'[2] = Joins(v, "NONE")
    BY <1>1, <1>2
<1>4. RowsAreTyped'
    BY <1>3, ChatAssumption DEF RowsAreTyped
<1>5. Active' = 1..2 /\ Cardinality(Active') = 2
    <2>1. Active' = 1..2
        BY <1>2, <1>3 DEF Active
    <2>2. Cardinality(1..2) = 2
        BY FirstNumbers
    <2> QED BY <2>1, <2>2
<1>6. OneRowEach'
    BY <1>1, <1>2, <1>3, <1>5 DEF OneRowEach
<1>7. ConversationIsSound' /\ conv'.count <= Cardinality(Active') /\ conv'.kind = conv.kind
    <2>1. conv \in Conversation /\ 2 \in 0..MaxRows /\ ~conv.deleted
        BY ChatAssumption DEF MakeDirect, PairIsNew, ConversationIsSound, MembersInv
    <2>2. /\ conv' \in Conversation /\ conv'.made /\ conv'.count = 2
          /\ ~conv'.deleted /\ conv'.kind = conv.kind
        BY <2>1 DEF MakeDirect, Conversation
    <2> QED BY <1>5, <2>2 DEF ConversationIsSound
<1>8. Requesting'
    <2>1. Len(rows) = 0
        BY DEF MakeDirect, PairIsNew, MembersInv, ConversationIsSound
    <2> QED BY <1>3, <1>7, <2>1, EndsKeeps DEF MakeDirect, MembersInv
<1> QED BY <1>4, <1>6, <1>7, <1>8 DEF MembersInv

LEMMA AddKeeps ==
    ASSUME MembersInv, NEW p \in Requests, Add(p)
    PROVE  MembersInv' /\ Active \subseteq Active'
<1> DEFINE new == Joins(req[p].user, req[p].role)
<1>1. /\ req[p].user \in Users /\ req[p].role \in Roles /\ conv.kind = "group"
      /\ Len(rows) \in Nat /\ DOMAIN rows = 1..Len(rows)
    BY RowsDomain DEF Add, Does, MembersInv, Requesting, IsRequestNow, IsRequest
<1>2. new \in Row /\ new.user = req[p].user /\ new.is = "active"
    BY <1>1, NewRowIsRow
<1> HIDE DEF new
<1>3. /\ rows' \in Seq(Row) /\ Len(rows') = Len(rows) + 1
      /\ DOMAIN rows' = 1..(Len(rows) + 1)
      /\ \A j \in 1..Len(rows) : rows'[j] = rows[j]
      /\ rows'[Len(rows) + 1] = new
    <2>1. rows' = Append(rows, new) /\ rows \in Seq(Row)
        BY DEF Add, new, MembersInv, RowsAreTyped
    <2>2. rows' \in Seq(Row) /\ Len(rows') = Len(rows) + 1
        BY <1>2, <2>1, AppendProperties
    <2> QED BY <1>1, <1>2, <2>1, <2>2, AppendProperties, LenProperties
<1>4. RowsAreTyped'
    BY <1>1, <1>3, ChatAssumption DEF RowsAreTyped, Add, MembersInv
<1>5. Active' = Active \cup {Len(rows) + 1} /\ Len(rows) + 1 \notin Active
    BY <1>1, <1>2, <1>3 DEF Active
<1>6. Cardinality(Active') = Cardinality(Active) + 1 /\ Cardinality(Active) \in Nat
    <2>1. IsFiniteSet(Active) /\ Cardinality(Active) \in Nat /\ IsFiniteSet(Active)
        BY ActiveIsFinite DEF MembersInv
    <2> QED BY <1>5, <2>1, FS_AddElement
<1>7. OneRowEach'
    <2>1. \A j \in Active : rows'[j] = rows[j] /\ rows[j].user # new.user
        BY <1>1, <1>2, <1>3 DEF Add, RowIsNew, IsActive, Active
    <2> SUFFICES ASSUME NEW j \in Active', NEW k \in Active', rows'[j].user = rows'[k].user
                 PROVE  j = k
        BY DEF OneRowEach
    <2>2. CASE j \in Active /\ k \in Active
        BY <2>1, <2>2 DEF MembersInv, OneRowEach
    <2>3. CASE ~(j \in Active /\ k \in Active)
        BY <1>3, <1>5, <2>1, <2>3
    <2> QED BY <2>2, <2>3
<1>8. conv' \in Conversation /\ conv'.count <= Cardinality(Active') /\ conv'.kind = conv.kind
    <2>1. conv.count + 1 <= Cardinality(Active')
        BY <1>6 DEF MembersInv, ConversationIsSound, Conversation
    <2>2. Cardinality(Active') <= MaxRows
        <3>1. Cardinality(Active') <= Len(rows')
            BY <1>4, ActiveIsFinite
        <3> QED BY <1>1, <1>3, <1>4, <1>6, <3>1, ChatAssumption DEF RowsAreTyped
    <2>3. conv.count + 1 \in 0..MaxRows
        BY <1>6, <2>1, <2>2, ChatAssumption DEF MembersInv, ConversationIsSound, Conversation
    <2> QED BY <2>1, <2>3 DEF Add, MembersInv, ConversationIsSound, Conversation
<1>9. ConversationIsSound'
    BY <1>1, <1>8 DEF ConversationIsSound, Add, MembersInv
<1>10. Requesting'
    BY <1>1, <1>3, <1>8, EndsKeeps DEF Add, MembersInv
<1> QED BY <1>4, <1>5, <1>7, <1>8, <1>9, <1>10 DEF MembersInv

(* A departure counts one off, whether or not somebody leaves by it.       *)
LEMMA OneFewerKeeps ==
    ASSUME MembersInv, conv.count > 0,
           RowsAreTyped', Cardinality(Active') >= Cardinality(Active) - 1
    PROVE  OneFewer \in 0..MaxRows /\ OneFewer <= Cardinality(Active')
<1>1. Cardinality(Active) \in Nat /\ Cardinality(Active') \in Nat
    BY ActiveIsFinite DEF MembersInv
<1> QED BY <1>1, ChatAssumption DEF OneFewer, MembersInv, ConversationIsSound, Conversation

LEMMA RemoveKeeps ==
    ASSUME MembersInv, NEW p \in Requests, Remove(p)
    PROVE  /\ MembersInv'
           /\ Active \ {req[p].row} \subseteq Active'
           /\ rows'[req[p].row].is = "removed"
<1> DEFINE i == req[p].row
<1>1. i \in 1..Len(rows) /\ rows \in [1..Len(rows) -> Row] /\ Len(rows) \in Nat
    BY RowsDomain DEF Remove, Does, MembersInv, Requesting, IsRequestNow, IsRequest
<1> HIDE DEF i
<1>2. /\ rows' \in [1..Len(rows) -> Row]
      /\ rows'[i] = [rows[i] EXCEPT !.is = "removed"]
      /\ \A j \in 1..Len(rows) : j # i => rows'[j] = rows[j]
    <2>1. rows' = [rows EXCEPT ![i] = [rows[i] EXCEPT !.is = "removed"]]
        BY <1>1 DEF Remove, i
    <2>2. [rows[i] EXCEPT !.is = "removed"] \in Row
        BY <1>1 DEF Row
    <2> QED BY <1>1, <2>1, <2>2
<1>3. rows'[i].user = rows[i].user /\ rows'[i].is = "removed"
    BY <1>1, <1>2 DEF Row
<1>4. /\ RowsAreTyped' /\ OneRowEach' /\ Len(rows') = Len(rows)
      /\ Active' \subseteq Active /\ Active \ {i} \subseteq Active'
      /\ Cardinality(Active') >= Cardinality(Active) - 1
    <2>1. \A j \in 1..Len(rows) :
             /\ rows'[j].user = rows[j].user
             /\ rows'[j].is = "active" => rows[j].is = "active"
             /\ j # i /\ rows[j].is = "active" => rows'[j].is = "active"
        BY <1>2, <1>3
    <2> QED BY <1>2, <2>1, AtMostOneLeaves DEF MembersInv
<1>5. OneFewer \in 0..MaxRows /\ OneFewer <= Cardinality(Active')
    BY <1>4, OneFewerKeeps DEF Remove
<1>6. /\ conv' \in Conversation /\ conv'.count = OneFewer
      /\ conv'.kind = conv.kind /\ conv'.made = conv.made /\ conv'.deleted = conv.deleted
    BY <1>5 DEF Remove, MembersInv, ConversationIsSound, Conversation
<1>7. ConversationIsSound'
    <2>1. conv.made
        BY <1>1 DEF MembersInv, ConversationIsSound
    <2> QED BY <1>4, <1>6, <2>1 DEF ConversationIsSound, MembersInv
<1>8. Requesting'
    BY <1>1, <1>4, <1>6, EndsKeeps DEF Remove, MembersInv
<1> QED BY <1>3, <1>4, <1>5, <1>6, <1>7, <1>8 DEF MembersInv, i

LEMMA PickHeirKeeps ==
    ASSUME MembersInv, NEW p \in Requests, PickHeir(p)
    PROVE  MembersInv'
<1> DEFINE r == [op |-> "leave", row |-> req[p].row, heir |-> Heir(req[p].row)]
<1>1. req[p].row \in 1..Len(rows) /\ Len(rows) \in Nat
    BY RowsDomain DEF PickHeir, Does, MembersInv, Requesting, IsRequestNow, IsRequest
<1>2. IsRequest(r, Len(rows)) /\ r.op = "leave"
    BY <1>1 DEF IsRequest
<1>3. conv' = conv /\ rows' = rows /\ req' = [req EXCEPT ![p] = r]
    BY DEF PickHeir
<1> HIDE DEF r
<1>4. Requesting'
    <2>1. /\ IsRequest(r, Len(rows')) /\ Len(rows') \in Nat
          /\ Len(rows) <= Len(rows') /\ conv'.kind = conv.kind
        BY <1>1, <1>2, <1>3
    <2> QED BY <1>2, <1>3, <2>1, OneRequestChanges DEF MembersInv
<1>5. Active' = Active
    BY <1>3 DEF Active
<1>6. RowsAreTyped' /\ ConversationIsSound' /\ OneRowEach'
    BY <1>3, <1>5 DEF MembersInv, RowsAreTyped, ConversationIsSound, OneRowEach
<1> QED BY <1>3, <1>4, <1>5, <1>6 DEF MembersInv

(* The rows after a departure, with the heir's role.                       *)
Departed(i, heir) ==
    [j \in DOMAIN rows |->
       IF j = i THEN [rows[j] EXCEPT !.is = "left"]
       ELSE IF j = heir THEN [rows[j] EXCEPT !.role = "OWNER"]
       ELSE rows[j]]

LEMMA DepartedRows ==
    ASSUME RowsAreTyped, NEW i \in 1..Len(rows), NEW heir
    PROVE  /\ Departed(i, heir) \in [1..Len(rows) -> Row]
           /\ Departed(i, heir)[i].is = "left"
           /\ \A j \in 1..Len(rows) :
                 /\ Departed(i, heir)[j].user = rows[j].user
                 /\ j # i => Departed(i, heir)[j].is = rows[j].is
<1>1. DOMAIN rows = 1..Len(rows) /\ rows \in [1..Len(rows) -> Row]
    BY RowsDomain
<1>2. ASSUME NEW j \in 1..Len(rows)
      PROVE  /\ Departed(i, heir)[j] \in Row
             /\ Departed(i, heir)[j].user = rows[j].user
             /\ j # i => Departed(i, heir)[j].is = rows[j].is
             /\ j = i => Departed(i, heir)[j].is = "left"
    <2>1. rows[j] \in Row
        BY <1>1
    <2>2. CASE j = i
        <3>1. Departed(i, heir)[j] = [rows[j] EXCEPT !.is = "left"]
            BY <1>1, <2>2 DEF Departed
        <3> QED BY <2>1, <2>2, <3>1 DEF Row
    <2>3. CASE j # i /\ j = heir
        <3>1. Departed(i, heir)[j] = [rows[j] EXCEPT !.role = "OWNER"]
            BY <1>1, <2>3 DEF Departed
        <3> QED BY <2>1, <2>3, <3>1 DEF Row, Roles
    <2>4. CASE j # i /\ j # heir
        <3>1. Departed(i, heir)[j] = rows[j]
            BY <1>1, <2>4 DEF Departed
        <3> QED BY <2>1, <2>4, <3>1
    <2> QED BY <2>2, <2>3, <2>4
<1>3. Departed(i, heir) = [j \in 1..Len(rows) |-> Departed(i, heir)[j]]
    BY <1>1 DEF Departed
<1> QED BY <1>2, <1>3

LEMMA LeaveKeeps ==
    ASSUME MembersInv, NEW p \in Requests, Leave(p)
    PROVE  /\ MembersInv'
           /\ Active' \subseteq Active
           /\ Active # {} /\ Active' = {} => conv'.deleted
<1> DEFINE i == req[p].row
           heir == req[p].heir
<1>1. i \in 1..Len(rows) /\ Len(rows) \in Nat /\ DOMAIN rows = 1..Len(rows)
    BY RowsDomain DEF Leave, Does, MembersInv, Requesting, IsRequestNow, IsRequest
<1>2. /\ rows' = Departed(i, heir) /\ conv.count > 0 /\ Ends(p)
      /\ conv' = [conv EXCEPT !.count = OneFewer, !.deleted = @ \/ NobodyLeft(rows')]
    BY DEF Leave, Departed
<1> HIDE DEF i, heir
<1>3. /\ rows' \in [1..Len(rows) -> Row]
      /\ rows'[i].is = "left"
      /\ \A j \in 1..Len(rows) :
            rows'[j].user = rows[j].user /\ (j # i => rows'[j].is = rows[j].is)
    BY <1>1, <1>2, DepartedRows DEF MembersInv
<1>4. /\ RowsAreTyped' /\ OneRowEach' /\ Len(rows') = Len(rows)
      /\ Active' \subseteq Active /\ Active \ {i} \subseteq Active'
      /\ Cardinality(Active') >= Cardinality(Active) - 1
    <2>1. \A j \in 1..Len(rows) :
             /\ rows'[j].user = rows[j].user
             /\ rows'[j].is = "active" => rows[j].is = "active"
             /\ j # i /\ rows[j].is = "active" => rows'[j].is = "active"
        BY <1>3
    <2> QED BY <1>3, <2>1, AtMostOneLeaves DEF MembersInv
<1>5. OneFewer \in 0..MaxRows /\ OneFewer <= Cardinality(Active')
    BY <1>2, <1>4, OneFewerKeeps
<1>6. (conv.deleted \/ NobodyLeft(rows')) \in BOOLEAN
    BY Zenon DEF MembersInv, ConversationIsSound, Conversation
<1>7. /\ conv' \in Conversation /\ conv'.count = OneFewer
      /\ conv'.kind = conv.kind /\ conv'.made = conv.made
      /\ conv'.deleted = (conv.deleted \/ NobodyLeft(rows'))
    <2> DEFINE closed == conv.deleted \/ NobodyLeft(rows')
    <2>1. conv' = [conv EXCEPT !.count = OneFewer, !.deleted = closed]
        BY <1>2
    <2>2. closed \in BOOLEAN
        BY <1>6
    <2> HIDE DEF closed
    <2>3. /\ conv' \in Conversation /\ conv'.count = OneFewer
          /\ conv'.kind = conv.kind /\ conv'.made = conv.made
          /\ conv'.deleted = closed
        BY <1>5, <2>1, <2>2 DEF MembersInv, ConversationIsSound, Conversation
    <2> QED BY <2>3 DEF closed
<1>8. conv.made
    BY <1>1 DEF MembersInv, ConversationIsSound
<1>9. DOMAIN rows' = DOMAIN rows
    BY <1>1, <1>3
<1>10. conv.kind = "direct" => (NobodyLeft(rows') <=> Active' = {})
    BY <1>9 DEF NobodyLeft, Active
<1>11. ConversationIsSound'
    BY <1>4, <1>7, <1>8, <1>10 DEF ConversationIsSound, MembersInv
<1>12. Requesting'
    BY <1>1, <1>2, <1>4, <1>7, EndsKeeps DEF MembersInv
<1>13. ASSUME Active # {}, Active' = {} PROVE conv'.deleted
    <2>1. CASE conv.kind = "direct"
        BY <1>7, <1>10, <1>13, <2>1
    <2>2. CASE conv.kind # "direct"
        <3>1. Cardinality(Active') = 0
            BY <1>13, FS_EmptySet
        <3>2. OneFewer <= 0
            BY <1>5, <3>1
        <3> QED BY <1>7, <2>2, <3>2 DEF NobodyLeft
    <2> QED BY <2>1, <2>2
<1> QED BY <1>4, <1>5, <1>7, <1>11, <1>12, <1>13 DEF MembersInv

(* Steps that change roles only.                                           *)
LEMMA RolesKeep ==
    ASSUME MembersInv, NEW p \in Requests, Ends(p), UNCHANGED conv,
           rows' \in [1..Len(rows) -> Row],
           \A j \in 1..Len(rows) :
              rows'[j].user = rows[j].user /\ rows'[j].is = rows[j].is
    PROVE  MembersInv' /\ Active' = Active
<1>1. RowsAreTyped' /\ OneRowEach' /\ Len(rows') = Len(rows) /\ Active' = Active
    BY NobodyMoves DEF MembersInv
<1>2. Len(rows) \in Nat
    BY RowsDomain DEF MembersInv
<1>3. ConversationIsSound'
    <2>1. rows = << >> => rows' = << >>
        BY <1>1, EmptySeq DEF RowsAreTyped
    <2> QED BY <1>1, <2>1 DEF MembersInv, ConversationIsSound
<1>4. Requesting'
    BY <1>1, <1>2, EndsKeeps DEF MembersInv
<1> QED BY <1>1, <1>3, <1>4 DEF MembersInv

LEMMA GivesRole ==
    ASSUME NEW row \in Row, NEW role \in Roles
    PROVE  /\ [row EXCEPT !.role = role] \in Row
           /\ [row EXCEPT !.role = role].user = row.user
           /\ [row EXCEPT !.role = role].is = row.is
BY DEF Row

LEMMA ChangeKeeps ==
    ASSUME MembersInv, NEW p \in Requests, Change(p)
    PROVE  MembersInv' /\ Active' = Active
<1> DEFINE i == req[p].row
           new == [rows[i] EXCEPT !.role = req[p].role]
<1>1. i \in 1..Len(rows) /\ req[p].role \in Roles /\ rows \in [1..Len(rows) -> Row]
    BY RowsDomain DEF Change, Does, MembersInv, Requesting, IsRequestNow, IsRequest
<1>2. new \in Row /\ new.user = rows[i].user /\ new.is = rows[i].is
    BY <1>1, GivesRole
<1>3. rows' = [rows EXCEPT ![i] = new]
    BY <1>1 DEF Change
<1> HIDE DEF i, new
<1> QED BY <1>1, <1>2, <1>3, RolesKeep DEF Change

LEMMA TransferKeeps ==
    ASSUME MembersInv, NEW p \in Requests, Transfer(p)
    PROVE  MembersInv' /\ Active' = Active
<1> DEFINE i == req[p].row
           k == req[p].to
<1>1. i \in 1..Len(rows) /\ k \in 1..Len(rows) /\ rows \in [1..Len(rows) -> Row]
    BY RowsDomain DEF Transfer, Does, MembersInv, Requesting, IsRequestNow, IsRequest
<1>2. rows' = [rows EXCEPT ![i].role = "ADMIN", ![k].role = "OWNER"]
    BY DEF Transfer
<1> HIDE DEF i, k
<1>3. "ADMIN" \in Roles /\ "OWNER" \in Roles
    BY DEF Roles
<1> DEFINE first == [rows[i] EXCEPT !.role = "ADMIN"]
           once == [rows EXCEPT ![i] = first]
           second == [once[k] EXCEPT !.role = "OWNER"]
<1>4. /\ once \in [1..Len(rows) -> Row]
      /\ \A j \in 1..Len(rows) : once[j].user = rows[j].user /\ once[j].is = rows[j].is
    <2>1. first \in Row /\ first.user = rows[i].user /\ first.is = rows[i].is
        BY <1>1, <1>3, GivesRole
    <2> HIDE DEF first
    <2> QED BY <1>1, <2>1
<1>5. /\ rows' \in [1..Len(rows) -> Row]
      /\ \A j \in 1..Len(rows) : rows'[j].user = once[j].user /\ rows'[j].is = once[j].is
    <2>1. rows' = [once EXCEPT ![k] = second]
        BY <1>1, <1>2, <1>4
    <2> HIDE DEF once
    <2>2. second \in Row /\ second.user = once[k].user /\ second.is = once[k].is
        BY <1>1, <1>3, <1>4, GivesRole
    <2> HIDE DEF second
    <2> QED BY <1>1, <1>4, <2>1, <2>2
<1> QED BY <1>4, <1>5, RolesKeep DEF Transfer

LEMMA DeleteKeeps ==
    ASSUME MembersInv, NEW p \in Requests, Delete(p)
    PROVE  MembersInv' /\ Active' = Active /\ conv.kind = "group"
<1>1. conv.kind = "group" /\ Len(rows) \in Nat
    BY RowsDomain DEF Delete, Does, MembersInv, Requesting, IsRequestNow
<1>2. /\ rows' = rows /\ Ends(p)
      /\ conv' \in Conversation /\ conv'.kind = conv.kind /\ conv'.made = conv.made
      /\ conv'.count = conv.count
    BY DEF Delete, MembersInv, ConversationIsSound, Conversation
<1>3. Active' = Active
    BY <1>2 DEF Active
<1>4. RowsAreTyped' /\ OneRowEach'
    BY <1>2, <1>3 DEF MembersInv, RowsAreTyped, OneRowEach
<1>5. ConversationIsSound'
    BY <1>1, <1>2 DEF ConversationIsSound, MembersInv
<1>6. Requesting'
    BY <1>1, <1>2, EndsKeeps DEF MembersInv
<1> QED BY <1>1, <1>2, <1>3, <1>4, <1>5, <1>6 DEF MembersInv

LEMMA SavedKeeps ==
    ASSUME MembersInv, NEW p \in Requests, Saved(p)
    PROVE  MembersInv' /\ Active' = Active
<1>1. rows' = rows /\ conv' = conv /\ Ends(p) /\ rows \in [1..Len(rows) -> Row]
    BY RowsDomain DEF Saved, MembersInv
<1> QED BY <1>1, RolesKeep

LEMMA NothingMoves ==
    ASSUME MembersInv, UNCHANGED memberVars
    PROVE  MembersInv'
<1>1. conv' = conv /\ rows' = rows /\ req' = req
    BY DEF memberVars
<1>2. Active' = Active
    BY <1>1 DEF Active
<1>3. RowsAreTyped' /\ ConversationIsSound' /\ OneRowEach'
    BY <1>1, <1>2 DEF MembersInv, RowsAreTyped, ConversationIsSound, OneRowEach
<1>4. Requesting'
    BY <1>1 DEF MembersInv, Requesting, IsRequestNow
<1> QED BY <1>1, <1>2, <1>3, <1>4 DEF MembersInv

LEMMA MembersStepKeeps ==
    ASSUME MembersInv, NEW p \in Requests, MembersStep(p)
    PROVE  MembersInv'
<1>1. CASE Fail(p)
    BY <1>1, SavedKeeps DEF Fail, Saved
<1>2. CASE MakeDirect(p) \/ Add(p) \/ Remove(p) \/ PickHeir(p) \/ Leave(p)
    BY <1>2, MakeDirectKeeps, AddKeeps, RemoveKeeps, PickHeirKeeps, LeaveKeeps
<1>3. CASE Change(p) \/ Transfer(p) \/ Delete(p)
    BY <1>3, ChangeKeeps, TransferKeeps, DeleteKeeps
<1> QED BY <1>1, <1>2, <1>3, AskingKeeps DEF MembersStep

LEMMA MembersStart == MembersInit => MembersInv
<1> SUFFICES ASSUME MembersInit PROVE MembersInv
    OBVIOUS
<1>1. Requesting
    BY EndsIsRequest DEF MembersInit, Requesting, IsRequestNow
<1>2. CASE conv.kind = "group"
    <2>1. PICK n \in 1..MaxRows : \E members \in [1..n -> Users] :
             /\ Chosen(members)
             /\ rows = [i \in 1..n |-> Joins(members[i], IF i = 1 THEN "OWNER" ELSE "MEMBER")]
             /\ conv = [kind |-> "group", made |-> TRUE, count |-> n, deleted |-> FALSE]
        BY <1>2 DEF MembersInit
    <2>2. PICK members \in [1..n -> Users] :
             /\ Chosen(members)
             /\ rows = [i \in 1..n |-> Joins(members[i], IF i = 1 THEN "OWNER" ELSE "MEMBER")]
             /\ conv = [kind |-> "group", made |-> TRUE, count |-> n, deleted |-> FALSE]
        BY <2>1
    <2>3. n \in Nat /\ n <= MaxRows /\ n \in 0..MaxRows
        BY ChatAssumption
    <2>4. ASSUME NEW i \in 1..n
          PROVE  rows[i] \in Row /\ rows[i].user = members[i] /\ rows[i].is = "active"
        <3>1. members[i] \in Users /\ (IF i = 1 THEN "OWNER" ELSE "MEMBER") \in Roles
            BY <2>2 DEF Roles
        <3>2. rows[i] = Joins(members[i], IF i = 1 THEN "OWNER" ELSE "MEMBER")
            BY <2>2
        <3> QED BY <3>1, <3>2, NewRowIsRow
    <2>5. rows \in [1..n -> Row]
        BY <2>2, <2>4
    <2>6. rows \in Seq(Row) /\ Len(rows) = n /\ DOMAIN rows = 1..n
        BY <2>3, <2>5, FunctionIsRows
    <2>7. Active = 1..n /\ Cardinality(Active) = n
        BY <2>3, <2>4, <2>6, FirstNumbers DEF Active
    <2>8. OneRowEach
        BY <2>2, <2>4, <2>7 DEF OneRowEach, Chosen
    <2>9. RowsAreTyped /\ ConversationIsSound /\ conv.count <= Cardinality(Active)
        BY <2>2, <2>3, <2>6, <2>7 DEF RowsAreTyped, ConversationIsSound, Conversation
    <2> QED BY <1>1, <2>8, <2>9 DEF MembersInv
<1>3. CASE conv.kind # "group"
    <2>1. /\ rows = << >>
          /\ conv = [kind |-> "direct", made |-> FALSE, count |-> 0, deleted |-> FALSE]
        BY <1>3 DEF MembersInit
    <2>2. rows \in Seq(Row) /\ Len(rows) = 0
        BY <2>1, EmptySeq
    <2>3. Active = {} /\ Cardinality(Active) = 0
        BY <2>1, <2>2, LenProperties, FS_EmptySet DEF Active
    <2>4. RowsAreTyped /\ ConversationIsSound /\ OneRowEach /\ conv.count <= Cardinality(Active)
        BY <2>1, <2>2, <2>3, ChatAssumption
        DEF RowsAreTyped, ConversationIsSound, Conversation, OneRowEach
    <2> QED BY <1>1, <2>4 DEF MembersInv
<1> QED BY <1>2, <1>3

-----------------------------------------------------------------------------
(* The message and what is counted of it.                                  *)

LEMMA SaysKeeps ==
    ASSUME MessageIsSound, UNCHANGED messageVars
    PROVE  MessageIsSound'
BY DEF messageVars, MessageIsSound, MessageIsCounted

(* Nobody has more than one row of a kind.                                 *)
LEMMA FewRows ==
    ASSUME NEW set \in SUBSET (Users \X Emojis), NEW e \in Emojis
    PROVE  LET of == {r \in set : r[2] = e} IN
           /\ IsFiniteSet(of)
           /\ Cardinality(of) \in Nat
           /\ Cardinality(of) <= Cardinality(Users)
<1> DEFINE of == {r \in set : r[2] = e}
           f == [r \in of |-> r[1]]
<1>1. f \in Injection(of, Users)
    BY DEF Injection, IsInjective
<1>2. IsFiniteSet(Users)
    BY ChatAssumption
<1> QED BY <1>1, <1>2, FS_Injection, FS_CardinalityType

LEMMA MessageAskingKeeps ==
    ASSUME IInv, NEW p \in Requests,
           AskSend(p) \/ AskEdit(p) \/ AskUnsend(p) \/ AskReact(p) \/ AskUnreact(p)
    PROVE  IInv'
<1>1. PICK r : Says(p, r) /\ IsRequest(r, Len(rows)) /\ r.op \notin {"add", "delete"}
    <2>1. CASE AskSend(p)
        <3>1. PICK u \in Users : Says(p, [op |-> "send", user |-> u])
            BY <2>1 DEF AskSend
        <3> QED BY <3>1 DEF IsRequest
    <2>2. CASE AskEdit(p)
        BY <2>2 DEF AskEdit, IsRequest
    <2>3. CASE AskUnsend(p)
        BY <2>3 DEF AskUnsend, IsRequest
    <2>4. CASE AskReact(p)
        <3>1. PICK row \in Users \X Emojis : Says(p, [op |-> "react", row |-> row])
            BY <2>4 DEF AskReact
        <3> QED BY <3>1 DEF IsRequest
    <2>5. CASE AskUnreact(p)
        <3>1. PICK row \in reactions :
                 Says(p, [op |-> "unreact", row |-> row, there |-> TRUE])
            BY <2>5 DEF AskUnreact
        <3>2. row \in Users \X Emojis
            BY DEF IInv, MessageIsSound
        <3>3. IsRequest([op |-> "unreact", row |-> row, there |-> TRUE], Len(rows))
            BY <3>2 DEF IsRequest
        <3> QED BY <3>1, <3>3
    <2> QED BY <2>1, <2>2, <2>3, <2>4, <2>5
<1>2. Asks(p, r) /\ UNCHANGED messageVars
    BY <1>1 DEF Says
<1> QED BY <1>1, <1>2, AsksKeeps, SaysKeeps DEF IInv

LEMMA EditedMessage ==
    ASSUME message \in MessageRow
    PROVE  /\ message.edits \in Nat
           /\ message.is = "none" => message.edits = 0
           /\ message.is = "sent" => [message EXCEPT !.edits = @ + 1] \in MessageRow
           /\ [message EXCEPT !.edits = @ + 1].edits = message.edits + 1
           /\ [message EXCEPT !.is = "deleted"] \in MessageRow
           /\ [message EXCEPT !.is = "deleted"].edits = message.edits
BY DEF MessageRow

LEMMA SendKeeps ==
    ASSUME IInv, NEW p \in Requests, Send(p)
    PROVE  IInv' /\ message.is # "deleted"
<1>1. MembersInv' /\ Active' = Active
    BY SavedKeeps DEF Send, IInv
<1>2. req[p].user \in Users
    BY DEF Send, Does, IInv, MembersInv, Requesting, IsRequestNow, IsRequest
<1>3. message.is = "none" /\ message.edits = 0
    BY EditedMessage DEF Send, IInv, MessageIsSound
<1>4. /\ message' \in MessageRow /\ message'.edits = 0
      /\ UNCHANGED <<history, reactions, counts>>
    BY <1>2 DEF Send, MessageRow
<1>5. MessageIsSound'
    BY <1>3, <1>4 DEF IInv, MessageIsSound, MessageIsCounted
<1> QED BY <1>1, <1>3, <1>5 DEF IInv

LEMMA EditKeeps ==
    ASSUME IInv, NEW p \in Requests, Edit(p)
    PROVE  IInv' /\ message.is = "sent"
<1>1. MembersInv'
    BY SavedKeeps DEF Edit, IInv
<1>2. message.is = "sent" /\ message.edits \in Nat /\ message.edits + 1 <= MaxEdits
    BY EditedMessage, ChatAssumption DEF Edit, MayEdit, IInv, MessageIsSound
<1>3. /\ message' \in MessageRow /\ message'.edits = message.edits + 1
      /\ UNCHANGED <<reactions, counts>>
    BY <1>2, EditedMessage DEF Edit, IInv, MessageIsSound
<1>4. history' = 1..message'.edits
    <2>1. history' = (1..message.edits) \cup {message.edits + 1}
        BY DEF Edit, Recorded, IInv, MessageIsSound, MessageIsCounted
    <2> QED BY <1>2, <1>3, <2>1
<1>5. MessageIsSound'
    BY <1>2, <1>3, <1>4 DEF IInv, MessageIsSound, MessageIsCounted
<1> QED BY <1>1, <1>2, <1>5 DEF IInv

LEMMA UnsendKeeps ==
    ASSUME IInv, NEW p \in Requests, Unsend(p)
    PROVE  IInv' /\ message'.edits = message.edits
<1>1. MembersInv'
    BY SavedKeeps DEF Unsend, IInv
<1>2. /\ message' \in MessageRow /\ message'.edits = message.edits
      /\ UNCHANGED <<history, reactions, counts>>
    BY EditedMessage DEF Unsend, IInv, MessageIsSound
<1>3. MessageIsSound'
    BY <1>2 DEF IInv, MessageIsSound, MessageIsCounted
<1> QED BY <1>1, <1>2, <1>3 DEF IInv

LEMMA ReactKeeps ==
    ASSUME IInv, NEW p \in Requests, React(p)
    PROVE  IInv' /\ UNCHANGED message
<1> DEFINE row == req[p].row
<1>1. MembersInv'
    BY SavedKeeps DEF React, IInv
<1>2. row \in Users \X Emojis
    BY DEF React, Does, IInv, MembersInv, Requesting, IsRequestNow, IsRequest
<1>3. /\ reactions' = reactions \cup {row} /\ row \notin reactions
      /\ counts' = [counts EXCEPT ![row[2]] = @ + 1]
      /\ UNCHANGED <<message, history>>
    BY DEF React
<1> HIDE DEF row
<1>4. reactions' \subseteq Users \X Emojis /\ counts' \in [Emojis -> Nat]
    BY <1>2, <1>3 DEF IInv, MessageIsSound
<1>5. ASSUME NEW e \in Emojis
      PROVE  counts'[e] <= Cardinality({r \in reactions' : r[2] = e})
    <2> DEFINE old == {r \in reactions : r[2] = e}
               new == {r \in reactions' : r[2] = e}
    <2>1. /\ IsFiniteSet(old) /\ Cardinality(old) \in Nat
          /\ counts[e] \in Nat /\ counts[e] <= Cardinality(old)
        BY FewRows DEF IInv, MessageIsSound, MessageIsCounted
    <2>2. CASE e = row[2]
        <3>1. new = old \cup {row} /\ row \notin old
            BY <1>3, <2>2
        <3>2. Cardinality(new) = Cardinality(old) + 1
            BY <2>1, <3>1, FS_AddElement
        <3>3. counts'[e] = counts[e] + 1
            BY <1>3, <2>2 DEF IInv, MessageIsSound
        <3> QED BY <2>1, <3>2, <3>3
    <2>3. CASE e # row[2]
        <3>1. new = old /\ counts'[e] = counts[e]
            BY <1>3, <2>3 DEF IInv, MessageIsSound
        <3> QED BY <2>1, <3>1
    <2> QED BY <2>2, <2>3
<1>6. MessageIsSound'
    BY <1>3, <1>4, <1>5 DEF IInv, MessageIsSound, MessageIsCounted
<1> QED BY <1>1, <1>3, <1>6 DEF IInv

LEMMA UnreactRequests ==
    ASSUME MembersInv, NEW p \in Requests, Unreact(p)
    PROVE  MembersInv'
<1>1. conv' = conv /\ rows' = rows
    BY DEF Unreact
<1>2. ASSUME NEW r, IsRequest(r, Len(rows)), r.op = "unreact"
      PROVE  /\ IsRequest([r EXCEPT !.there = FALSE], Len(rows))
             /\ [r EXCEPT !.there = FALSE].op = "unreact"
    BY <1>2 DEF IsRequest
<1>3. ASSUME NEW q \in Requests
      PROVE  /\ IsRequest(req'[q], Len(rows))
             /\ req'[q].op \in {"add", "delete"} => conv.kind = "group"
    <2>1. \/ req'[q] = Idle
          \/ req[q].op = "unreact" /\ req'[q] = [req[q] EXCEPT !.there = FALSE]
          \/ req'[q] = req[q]
        BY DEF Unreact, Does
    <2>2. IsRequestNow(req[q])
        BY DEF MembersInv, Requesting
    <2> QED BY <1>2, <2>1, <2>2, EndsIsRequest DEF IsRequestNow
<1>4. Requesting'
    <2>1. req' = [q \in Requests |-> req'[q]]
        BY DEF Unreact
    <2> QED BY <1>1, <1>3, <2>1 DEF Requesting, IsRequestNow
<1>5. Active' = Active
    BY <1>1 DEF Active
<1>6. RowsAreTyped' /\ ConversationIsSound' /\ OneRowEach'
    BY <1>1, <1>5 DEF MembersInv, RowsAreTyped, ConversationIsSound, OneRowEach
<1> QED BY <1>1, <1>4, <1>5, <1>6 DEF MembersInv

LEMMA UnreactKeeps ==
    ASSUME IInv, NEW p \in Requests, Unreact(p)
    PROVE  IInv' /\ UNCHANGED message
<1> DEFINE row == req[p].row
<1>1. MembersInv'
    BY UnreactRequests DEF IInv
<1>2. row \in Users \X Emojis
    BY DEF Unreact, Does, IInv, MembersInv, Requesting, IsRequestNow, IsRequest
<1>3. /\ reactions' \in {reactions, reactions \ {row}}
      /\ counts' = [counts EXCEPT ![row[2]] = IF @ > 0 THEN @ - 1 ELSE 0]
      /\ UNCHANGED <<message, history>>
    BY DEF Unreact, CountedDown
<1> HIDE DEF row
<1>4. reactions' \subseteq Users \X Emojis /\ counts' \in [Emojis -> Nat]
    BY <1>2, <1>3 DEF IInv, MessageIsSound
<1>5. ASSUME NEW e \in Emojis
      PROVE  counts'[e] <= Cardinality({r \in reactions' : r[2] = e})
    <2> DEFINE old == {r \in reactions : r[2] = e}
               new == {r \in reactions' : r[2] = e}
    <2>1. /\ IsFiniteSet(old) /\ Cardinality(old) \in Nat
          /\ counts[e] \in Nat /\ counts[e] <= Cardinality(old)
        BY FewRows DEF IInv, MessageIsSound, MessageIsCounted
    <2>2. Cardinality(new) \in Nat
        BY <1>4, FewRows
    <2>3. CASE e = row[2]
        <3>1. new = old \/ new = old \ {row}
            BY <1>3, <2>3
        <3>2. /\ IsFiniteSet(old \ {row})
              /\ Cardinality(old \ {row}) = IF row \in old THEN Cardinality(old) - 1
                                                           ELSE Cardinality(old)
            BY <2>1, FS_RemoveElement
        <3>3. Cardinality(new) >= Cardinality(old) - 1
            <4>1. CASE new = old
                BY <2>1, <4>1
            <4>2. CASE new = old \ {row}
                <5>1. Cardinality(new) = Cardinality(old \ {row})
                    BY <4>2
                <5> HIDE DEF old, new
                <5> QED BY <2>1, <3>2, <5>1
            <4> QED BY <3>1, <4>1, <4>2
        <3>4. counts'[e] = IF counts[e] > 0 THEN counts[e] - 1 ELSE 0
            BY <1>3, <2>3 DEF IInv, MessageIsSound
        <3> QED BY <2>1, <2>2, <3>3, <3>4
    <2>4. CASE e # row[2]
        <3>1. new = old /\ counts'[e] = counts[e]
            BY <1>3, <2>4 DEF IInv, MessageIsSound
        <3> QED BY <2>1, <3>1
    <2> QED BY <2>3, <2>4
<1>6. MessageIsSound'
    BY <1>3, <1>4, <1>5 DEF IInv, MessageIsSound, MessageIsCounted
<1> QED BY <1>1, <1>3, <1>6 DEF IInv

-----------------------------------------------------------------------------
LEMMA Initially == ChatInit => IInv
<1> SUFFICES ASSUME ChatInit PROVE IInv
    OBVIOUS
<1>1. MembersInv
    BY MembersStart DEF ChatInit
<1>2. /\ message = NoMessage /\ history = {} /\ reactions = {}
      /\ counts = [e \in Emojis |-> 0]
    BY DEF ChatInit
<1>3. message \in MessageRow /\ message.edits = 0
    BY <1>2 DEF NoMessage, MessageRow
<1>4. \A e \in Emojis : Cardinality({r \in reactions : r[2] = e}) \in Nat
    BY <1>2, FewRows
<1>5. MessageIsSound
    BY <1>2, <1>3, <1>4, ChatAssumption DEF MessageIsSound, MessageIsCounted
<1> QED BY <1>1, <1>5 DEF IInv

LEMMA StepKeeps == IInv /\ [ChatNext]_chatVars => IInv'
<1> SUFFICES ASSUME IInv, [ChatNext]_chatVars PROVE IInv'
    OBVIOUS
<1>1. ASSUME NEW p \in Requests, MembersStep(p), UNCHANGED messageVars PROVE IInv'
    BY <1>1, MembersStepKeeps, SaysKeeps DEF IInv
<1>2. ASSUME NEW p \in Requests, MessageStep(p) PROVE IInv'
    BY <1>2, MessageAskingKeeps, SendKeeps, EditKeeps, UnsendKeeps, ReactKeeps, UnreactKeeps
    DEF MessageStep
<1>3. CASE UNCHANGED chatVars
    BY <1>3, NothingMoves, SaysKeeps DEF IInv, chatVars
<1> QED BY <1>1, <1>2, <1>3 DEF ChatNext

THEOREM Invariance == ChatSpec => []IInv
BY Initially, StepKeeps, PTL DEF ChatSpec

-----------------------------------------------------------------------------
(* The members of a conversation: nobody is in it twice, and               *)
(* participant_count is never above the number of those who are.           *)
THEOREM MembersCounted == ChatSpec => []ChatIsCounted
<1>1. IInv => ChatIsCounted
    <2> SUFFICES ASSUME IInv PROVE ChatIsCounted
        OBVIOUS
    <2>1. counts \in [Emojis -> 0..Cardinality(Users)]
        <3>1. Cardinality(Users) \in Nat
            BY ChatAssumption, FS_CardinalityType
        <3>2. \A e \in Emojis : counts[e] \in 0..Cardinality(Users)
            <4> SUFFICES ASSUME NEW e \in Emojis
                         PROVE  counts[e] \in 0..Cardinality(Users)
                OBVIOUS
            <4> DEFINE of == {r \in reactions : r[2] = e}
            <4>1. counts[e] \in Nat /\ counts[e] <= Cardinality(of)
                BY DEF IInv, MessageIsSound, MessageIsCounted
            <4>2. Cardinality(of) \in Nat /\ Cardinality(of) <= Cardinality(Users)
                BY FewRows DEF IInv, MessageIsSound
            <4> HIDE DEF of
            <4> QED BY <3>1, <4>1, <4>2
        <3> QED BY <3>2 DEF IInv, MessageIsSound
    <2>2. history \subseteq 1..MaxEdits
        BY EditedMessage, ChatAssumption DEF IInv, MessageIsSound, MessageIsCounted
    <2> QED BY <2>1, <2>2 DEF IInv, MembersInv, MessageIsSound, ChatIsCounted, ChatTypes,
            MembersAreCounted, RowsAreTyped, ConversationIsSound, OneRowEach
<1> QED BY <1>1, Invariance, PTL

(* A message: one row of history for each edit, no more edits than         *)
(* allowed, and counts of reactions that are not above the rows.           *)
THEOREM MessagesCounted == ChatSpec => []MessageIsCounted
<1>1. IInv => MessageIsCounted
    BY DEF IInv, MessageIsSound
<1> QED BY <1>1, Invariance, PTL

(* A message that is deleted is not edited any more.                       *)
THEOREM DeletedStaysAsItWas == ChatSpec => DeletedIsNotEdited
<1>1. IInv /\ [ChatNext]_chatVars
         => [message.is = "deleted" => message'.edits = message.edits]_chatVars
    <2> SUFFICES ASSUME IInv, ChatNext, message.is = "deleted"
                 PROVE  message'.edits = message.edits
        OBVIOUS
    <2>1. ASSUME NEW p \in Requests, MembersStep(p), UNCHANGED messageVars
          PROVE  message'.edits = message.edits
        BY <2>1 DEF messageVars
    <2>2. ASSUME NEW p \in Requests, MessageStep(p)
          PROVE  message'.edits = message.edits
        <3>1. CASE AskSend(p) \/ AskEdit(p) \/ AskUnsend(p) \/ AskReact(p) \/ AskUnreact(p)
            BY <3>1 DEF AskSend, AskEdit, AskUnsend, AskReact, AskUnreact, Says, messageVars
        <3> QED BY <2>2, <3>1, SendKeeps, EditKeeps, UnsendKeeps, ReactKeeps, UnreactKeeps
                DEF MessageStep
    <2> QED BY <2>1, <2>2 DEF ChatNext
<1> QED BY <1>1, Invariance, PTL DEF ChatSpec, DeletedIsNotEdited

(* Whoever leaves last closes the conversation, however far its count has  *)
(* drifted, and a direct one is closed by nothing else.                    *)
THEOREM LastLeaves == ChatSpec => LastToLeaveCloses
<1> DEFINE Closes ==
      /\ (Active # {} /\ Active' = {} /\ ~conv'.deleted)
            => \E i \in Active : rows'[i].is = "removed"
      /\ conv.kind = "direct" /\ conv'.deleted => Active' = {}
<1>1. IInv /\ IInv' /\ [ChatNext]_chatVars => [Closes]_memberVars
    <2> SUFFICES ASSUME IInv, IInv', [ChatNext]_chatVars, ~UNCHANGED memberVars
                 PROVE  Closes
        OBVIOUS
    <2>1. ASSUME Active' = Active \/ (Active \subseteq Active')
          PROVE  Active # {} /\ Active' = {} => FALSE
        BY <2>1
    <2>2. ASSUME conv'.kind = conv.kind
          PROVE  conv.kind = "direct" /\ conv'.deleted => Active' = {}
        BY <2>2 DEF IInv, MembersInv, ConversationIsSound
    <2>3. conv'.kind = conv.kind
        <3>1. conv \in Conversation
            BY DEF IInv, MembersInv, ConversationIsSound
        <3> QED BY <3>1 DEF ChatNext, MembersStep, MessageStep, chatVars, memberVars,
                Asks, Says, Saved, AskDirect, AskAdd, AskRemove, AskLeave, AskChange,
                AskTransfer, AskDelete, AskSend, AskEdit, AskUnsend, AskReact, AskUnreact,
                MakeDirect, Add, Remove, PickHeir, Leave, Change, Transfer, Delete, Fail,
                Send, Edit, Unsend, React, Unreact, Conversation
    <2>4. Active # {} /\ Active' = {} /\ ~conv'.deleted
             => \E i \in Active : rows'[i].is = "removed"
        <3>1. ASSUME rows' = rows PROVE Active' = Active
            BY <3>1 DEF Active
        <3>2. ASSUME NEW p \in Requests, Remove(p), Active # {}, Active' = {}
              PROVE  \E i \in Active : rows'[i].is = "removed"
            <4>1. Active \subseteq {req[p].row} /\ rows'[req[p].row].is = "removed"
                BY <3>2, RemoveKeeps DEF IInv
            <4> QED BY <3>2, <4>1
        <3>3. ASSUME NEW p \in Requests, MakeDirect(p) PROVE Active = {}
            <4>1. rows = << >> /\ rows \in Seq(Row)
                BY <3>3 DEF MakeDirect, PairIsNew, IInv, MembersInv, ConversationIsSound,
                   RowsAreTyped
            <4> QED BY <4>1, EmptySeq, LenProperties DEF Active
        <3>4. ASSUME NEW p \in Requests, Leave(p), Active # {}, Active' = {}
              PROVE  conv'.deleted
            BY <3>4, LeaveKeeps DEF IInv
        <3>5. ASSUME NEW p \in Requests,
                     Add(p) \/ Change(p) \/ Transfer(p) \/ Delete(p)
              PROVE  Active \subseteq Active'
            BY <3>5, AddKeeps, ChangeKeeps, TransferKeeps, DeleteKeeps DEF IInv
        <3>6. ASSUME NEW p \in Requests,
                     \/ AskDirect(p) \/ AskAdd(p) \/ AskRemove(p) \/ AskLeave(p)
                     \/ AskChange(p) \/ AskTransfer(p) \/ AskDelete(p)
                     \/ PickHeir(p) \/ Fail(p) \/ MessageStep(p)
              PROVE  rows' = rows
            BY <3>6 DEF AskDirect, AskAdd, AskRemove, AskLeave, AskChange, AskTransfer,
               AskDelete, Asks, PickHeir, Fail, MessageStep, Says, Saved, AskSend, AskEdit,
               AskUnsend, AskReact, AskUnreact, Send, Edit, Unsend, React, Unreact
        <3> QED BY <2>1, <3>1, <3>2, <3>3, <3>4, <3>5, <3>6
                DEF ChatNext, MembersStep, chatVars, memberVars
    <2> QED BY <2>2, <2>3, <2>4
<1> QED BY <1>1, Invariance, PTL DEF ChatSpec, LastToLeaveCloses

-----------------------------------------------------------------------------
(* NotificationDelivery.  What a caller of create_notification is doing.   *)
CallerStates ==
    {AtRest}
    \cup [op : {"resolve"}, keyed : BOOLEAN]
    \cup [op : {"fill", "insert"}, keyed : BOOLEAN, prefs : SUBSET Channels]
    \cup [op : {"dispatch"}, todo : SUBSET Channels]

CallersAreSound == caller \in [Creators -> CallerStates]

(* No channel's task was queued.                                           *)
NothingSent ==
    /\ known = {}
    /\ \A ch \in Channels :
          task[ch] = NoTask /\ sends[ch] = 0 /\ ch \notin told

(* Only the caller that made the notification dispatches it, and nothing   *)
(* was sent before it does.                                                *)
MadeOnce ==
    /\ made \in {0, 1}
    /\ \A c \in Creators : caller[c].op = "dispatch" =>
          /\ made = 1
          /\ \A d \in Creators : caller[d].op = "dispatch" => d = c
    /\ made = 0 \/ (\E c \in Creators : caller[c].op = "dispatch") => NothingSent

(* Each try sends once, and a channel whose provider knows the message is  *)
(* not pending: its task, if it runs again, finds nothing to send.         *)
ChannelIsSound(ch) ==
    /\ task[ch].at \in {"queued", "loaded"} => sends[ch] <= task[ch].tries
    /\ task[ch].at = "sent" => sends[ch] <= task[ch].tries + 1
    /\ sends[ch] <= MaxRetries + 1
    /\ ch \in known => delivery[ch] # "PENDING" /\ task[ch].at \notin {"loaded", "sent"}
    /\ ch \in told => ch \in known /\ delivery[ch] \in Reports

NotificationInv ==
    /\ NotificationTypes
    /\ CallersAreSound
    /\ sends \in [Channels -> Nat] /\ told \subseteq Channels
    /\ MadeOnce
    /\ \A ch \in Channels : ChannelIsSound(ch)

(* What SetGlobal to CheckKey leave alone.                                 *)
LEMMA ChannelsStay ==
ASSUME NotificationInv, UNCHANGED deliveryVars
PROVE  /\ \A ch \in Channels : ChannelIsSound(ch)'
       /\ NothingSent => NothingSent'
BY DEF NotificationInv, ChannelIsSound, deliveryVars, NothingSent

LEMMA CallersStay ==
ASSUME NotificationInv, UNCHANGED <<caller, made, deliveryVars>>
PROVE  /\ CallersAreSound' /\ MadeOnce'
       /\ \A ch \in Channels : ChannelIsSound(ch)'
       /\ sends' \in [Channels -> Nat] /\ told' \subseteq Channels
<1>1. MadeOnce'
    BY DEF NotificationInv, MadeOnce, NothingSent, deliveryVars
<1> QED BY <1>1, ChannelsStay DEF NotificationInv, CallersAreSound, deliveryVars

LEMMA PreferencesKeep ==
ASSUME NotificationInv,
       SetGlobal \/ SetCategory \/ SetType \/ Reset \/ Invalidate \/ Expires \/ MarkRead
PROVE  NotificationInv'
<1> USE DEF SetGlobal, SetCategory, SetType, Reset, Invalidate, Expires, MarkRead, Saves
<1>1. UNCHANGED <<caller, made, deliveryVars>>
    BY DEF noteVars
<1>2. prefs \in Prefs /\ cache \in (SUBSET Channels) \cup {NotCached}
    BY DEF NotificationInv, NotificationTypes
<1>3. prefs' \in Prefs
    <2>1. Defaults \in Prefs
        BY DEF Defaults, Prefs
    <2>2. \A off \in BOOLEAN : /\ [prefs EXCEPT !.global = off] \in Prefs
                              /\ [prefs EXCEPT !.category = off] \in Prefs
        BY <1>2 DEF Prefs
    <2>3. \A on \in SUBSET Channels : [prefs EXCEPT !.type = on] \in Prefs
        BY <1>2 DEF Prefs
    <2> QED BY <1>2, <2>1, <2>2, <2>3 DEF prefVars
<1>4. cache' \in (SUBSET Channels) \cup {NotCached} /\ dirty' \in BOOLEAN /\ read' \in BOOLEAN
    BY <1>2 DEF NotificationInv, NotificationTypes, prefVars, noteVars
<1>5. NotificationTypes'
    BY <1>1, <1>3, <1>4 DEF NotificationInv, NotificationTypes, deliveryVars
<1> QED BY <1>1, <1>5, CallersStay DEF NotificationInv

(* A caller that does not dispatch goes on, and still does not.            *)
LEMMA CallerGoesOn ==
ASSUME NotificationInv, NEW c \in Creators, NEW step \in CallerStates,
       step.op # "dispatch", Goes(c, step),
       UNCHANGED <<made, delivery, known, task, sends, told>>
PROVE  /\ CallersAreSound' /\ MadeOnce'
       /\ \A ch \in Channels : ChannelIsSound(ch)'
       /\ sends' \in [Channels -> Nat] /\ told' \subseteq Channels
<1>1. CallersAreSound'
    BY DEF NotificationInv, CallersAreSound, Goes
<1>2. \A d \in Creators : caller'[d].op = "dispatch" => caller[d].op = "dispatch"
    BY DEF NotificationInv, CallersAreSound, Goes
<1>3. MadeOnce'
    BY <1>2 DEF NotificationInv, MadeOnce, NothingSent
<1> QED BY <1>1, <1>3, ChannelsStay DEF NotificationInv, deliveryVars

LEMMA CheckKeyKeeps ==
ASSUME NotificationInv, NEW c \in Creators, NEW keyed \in BOOLEAN, CheckKey(c, keyed)
PROVE  NotificationInv'
<1>1. [op |-> "resolve", keyed |-> keyed] \in CallerStates
    BY DEF CallerStates
<1>2. NotificationTypes'
    BY DEF CheckKey, NotificationInv, NotificationTypes, prefVars, noteVars, deliveryVars
<1> QED BY <1>1, <1>2, CallerGoesOn DEF CheckKey, NotificationInv, noteVars, deliveryVars

LEMMA ResolveKeeps ==
ASSUME NotificationInv, NEW c \in Creators, Resolve(c)
PROVE  NotificationInv'
<1> DEFINE step == [op |-> IF cache = NotCached THEN "fill" ELSE "insert",
                    keyed |-> caller[c].keyed,
                    prefs |-> IF cache = NotCached THEN Resolution ELSE cache]
<1>1. caller[c].keyed \in BOOLEAN
    BY DEF Resolve, NotificationInv, CallersAreSound, CallerStates, AtRest
<1>2. step.prefs \in SUBSET Channels
    <2>1. prefs.type \in SUBSET Channels
        BY DEF NotificationInv, NotificationTypes, Prefs
    <2>2. Resolution \in SUBSET Channels
        BY <2>1 DEF Resolution
    <2>3. cache \in (SUBSET Channels) \cup {NotCached}
        BY DEF NotificationInv, NotificationTypes
    <2> QED BY <2>2, <2>3
<1>3. step \in CallerStates /\ step.op # "dispatch"
    BY <1>1, <1>2 DEF CallerStates
<1>4. Goes(c, step)
    BY DEF Resolve
<1> HIDE DEF step
<1>5. NotificationTypes'
    BY DEF Resolve, NotificationInv, NotificationTypes, prefVars, noteVars, deliveryVars
<1> QED BY <1>3, <1>4, <1>5, CallerGoesOn DEF Resolve, NotificationInv, noteVars, deliveryVars

LEMMA FillKeeps ==
ASSUME NotificationInv, NEW c \in Creators, Fill(c)
PROVE  NotificationInv'
<1> DEFINE step == [caller[c] EXCEPT !.op = "insert"]
<1>1. caller[c] \in [op : {"fill", "insert"}, keyed : BOOLEAN, prefs : SUBSET Channels]
    BY DEF Fill, NotificationInv, CallersAreSound, CallerStates, AtRest
<1>2. step \in CallerStates /\ step.op # "dispatch"
    BY <1>1 DEF CallerStates
<1>3. Goes(c, step)
    BY DEF Fill
<1> HIDE DEF step
<1>4. NotificationTypes'
    BY <1>1 DEF Fill, NotificationInv, NotificationTypes, noteVars, deliveryVars
<1> QED BY <1>2, <1>3, <1>4, CallerGoesOn DEF Fill, NotificationInv, noteVars, deliveryVars

LEMMA InsertKeeps ==
ASSUME NotificationInv, NEW c \in Creators, Insert(c)
PROVE  NotificationInv'
<1>1. caller[c] \in [op : {"fill", "insert"}, keyed : BOOLEAN, prefs : SUBSET Channels]
    BY DEF Insert, NotificationInv, CallersAreSound, CallerStates, AtRest
<1>2. CASE /\ caller[c].keyed /\ KeyIsNew(caller[c].keyed)
           /\ made' = made + 1
           /\ delivery' = [ch \in Channels |->
                             IF ch \in caller[c].prefs THEN "PENDING" ELSE "SKIPPED"]
           /\ Goes(c, [op |-> "dispatch", todo |-> caller[c].prefs])
    <2> DEFINE step == [op |-> "dispatch", todo |-> caller[c].prefs]
    <2>1. made = 0 /\ made' = 1 /\ NothingSent
        BY <1>2 DEF KeyIsNew, NotificationInv, MadeOnce
    <2>2. step \in CallerStates
        BY <1>1 DEF CallerStates
    <2>3. caller' = [caller EXCEPT ![c] = step]
        BY <1>2 DEF Goes
    <2> HIDE DEF step
    <2>4. CallersAreSound'
        BY <2>2, <2>3 DEF NotificationInv, CallersAreSound
    <2>5. \A d \in Creators : caller'[d].op = "dispatch" => d = c
        BY <2>1, <2>3 DEF NotificationInv, CallersAreSound, MadeOnce
    <2>6. NothingSent' /\ \A ch \in Channels : ChannelIsSound(ch)'
        BY <2>1, NotificationAssumption
           DEF Insert, NothingSent, NoTask, ChannelIsSound, NotificationInv
    <2>7. MadeOnce'
        BY <2>1, <2>5, <2>6 DEF MadeOnce
    <2>8. NotificationTypes'
        BY <1>2 DEF Insert, NotificationInv, NotificationTypes, prefVars, Status
    <2> QED BY <2>4, <2>6, <2>7, <2>8 DEF Insert, NotificationInv
<1>3. CASE Goes(c, AtRest) /\ UNCHANGED <<made, delivery>>
    <2>1. AtRest \in CallerStates /\ AtRest.op # "dispatch"
        BY DEF CallerStates, AtRest
    <2>2. NotificationTypes'
        BY <1>3 DEF Insert, NotificationInv, NotificationTypes, prefVars
    <2> QED BY <1>3, <2>1, <2>2, CallerGoesOn DEF Insert, NotificationInv
<1> QED BY <1>2, <1>3 DEF Insert

LEMMA GivesKeeps ==
ASSUME NotificationInv, NEW c \in Creators, Gives(c)
PROVE  NotificationInv'
<1>1. AtRest \in CallerStates /\ AtRest.op # "dispatch"
    BY DEF CallerStates, AtRest
<1>2. NotificationTypes'
    BY DEF Gives, NotificationInv, NotificationTypes, prefVars, noteVars, deliveryVars
<1> QED BY <1>1, <1>2, CallerGoesOn DEF Gives, NotificationInv, noteVars, deliveryVars

LEMMA DispatchKeeps ==
ASSUME NotificationInv, NEW c \in Creators, Dispatch(c)
PROVE  NotificationInv'
<1>1. made = 1 /\ NothingSent
    BY DEF Dispatch, NotificationInv, MadeOnce
<1>2. \A d \in Creators : caller'[d].op # "dispatch"
    BY DEF Dispatch, Goes, AtRest, NotificationInv, CallersAreSound, MadeOnce
<1>3. CallersAreSound' /\ MadeOnce'
    BY <1>1, <1>2 DEF Dispatch, Goes, NotificationInv, CallersAreSound, CallerStates,
       MadeOnce, noteVars
<1>4. \A ch \in Channels : task'[ch] \in {NoTask, Queued(0)}
    BY <1>1 DEF Dispatch, NothingSent
<1>5. task' \in [Channels -> {NoTask, Queued(0)}]
    BY <1>4 DEF Dispatch
<1>6. \A ch \in Channels : ChannelIsSound(ch)'
    BY <1>1, <1>4, NotificationAssumption
       DEF Dispatch, ChannelIsSound, NothingSent, NoTask, Queued
<1>7. NotificationTypes'
    BY <1>5, NotificationAssumption
       DEF Dispatch, NotificationInv, NotificationTypes, prefVars, noteVars, NoTask, Queued
<1> QED BY <1>3, <1>6, <1>7 DEF Dispatch, NotificationInv

LEMMA CallersKeep ==
ASSUME NotificationInv, NEW c \in Creators,
       \/ \E keyed \in BOOLEAN : CheckKey(c, keyed)
       \/ Resolve(c) \/ Fill(c) \/ Insert(c) \/ Dispatch(c) \/ Gives(c)
PROVE  NotificationInv'
BY CheckKeyKeeps, ResolveKeeps, FillKeeps, InsertKeeps, DispatchKeeps, GivesKeeps

(* The next try of a task, if there is one.                                *)
LEMMA AgainGoes ==
ASSUME NotificationInv, NEW ch \in Channels, Again(ch) \/ Task(ch, NoTask)
PROVE  /\ task' \in [Channels -> [at : {"none", "queued", "loaded", "sent"},
                                  tries : 0..MaxRetries]]
       /\ \A other \in Channels \ {ch} : task'[other] = task[other]
       /\ task'[ch].at \in {"none", "queued"}
       /\ task'[ch].at = "queued" => task'[ch].tries = task[ch].tries + 1
<1>1. task[ch].tries \in 0..MaxRetries
    BY DEF NotificationInv, NotificationTypes
<1>2. CASE Task(ch, NoTask)
    BY <1>2, NotificationAssumption
       DEF Task, NoTask, NotificationInv, NotificationTypes
<1>3. CASE task[ch].tries < MaxRetries /\ Task(ch, Queued(task[ch].tries + 1))
    BY <1>1, <1>3, NotificationAssumption
       DEF Task, Queued, NotificationInv, NotificationTypes
<1> QED BY <1>2, <1>3 DEF Again

(* A step of one channel's task leaves the rest as it was.                 *)
LEMMA TaskKeeps ==
ASSUME NotificationInv, NEW ch \in Channels, ~NothingSent,
       UNCHANGED <<prefVars, caller, noteVars>>,
       NotificationTypes',
       sends' \in [Channels -> Nat], told' \subseteq Channels,
       ChannelIsSound(ch)',
       \A other \in Channels \ {ch} :
          /\ task'[other] = task[other] /\ sends'[other] = sends[other]
          /\ (other \in told' <=> other \in told) /\ delivery'[other] = delivery[other]
          /\ other \in known' <=> other \in known
PROVE  NotificationInv'
<1>1. MadeOnce' /\ CallersAreSound'
    BY DEF NotificationInv, MadeOnce, CallersAreSound, noteVars
<1>2. \A other \in Channels \ {ch} : ChannelIsSound(other)'
    BY DEF NotificationInv, ChannelIsSound
<1> QED BY <1>1, <1>2 DEF NotificationInv

LEMMA GetDeliveryKeeps ==
ASSUME NotificationInv, NEW ch \in Channels, GetDelivery(ch)
PROVE  NotificationInv'
<1>1. task[ch] \in [at : {"none", "queued", "loaded", "sent"}, tries : 0..MaxRetries]
    BY DEF NotificationInv, NotificationTypes
<1>2. ~NothingSent
    BY DEF GetDelivery, NothingSent, NoTask
<1>3. CASE IsPending(ch) /\ Task(ch, [task[ch] EXCEPT !.at = "loaded"])
    <2>1. task'[ch].at = "loaded" /\ task'[ch].tries = task[ch].tries
        BY <1>1, <1>3 DEF Task, NotificationInv, NotificationTypes
    <2>2. ChannelIsSound(ch)'
        BY <1>3, <2>1 DEF GetDelivery, IsPending, ChannelIsSound, NotificationInv
    <2>3. NotificationTypes'
        BY <1>1, <1>3
           DEF GetDelivery, Task, NotificationInv, NotificationTypes, prefVars, noteVars
    <2> QED BY <1>2, <1>3, <2>2, <2>3, TaskKeeps
            DEF GetDelivery, Task, NotificationInv, NotificationTypes
<1>4. CASE Task(ch, NoTask)
    <2>1. ChannelIsSound(ch)'
        BY <1>4, AgainGoes DEF GetDelivery, Task, NoTask, ChannelIsSound, NotificationInv,
           NotificationTypes
    <2>2. NotificationTypes'
        BY <1>4, AgainGoes
           DEF GetDelivery, NotificationInv, NotificationTypes, prefVars, noteVars
    <2> QED BY <1>2, <1>4, <2>1, <2>2, AgainGoes, TaskKeeps
            DEF GetDelivery, NotificationInv
<1> QED BY <1>3, <1>4 DEF GetDelivery

LEMMA BecomesStatus ==
ASSUME NotificationInv, NEW ch \in Channels, NEW status \in Status, Becomes(ch, status)
PROVE  /\ delivery' \in [Channels -> Status]
       /\ delivery'[ch] = status
       /\ \A other \in Channels \ {ch} : delivery'[other] = delivery[other]
BY DEF Becomes, NotificationInv, NotificationTypes

LEMMA SkipKeeps ==
ASSUME NotificationInv, NEW ch \in Channels, Skip(ch) \/ Dies(ch)
PROVE  NotificationInv'
<1>1. ~NothingSent /\ ch \notin known
    BY DEF Skip, Dies, NothingSent, NoTask, NotificationInv, ChannelIsSound
<1>2. /\ delivery' \in [Channels -> Status]
      /\ \A other \in Channels \ {ch} : delivery'[other] = delivery[other]
    BY BecomesStatus DEF Skip, Dies, NotificationInv, NotificationTypes, Status
<1>3. Task(ch, NoTask) /\ task'[ch].at = "none"
    BY DEF Skip, Dies, Task, NoTask, NotificationInv, NotificationTypes
<1>4. ChannelIsSound(ch)'
    BY <1>1, <1>3 DEF Skip, Dies, ChannelIsSound, NotificationInv
<1>5. NotificationTypes'
    BY <1>2, <1>3, AgainGoes
       DEF Skip, Dies, NotificationInv, NotificationTypes, prefVars, noteVars
<1> QED BY <1>1, <1>2, <1>3, <1>4, <1>5, AgainGoes, TaskKeeps
        DEF Skip, Dies, NotificationInv

LEMMA SendNotificationKeeps ==
ASSUME NotificationInv, NEW ch \in Channels, SendNotification(ch)
PROVE  NotificationInv'
<1>1. task[ch] \in [at : {"none", "queued", "loaded", "sent"}, tries : 0..MaxRetries]
    BY DEF NotificationInv, NotificationTypes
<1>2. /\ ~NothingSent /\ ch \notin known /\ ch \notin told
      /\ sends[ch] \in Nat /\ sends[ch] <= task[ch].tries
    BY DEF SendNotification, NothingSent, NoTask, NotificationInv, ChannelIsSound
<1>3. CASE /\ sends' = [sends EXCEPT ![ch] = @ + 1]
           /\ Task(ch, [task[ch] EXCEPT !.at = "sent"])
           /\ UNCHANGED delivery
    <2>1. task'[ch].at = "sent" /\ task'[ch].tries = task[ch].tries
        BY <1>1, <1>3 DEF Task, NotificationInv, NotificationTypes
    <2>2. sends'[ch] = sends[ch] + 1 /\ sends' \in [Channels -> Nat]
        BY <1>2, <1>3 DEF NotificationInv
    <2>3. ChannelIsSound(ch)'
        BY <1>1, <1>2, <2>1, <2>2, NotificationAssumption
           DEF SendNotification, ChannelIsSound
    <2>4. NotificationTypes'
        BY <1>1, <1>3 DEF SendNotification, Task, NotificationInv, NotificationTypes,
           prefVars, noteVars
    <2> QED BY <1>2, <1>3, <2>2, <2>3, <2>4, TaskKeeps
            DEF SendNotification, Task, NotificationInv, NotificationTypes
<1>4. CASE /\ Again(ch) \/ Task(ch, NoTask)
           /\ UNCHANGED sends
           /\ Becomes(ch, "FAILED") \/ UNCHANGED delivery
    <2>1. /\ delivery' \in [Channels -> Status]
          /\ \A other \in Channels \ {ch} : delivery'[other] = delivery[other]
        BY <1>4, BecomesStatus DEF NotificationInv, NotificationTypes, Status
    <2>2. ChannelIsSound(ch)'
        BY <1>1, <1>2, <1>4, AgainGoes, NotificationAssumption
           DEF SendNotification, ChannelIsSound
    <2>3. NotificationTypes'
        BY <1>4, <2>1, AgainGoes
           DEF SendNotification, NotificationInv, NotificationTypes, prefVars, noteVars
    <2> QED BY <1>2, <1>4, <2>1, <2>2, <2>3, AgainGoes, TaskKeeps
            DEF SendNotification, NotificationInv
<1> QED BY <1>3, <1>4 DEF SendNotification

LEMMA MarkSentKeeps ==
ASSUME NotificationInv, NEW ch \in Channels, MarkSent(ch)
PROVE  NotificationInv'
<1>1. task[ch] \in [at : {"none", "queued", "loaded", "sent"}, tries : 0..MaxRetries]
    BY DEF NotificationInv, NotificationTypes
<1>2. /\ ~NothingSent /\ ch \notin known /\ ch \notin told
      /\ sends[ch] \in Nat /\ sends[ch] <= task[ch].tries + 1
    BY DEF MarkSent, NothingSent, NoTask, NotificationInv, ChannelIsSound
<1>3. Again(ch) \/ Task(ch, NoTask)
    BY DEF MarkSent
<1>4. /\ delivery' \in [Channels -> Status]
      /\ \A other \in Channels \ {ch} : delivery'[other] = delivery[other]
      /\ known' \in {known, known \cup {ch}}
      /\ ch \in known' => delivery'[ch] # "PENDING"
    BY <1>2, BecomesStatus DEF MarkSent, NotificationInv, NotificationTypes, Status
<1>5. ChannelIsSound(ch)'
    BY <1>1, <1>2, <1>3, <1>4, AgainGoes, NotificationAssumption
       DEF MarkSent, ChannelIsSound
<1>6. NotificationTypes'
    BY <1>3, <1>4, AgainGoes
       DEF MarkSent, NotificationInv, NotificationTypes, prefVars, noteVars
<1> QED BY <1>2, <1>3, <1>4, <1>5, <1>6, AgainGoes, TaskKeeps
        DEF MarkSent, NotificationInv

LEMMA CallbackKeeps ==
ASSUME NotificationInv, NEW ch \in Channels, Callback(ch)
PROVE  NotificationInv'
<1>1. PICK said \in Reports :
         Becomes(ch, said) /\ told' = told \cup {ch}
    BY DEF Callback
<1>2. /\ delivery' \in [Channels -> Status] /\ delivery'[ch] = said
      /\ \A other \in Channels \ {ch} : delivery'[other] = delivery[other]
      /\ said # "PENDING"
    BY <1>1, BecomesStatus DEF Reports, Status
<1>3. told' \subseteq Channels
    BY <1>1 DEF NotificationInv
<1>4. ~NothingSent
    BY DEF Callback, NothingSent
<1>5. ChannelIsSound(ch)'
    BY <1>2, <1>3 DEF Callback, ChannelIsSound, NotificationInv
<1>6. NotificationTypes'
    BY <1>2 DEF Callback, NotificationInv, NotificationTypes, prefVars, noteVars
<1> QED BY <1>1, <1>2, <1>3, <1>4, <1>5, <1>6, TaskKeeps DEF Callback, NotificationInv

LEMMA NotificationStart == NotificationInit => NotificationInv
<1> SUFFICES ASSUME NotificationInit PROVE NotificationInv
    OBVIOUS
<1> USE NotificationAssumption DEF NotificationInit
<1>1. NotificationTypes
    <2>1. Defaults \in Prefs
        BY DEF Defaults, Prefs
    <2>2. task \in [Channels -> [at : {"none", "queued", "loaded", "sent"},
                               tries : 0..MaxRetries]]
        BY DEF NoTask
    <2> QED BY <2>1, <2>2 DEF NotificationTypes, Status
<1>2. CallersAreSound /\ \A c \in Creators : caller[c].op = "idle"
    BY DEF CallersAreSound, CallerStates, AtRest
<1>3. NothingSent
    BY DEF NothingSent
<1>4. \A ch \in Channels : ChannelIsSound(ch)
    <2> TAKE ch \in Channels
    <2>1. /\ task[ch].at = "none" /\ sends[ch] = 0 /\ ch \notin told
          /\ known = {} /\ 0 <= MaxRetries + 1
        BY <1>3 DEF NothingSent, NoTask
    <2> QED BY <2>1 DEF ChannelIsSound
<1>5. sends \in [Channels -> Nat] /\ told \subseteq Channels
    OBVIOUS
<1> QED BY <1>1, <1>2, <1>3, <1>4, <1>5 DEF NotificationInv, MadeOnce

LEMMA NotificationStepKeeps ==
    NotificationInv /\ [NotificationNext]_notificationVars => NotificationInv'
<1> SUFFICES ASSUME NotificationInv, [NotificationNext]_notificationVars
             PROVE  NotificationInv'
    OBVIOUS
<1>1. CASE UNCHANGED notificationVars
    <2>1. UNCHANGED <<caller, made, deliveryVars>> /\ NotificationTypes'
        BY <1>1 DEF notificationVars, prefVars, noteVars, deliveryVars, NotificationInv,
           NotificationTypes
    <2> QED BY <2>1, CallersStay DEF NotificationInv
<1>2. CASE NotificationNext
    BY <1>2, PreferencesKeep, CallersKeep, GetDeliveryKeeps, SkipKeeps,
       SendNotificationKeeps, MarkSentKeeps, CallbackKeeps DEF NotificationNext
<1> QED BY <1>1, <1>2

(* create_notification checks the key, and the database's unique index     *)
(* decides among callers that checked at the same time; a task whose row   *)
(* is no longer PENDING sends nothing, so a retry neither repeats a        *)
(* message the provider has an id for nor overwrites its report            *)
(* (NotificationDelivery.NotificationSafe).                                *)
THEOREM NotifiesOnce == NotificationSpec => []NotificationSafe
<1>1. NotificationInv => NotificationSafe
    BY DEF NotificationInv, NotificationSafe, NotifiedOnce, MadeOnce, ChannelIsSound
<1> QED BY <1>1, NotificationStart, NotificationStepKeeps, PTL DEF NotificationSpec
=============================================================================
