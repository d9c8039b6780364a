---------------------------- MODULE LedgerAccounts ----------------------------
(***************************************************************************)
(* LedgerService.get_or_create_account (payments/ledger/services.py) run   *)
(* by concurrent transactions, over the constraint unique_account_per_owner*)
(* of LedgerAccount.  The constraint covers (type, owner_id, currency);    *)
(* PostgreSQL takes two rows with a NULL in it for different, so it does   *)
(* nothing for the platform's accounts, whose owner_id is NULL.            *)
(***************************************************************************)
EXTENDS Naturals, FiniteSets

CONSTANTS Owned,      \* account keys with an owner: a user's balance
          Platform,   \* account keys without: escrow, revenue, external
          Sessions    \* database transactions, each asking for one account

Keys == Owned \cup Platform

VARIABLES rows,       \* rows[k]: committed LedgerAccount rows of key k
          wants,      \* the key each session asks for
          pc          \* "get", "create", "again", "made", "found" or "error"

vars == <<rows, wants, pc>>

TypeOK ==
    /\ rows \in [Keys -> Nat]
    /\ wants \in [Sessions -> Keys]
    /\ pc \in [Sessions -> {"get", "create", "again", "made", "found", "error"}]

Init ==
    /\ rows = [k \in Keys |-> 0]
    /\ wants \in [Sessions -> Keys]
    /\ pc = [s \in Sessions |-> "get"]

Goto(s, place) == pc' = [pc EXCEPT ![s] = place] /\ UNCHANGED wants

(* objects.get() over the committed rows: none raises DoesNotExist, two    *)
(* raise MultipleObjectsReturned, which get_or_create lets through.        *)
Lookup(s, ifNone) ==
    /\ Goto(s, CASE rows[wants[s]] = 0 -> ifNone
                 [] rows[wants[s]] = 1 -> "found"
                 [] OTHER              -> "error")
    /\ UNCHANGED rows

Get(s) == pc[s] = "get" /\ Lookup(s, "create")

(* After an IntegrityError, get_or_create looks again.                     *)
GetAgain(s) == pc[s] = "again" /\ Lookup(s, "error")

(* The sessions whose uncommitted row the constraint compares with ours.   *)
Rivals(s) == {r \in Sessions \ {s} : pc[r] = "made" /\ wants[r] = wants[s]}

Create(s) ==
    /\ pc[s] = "create"
    /\ \/ /\ wants[s] \in Platform
          /\ Goto(s, "made")
       \/ /\ wants[s] \in Owned
          /\ Rivals(s) = {}
          /\ Goto(s, IF rows[wants[s]] = 0 THEN "made" ELSE "again")
    /\ UNCHANGED rows

Commit(s) ==
    /\ pc[s] = "made"
    /\ rows' = [rows EXCEPT ![wants[s]] = @ + 1]
    /\ Goto(s, "found")

Rollback(s) ==
    /\ pc[s] = "made"
    /\ Goto(s, "get")
    /\ UNCHANGED rows

Next ==
    \E s \in Sessions : Get(s) \/ GetAgain(s) \/ Create(s) \/ Commit(s) \/ Rollback(s)

Spec == Init /\ [][Next]_vars

-----------------------------------------------------------------------------
(* models.py, LedgerAccount: "Unique combination of (type, owner_id,       *)
(* currency)".  Two first payments that race for the escrow account make   *)
(* two, and every later get_or_create of it fails.                         *)
UniqueCombination == \A k \in Keys : rows[k] <= 1
=============================================================================
