----------------------------- MODULE PagedReads -----------------------------
(***************************************************************************)
(* The paged listings of the platform: a reader walks a table page by page *)
(* while others write to it.                                               *)
(*                                                                         *)
(* Every listing orders its rows by a key, starts strictly after a cursor  *)
(* and returns at most limit rows; the cursor of the next page is the key  *)
(* of the last row, or none when the listing is complete.  Some listings   *)
(* call a full page "there may be more", others read one row ahead.  A     *)
(* page is authorized and audited like every oversight read: the attempt   *)
(* is committed first (the retention report has none), then the page and   *)
(* its completion row commit together.  The platform audit table is        *)
(* special: reading it writes to it, and its key is the time a row's       *)
(* transaction began, so rows may commit behind the cursor.                *)
(*                                                                         *)
(* Keys are numbers.  A filter on other columns is the set of rows that    *)
(* are not listed ("hidden").                                              *)
(***************************************************************************)
EXTENDS Naturals, FiniteSets, Sequences, SequencesExt

CONSTANTS
    Listings,   \* the listings walked (members of AllListings)
    Ids,        \* row ids, numbers, for each kind of key: [id, time]
    FirstRows,  \* for each kind of key, the sets of rows listed at first
    MaxPage,    \* the listing's maximum page size
    MaxNow,     \* bound on the clock
    MaxFaults   \* bound on the statement timeouts the reader retries

VARIABLES
    listing,    \* which listing the reader walks
    table,      \* [Rows -> [state, at]]
    now,        \* the database clock
    mayList,    \* the reader's grant stands
    walk,       \* the reader's walk
    standing,   \* rows listed ever since the walk began
    onRecord,   \* rows the committed completion rows count
    faults      \* timeouts so far

pagedVars == <<listing, table, now, mayList, walk, standing, onRecord, faults>>

----------------------------------------------------------------------------
(* The listings: the key, whether a row beyond the page is read, whether   *)
(* listed rows can leave and come back, whether an attempt row is written. *)

ListTenantRegistry ==
    [table |-> "tenants", key |-> "id", ahead |-> 0, leaves |-> TRUE, returns |-> FALSE, attempt |-> TRUE]

CommercialOverview ==
    [table |-> "overview", key |-> "id", ahead |-> 0, leaves |-> TRUE, returns |-> FALSE, attempt |-> TRUE]

ReadFlagCatalog ==
    [table |-> "flags", key |-> "id", ahead |-> 0, leaves |-> FALSE, returns |-> FALSE, attempt |-> TRUE]

ReadTenantFlagOverrides ==
    [table |-> "overrides", key |-> "id", ahead |-> 0, leaves |-> TRUE, returns |-> TRUE, attempt |-> TRUE]

ListPlatformOperators ==
    [table |-> "operators", key |-> "id", ahead |-> 0, leaves |-> FALSE, returns |-> FALSE, attempt |-> TRUE]

ListPlatformGrants ==
    [table |-> "grants", key |-> "id", ahead |-> 0, leaves |-> FALSE, returns |-> FALSE, attempt |-> TRUE]

ListPlatformAudit ==
    [table |-> "audit", key |-> "time", ahead |-> 0, leaves |-> FALSE, returns |-> FALSE, attempt |-> TRUE]

ListLedgerHolds ==
    [table |-> "holds", key |-> "id", ahead |-> 1, leaves |-> TRUE, returns |-> FALSE, attempt |-> TRUE]

ReadDeletionRequests ==
    [table |-> "requests", key |-> "id", ahead |-> 1, leaves |-> FALSE, returns |-> FALSE, attempt |-> TRUE]

ReadApproverRegister ==
    [table |-> "register", key |-> "id", ahead |-> 1, leaves |-> FALSE, returns |-> FALSE, attempt |-> TRUE]

ReadApproverEligibility ==
    [table |-> "enrolments", key |-> "id", ahead |-> 1, leaves |-> FALSE, returns |-> FALSE, attempt |-> TRUE]

RetentionReport ==
    [table |-> "purged", key |-> "id", ahead |-> 1, leaves |-> FALSE, returns |-> FALSE, attempt |-> FALSE]

AllListings ==
    {ListTenantRegistry, CommercialOverview, ReadFlagCatalog, ReadTenantFlagOverrides,
     ListPlatformOperators, ListPlatformGrants, ListPlatformAudit, ListLedgerHolds,
     ReadDeletionRequests, ReadApproverRegister, ReadApproverEligibility, RetentionReport}

Audit == listing.key = "time"

Rows == DOMAIN table

----------------------------------------------------------------------------
(* The query. *)

Start == 0      \* no cursor
Forever == 0    \* no until

NotAsked == [at |-> "idle", cursor |-> Start, limit |-> 1, until |-> Forever, taken |-> <<>>]

Listed(t, until) ==
    {i \in Rows : t[i].state = "listed" /\ (until = Forever \/ t[i].at < until)}

(* The order of the listing: by id, or by (created_at, id). *)
Precedes(i, j) ==
    IF Audit THEN \/ table[i].at < table[j].at
                  \/ table[i].at = table[j].at /\ i < j
    ELSE i < j

AfterInclusive(cursor) ==
    {i \in Listed(table, walk.until) : cursor = Start \/ i = cursor \/ Precedes(cursor, i)}

(* Strictly after the cursor's row. *)
After(cursor) ==
    {i \in Listed(table, walk.until) : cursor = Start \/ Precedes(cursor, i)}

AtMost(n, s) == SubSeq(s, 1, IF Len(s) < n THEN Len(s) ELSE n)

(* What the statement returns: one row more where the listing looks ahead. *)
Found == AtMost(walk.limit + listing.ahead, SetToSortSeq(After(walk.cursor), Precedes))

Page == AtMost(walk.limit, Found)

ReturnedAsFound == Len(Found)

(* The number the completion row records. *)
Returned == Len(Page)

ContinuesIfMore == Len(Found) > walk.limit

Continues ==
    IF listing.ahead = 1 THEN Len(Found) > walk.limit ELSE Len(Page) = walk.limit

----------------------------------------------------------------------------

PagedInit ==
    /\ listing \in Listings
    /\ \E first \in FirstRows[listing.key] :
          table = [i \in Ids[listing.key] |->
                      [state |-> IF i \in first THEN "listed" ELSE "absent", at |-> 0]]
    /\ now = 1
    /\ mayList = TRUE
    /\ walk = NotAsked
    /\ standing = {}
    /\ onRecord = 0
    /\ faults = 0

----------------------------------------------------------------------------
(* The writers.  What they do after the walk is of no interest to it. *)

Walking == walk.at \in {"idle", "asked", "attempted"}

Write(i, row) ==
    /\ Walking
    /\ table' = [table EXCEPT ![i] = row]
    /\ standing' = IF row.state = "listed" THEN standing ELSE standing \ {i}
    /\ UNCHANGED <<listing, now, mayList, walk, onRecord, faults>>

(* A row the listing returns, or one its filter leaves out. *)
InsertRow(i) ==
    /\ ~Audit /\ table[i].state = "absent"
    /\ \E s \in {"listed", "hidden"} : Write(i, [state |-> s, at |-> now])

(* A tenant purged, an override cleared, a hold released. *)
LeaveListing(i) ==
    /\ listing.leaves /\ table[i].state = "listed"
    /\ Write(i, [table[i] EXCEPT !.state = "hidden"])

(* An override set again. *)
ReturnToListing(i) ==
    /\ listing.returns /\ table[i].state = "hidden"
    /\ Write(i, [table[i] EXCEPT !.state = "listed"])

(* An audit row carries the time its transaction began and is seen when it *)
(* commits. *)
BeginAuditRow(i) ==
    /\ Audit /\ table[i].state = "absent"
    /\ Write(i, [state |-> "open", at |-> now])

CommitAuditRow(i) ==
    /\ Audit /\ table[i].state = "open"
    /\ Write(i, [table[i] EXCEPT !.state = "listed"])

PassTime ==
    /\ Audit /\ Walking /\ now < MaxNow
    /\ now' = now + 1
    /\ UNCHANGED <<listing, table, mayList, walk, standing, onRecord, faults>>

LoseGrant ==
    /\ mayList /\ Walking
    /\ mayList' = FALSE
    /\ UNCHANGED <<listing, table, now, walk, standing, onRecord, faults>>

----------------------------------------------------------------------------
(* The reader. *)

Refused == 0

(* validate_page_request: the limit, or refused; never a smaller page than *)
(* was asked for. *)
Accepted(limit) == IF limit > MaxPage THEN Refused ELSE limit

(* The reader asks for pages of `limit` rows until the listing is          *)
(* complete, and takes a page shorter than that for the last.              *)
AskForPages(limit, until) ==
    /\ walk.at = "idle"
    /\ until # Forever => Audit
    /\ walk' = IF Accepted(limit) = Refused THEN [walk EXCEPT !.at = "rejected"]
               ELSE [walk EXCEPT !.at = "asked", !.limit = Accepted(limit), !.until = until]
    /\ standing' = IF Accepted(limit) = Refused THEN {} ELSE Listed(table, until)
    /\ UNCHANGED <<listing, table, now, mayList, onRecord, faults>>

(* The audited call's own row, in the table when that is what is listed.   *)
OwnRow ==
    IF Audit
    THEN \E i \in Rows : /\ table[i].state = "absent"
                        /\ table' = [table EXCEPT ![i] = [state |-> "listed", at |-> now]]
    ELSE UNCHANGED table

RefuseLister(step) ==
    /\ walk.at = step /\ ~mayList
    /\ walk' = [walk EXCEPT !.at = "refused"]
    /\ UNCHANGED <<listing, table, now, mayList, standing, onRecord, faults>>

(* record_oversight_attempt: authorized and committed before the page is   *)
(* read. *)
CommitListAttempt ==
    /\ walk.at = "asked" /\ listing.attempt /\ mayList
    /\ OwnRow
    /\ walk' = [walk EXCEPT !.at = "attempted"]
    /\ UNCHANGED <<listing, now, mayList, standing, onRecord, faults>>

ReadyToRead == walk.at = (IF listing.attempt THEN "attempted" ELSE "asked")

(* The page, read under a second authorization, and its completion row.    *)
ReadPage ==
    /\ ReadyToRead /\ mayList
    /\ OwnRow
    /\ walk' = [walk EXCEPT !.taken = @ \o Page,
                            !.cursor = IF Continues THEN Last(Page) ELSE @,
                            !.at = IF Continues THEN "asked" ELSE "done"]
    /\ onRecord' = onRecord + Returned
    /\ UNCHANGED <<listing, now, mayList, standing, faults>>

(* The statement timeout: nothing is returned, the reader asks again. *)
PageTimesOut ==
    /\ ReadyToRead /\ faults < MaxFaults
    /\ faults' = faults + 1
    /\ walk' = [walk EXCEPT !.at = "asked"]
    /\ UNCHANGED <<listing, table, now, mayList, standing, onRecord>>

PagedNext ==
    \/ \E i \in Rows : \/ InsertRow(i) \/ LeaveListing(i) \/ ReturnToListing(i)
                      \/ BeginAuditRow(i) \/ CommitAuditRow(i)
    \/ PassTime
    \/ LoseGrant
    \/ \E limit \in 1 .. MaxPage + 1, until \in 0 .. MaxNow : AskForPages(limit, until)
    \/ CommitListAttempt
    \/ ReadPage
    \/ PageTimesOut
    \/ \E step \in {"asked", "attempted"} : RefuseLister(step)

PagedSpec == PagedInit /\ [][PagedNext]_pagedVars

----------------------------------------------------------------------------

(* Types. *)
PagedTypeOK ==
    /\ listing \in AllListings
    /\ \A i \in Rows : table[i].state \in {"absent", "open", "listed", "hidden"}
    /\ walk.at \in {"idle", "asked", "attempted", "done", "refused", "rejected"}
    /\ standing \subseteq Rows

(* A finished walk has returned every row that was listed from its first   *)
(* page to its last, whatever was inserted, hidden, shown again or         *)
(* committed behind the cursor meanwhile: a full last page and a row that  *)
(* shares its created_at with the cursor's lose none. *)
StandingRowsReturned ==
    walk.at = "done" => standing \subseteq ToSet(walk.taken)

(* The pages of one walk follow the listing's order: no row comes twice,   *)
(* also after a timeout and when a row leaves the listing and comes back.  *)
WalkedInOrder ==
    \A a, b \in 1 .. Len(walk.taken) : a < b => Precedes(walk.taken[a], walk.taken[b])

(* The committed completion rows count exactly the rows that were handed   *)
(* out; the row read ahead is not one of them. *)
CountedIsHandedOut == onRecord = Len(walk.taken)

=============================================================================
