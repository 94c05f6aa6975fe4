---------------------------- MODULE AuditDigest ----------------------------
(***************************************************************************)
(* The audit digests (core/audit_digest): a system job, run every minute   *)
(* by every worker, cuts time into windows, and for each window that has   *)
(* settled logs a record of the audit rows in it and then stores the       *)
(* record as the cursor of the next run.  The log lines go to a store the  *)
(* database's administrators cannot rewrite; `verify_records` compares     *)
(* that store with the database.                                           *)
(*                                                                         *)
(* SHA-256 over a canonical form is modelled as collision free: the digest *)
(* of a scope's rows is the set of rows, the digest of a record is the     *)
(* record, so `previous` holds the previous record itself.  A row carries  *)
(* its transaction's START time and becomes visible when the transaction   *)
(* commits.  Scopes are the tenants and the platform table, each read in a *)
(* transaction of its own.                                                 *)
(***************************************************************************)
EXTENDS Naturals, FiniteSets

CONSTANTS
    Scopes,             \* tenants with an audit trail, and the platform's
    Digesters,          \* workers running the digest job
    Width, Settle,      \* AUDIT_DIGEST_WINDOW_SECONDS, _SETTLE_SECONDS
    Longest,            \* bound on a transaction that writes audit rows
    MaxWindows,         \* AUDIT_DIGEST_MAX_WINDOWS_PER_RUN
    MaxTime,            \* bound on the clock
    Agendas             \* [rows, workers, touches, lost, crashes]: the scope and time
                        \* of the rows written, the workers that run, and how many
                        \* changes are made past the append-only grants, log lines
                        \* lost on the way to the store, and runs cut short

VARIABLES
    agenda,     \* the agenda of this behaviour
    dbClock,    \* the database clock
    openRows,   \* rows inserted by transactions still open
    trail,      \* committed rows of both audit tables
    cursor,     \* core.audit_digests: the stored records
    lines,      \* the records in the external store
    lost,       \* lines lost on the way there
    touches,    \* changes made by the tables' owner
    crashes,    \* runs cut short
    digester    \* each worker's run

digestVars == <<agenda, dbClock, openRows, trail, cursor, lines, lost, touches, crashes, digester>>

(* A record that may be missing is a set of at most one record. *)
None == {}

NoRun == [at |-> "idle", clock |-> 0, last |-> None, start |-> 0, count |-> 0,
          got |-> [s \in {} |-> {}], next |-> 0, previous |-> None]

FloorToWindow(t) == (t \div Width) * Width

RowsIn(rows, s, start) ==
    {r \in rows : r.scope = s /\ r.at >= start /\ r.at < start + Width}

DigestInit ==
    /\ agenda \in Agendas
    /\ dbClock = 0
    /\ openRows = {}
    /\ trail = {}
    /\ cursor = {}
    /\ lines = {}
    /\ lost = 0
    /\ touches = 0
    /\ crashes = 0
    /\ digester = [w \in Digesters |-> NoRun]

----------------------------------------------------------------------------
(* Writers.  Time passes only while no writer is past the longest          *)
(* transaction the settle time is chosen for.                              *)

Tick ==
    /\ dbClock < MaxTime
    /\ \A r \in openRows : dbClock + 1 <= r.at + Longest
    /\ dbClock' = dbClock + 1
    /\ UNCHANGED <<agenda, openRows, trail, cursor, lines, lost, touches, crashes, digester>>

BeginRow(r) ==
    /\ r.at = dbClock /\ r \notin openRows \cup trail
    /\ openRows' = openRows \cup {r}
    /\ UNCHANGED <<agenda, dbClock, trail, cursor, lines, lost, touches, crashes, digester>>

CommitRow(r) ==
    /\ openRows' = openRows \ {r}
    /\ trail' = trail \cup {r}
    /\ UNCHANGED <<agenda, dbClock, cursor, lines, lost, touches, crashes, digester>>

----------------------------------------------------------------------------
(* The job: digest_settled_windows.                                        *)

SettledAtEnd(start, clock) == start + Width <= clock

(* The window that starts here has settled by this clock. *)
Settled(start, clock) == start + Width + Settle <= clock

Newest == {c \in cursor : \A d \in cursor : d.start <= c.start}

(* _cursor: the clock and the last stored window, one transaction. *)
ReadCursor(w) ==
    /\ w \in agenda.workers /\ digester[w].at = "idle"
    /\ digester' = [digester EXCEPT ![w] =
          [NoRun EXCEPT !.at = "planning", !.clock = dbClock,
                        !.last = Newest]]
    /\ UNCHANGED <<agenda, dbClock, openRows, trail, cursor, lines, lost, touches, crashes>>

Earliest(rows) == (CHOOSE r \in rows : \A q \in rows : r.at <= q.at).at

(* Where the run starts: after the last stored window, or at the window of *)
(* the oldest audit row. *)
FirstStart(d) ==
    IF d.last # None THEN (CHOOSE c \in d.last : TRUE).start + Width
    ELSE FloorToWindow(IF trail = {} THEN d.clock ELSE Earliest(trail))

(* How many windows from here have settled, at most MaxWindows. *)
SettledWindows(start, clock) ==
    Cardinality({k \in 1..MaxWindows : Settled(start + (k - 1) * Width, clock)})

(* A logged line reaches the store, or is lost on the way. *)
Deliver(records) ==
    \/ lines' = lines \cup records /\ UNCHANGED lost
    \/ records # None /\ lost < agenda.lost /\ lost' = lost + 1 /\ UNCHANGED lines

(* The starts are chosen; a run that has windows to digest logs the record *)
(* it chains from once more. *)
Plan(w) ==
    LET d == digester[w]
        start == FirstStart(d)
        count == SettledWindows(start, d.clock)
    IN /\ d.at = "planning"
       /\ IF count = 0
          THEN digester' = [digester EXCEPT ![w] = NoRun] /\ UNCHANGED <<lines, lost>>
          ELSE /\ digester' = [digester EXCEPT ![w] =
                     [d EXCEPT !.at = "reading", !.start = start, !.count = count,
                               !.next = start, !.previous = d.last]]
               /\ Deliver(d.last)
       /\ UNCHANGED <<agenda, dbClock, openRows, trail, cursor, touches, crashes>>

(* compute_windows: one scope's rows for the whole range. *)
ReadScope(w, s) ==
    LET d == digester[w]
        got == [q \in DOMAIN d.got \cup {s} |->
                  IF q = s THEN [k \in 1..d.count |-> RowsIn(trail, s, d.start + (k - 1) * Width)]
                  ELSE d.got[q]]
    IN /\ d.at = "reading" /\ s \notin DOMAIN d.got
       /\ digester' = [digester EXCEPT ![w] =
             [d EXCEPT !.got = got,
                       !.at = IF DOMAIN got = Scopes THEN "logging" ELSE "reading"]]
       /\ UNCHANGED <<agenda, dbClock, openRows, trail, cursor, lines, lost, touches, crashes>>

(* build_record: the window, each scope's rows, and the previous record. *)
BuildRecord(d) ==
    [start |-> d.next,
     rows |-> [s \in Scopes |-> d.got[s][((d.next - d.start) \div Width) + 1]],
     previous |-> d.previous]

LogFirstOnly(w) ==
    /\ digester[w].at = "logging"
    /\ Deliver(IF digester[w].next = digester[w].start THEN {BuildRecord(digester[w])} ELSE {})
    /\ digester' = [digester EXCEPT ![w].at = "storing"]
    /\ UNCHANGED <<agenda, dbClock, openRows, trail, cursor, touches, crashes>>

(* emit_record: the line is written before the record is stored. *)
LogRecord(w) ==
    /\ digester[w].at = "logging"
    /\ Deliver({BuildRecord(digester[w])})
    /\ digester' = [digester EXCEPT ![w].at = "storing"]
    /\ UNCHANGED <<agenda, dbClock, openRows, trail, cursor, touches, crashes>>

(* The loop moves on to the next window, or ends. *)
NextWindow(d, record) ==
    IF d.next + Width = d.start + d.count * Width THEN NoRun
    ELSE [d EXCEPT !.at = "logging", !.next = @ + Width, !.previous = {record}]

(* _store: the window's primary key admits one record; a run that finds    *)
(* the window stored by another stops. *)
StoreRecord(w) ==
    LET d == digester[w]
        record == BuildRecord(d)
    IN /\ d.at = "storing"
       /\ IF \E c \in cursor : c.start = d.next
          THEN digester' = [digester EXCEPT ![w] = NoRun] /\ UNCHANGED cursor
          ELSE /\ cursor' = cursor \cup {record}
               /\ digester' = [digester EXCEPT ![w] = NextWindow(d, record)]
       /\ UNCHANGED <<agenda, dbClock, openRows, trail, lines, lost, touches, crashes>>

CrashDigester(w) ==
    /\ digester[w].at # "idle" /\ crashes < agenda.crashes
    /\ crashes' = crashes + 1
    /\ digester' = [digester EXCEPT ![w] = NoRun]
    /\ UNCHANGED <<agenda, dbClock, openRows, trail, cursor, lines, lost, touches>>

----------------------------------------------------------------------------
(* What the owner of the tables can still do: the append-only grants do    *)
(* not bind the migrations role.  These are the changes the digests are    *)
(* there to reveal, and the loss of the cursor the ADR calls harmless.     *)

Touch ==
    /\ touches < agenda.touches
    /\ touches' = touches + 1
    /\ UNCHANGED <<agenda, dbClock, openRows, lines, lost, crashes, digester>>

ChangeRow(r) ==
    /\ Touch
    /\ trail' = (trail \ {r}) \cup {[r EXCEPT !.body = 1]}
    /\ UNCHANGED cursor

DeleteRow(r) == Touch /\ trail' = trail \ {r} /\ UNCHANGED cursor

MoveRow(r, t) ==
    /\ Touch
    /\ trail' = (trail \ {r}) \cup {[r EXCEPT !.at = t]}
    /\ UNCHANGED cursor

DeleteStored(c) == Touch /\ cursor' = cursor \ {c} /\ UNCHANGED trail

DigestNext ==
    \/ Tick
    \/ \E r \in agenda.rows : BeginRow(r)
    \/ \E r \in openRows : CommitRow(r)
    \/ \E w \in Digesters :
          \/ ReadCursor(w)
          \/ Plan(w)
          \/ \E s \in Scopes : ReadScope(w, s)
          \/ LogRecord(w)
          \/ StoreRecord(w)
          \/ CrashDigester(w)
    \/ \E r \in trail :
          \/ ChangeRow(r)
          \/ DeleteRow(r)
          \/ \E t \in {u \in 0..dbClock : u % Width = 0} : MoveRow(r, t)
    \/ \E c \in cursor : DeleteStored(c)

DigestSpec == DigestInit /\ [][DigestNext]_digestVars

----------------------------------------------------------------------------
(* verify_records over the lines the store holds.                          *)

ConflictingNever == {}

(* Two different records for one window. *)
Conflicting == {l \in lines : \E m \in lines : m.start = l.start /\ m # l}

(* One record per window, the first in digest order. *)
ChainRecords ==
    {CHOOSE l \in lines : l.start = t : t \in {l.start : l \in lines}}

Prior(l) ==
    LET before == {m \in ChainRecords : m.start < l.start}
    IN {m \in before : \A n \in before : n.start <= m.start}

(* _check_chain. *)
ChainFindings ==
    {"conflicting_records" : l \in Conflicting}
    \cup {"chain_start_missing" : l \in {m \in ChainRecords : Prior(m) = None /\ m.previous # None}}
    \cup {"gap" : l \in {m \in ChainRecords : \E p \in Prior(m) : p.start + Width # m.start}}
    \cup {IF l.previous = None THEN "chain_restarted" ELSE "chain_broken" :
             l \in {m \in ChainRecords : Prior(m) # None /\ m.previous # Prior(m)}}

(* _compare: the window's rows, read again now. *)
RowFindings ==
    {"rows_changed" : l \in {m \in ChainRecords :
                               \E s \in Scopes : m.rows[s] # RowsIn(trail, s, m.start)}}

SettledUntil == IF dbClock < Settle THEN 0 ELSE FloorToWindow(dbClock - Settle)

(* _check_coverage: rows before the first record, and in settled windows   *)
(* after the last. *)
CoverageFindings ==
    {"rows_before_coverage" : r \in {q \in trail : \A l \in ChainRecords : q.at < l.start}}
    \cup {"rows_after_coverage" : r \in {q \in trail :
             q.at < SettledUntil /\ \A l \in ChainRecords : q.at >= l.start + Width}}

Findings ==
    IF lines = {} THEN {"no_records"}
    ELSE ChainFindings \cup RowFindings \cup CoverageFindings

DigestTypeOK ==
    /\ dbClock \in 0..MaxTime
    /\ lost \in 0..agenda.lost /\ touches \in 0..agenda.touches
    /\ \A w \in Digesters : digester[w].at \in {"idle", "planning", "reading", "logging", "storing"}

(* As long as nobody has touched the tables and no line was lost, an       *)
(* export verifies: whatever workers run at once, overtake one another or  *)
(* crash between logging and storing, the verifier reports nothing but     *)
(* settled windows not digested yet.                                       *)
HonestTrailVerifies ==
    (touches = 0 /\ lost = 0 /\ lines # {}) => Findings \subseteq {"rows_after_coverage"}

(* Every window whose record reached the store and whose rows are now      *)
(* others is reported, also when the cursor was deleted so that the job    *)
(* recomputed and logged the altered window as if it were the original.    *)
ChangeIsReported ==
    (\E l \in lines : \E s \in Scopes : l.rows[s] # RowsIn(trail, s, l.start)) => Findings # {}

(* The log line is the evidence: a record in core.audit_digests was        *)
(* logged, so that a crash between the two steps never leaves a window the *)
(* next run skips without a line.                                          *)
StoredWasLogged == Cardinality(cursor \ lines) <= lost

(* digest_settled_windows: "every record is logged at least twice, a       *)
(* window apart, and one line lost on its way to the store is not a gap".  *)
OneLostLineIsNoGap ==
    (touches = 0 /\ lost <= 1) => Findings \cap {"gap", "chain_start_missing"} = {}
=============================================================================
