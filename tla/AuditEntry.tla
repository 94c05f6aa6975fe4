------------------------------ MODULE AuditEntry ------------------------------
(***************************************************************************)
(* What an audit row may say of who acted (core/audit_log, core/authority).*)
(* Three functions write rows: record() takes the actor's columns,          *)
(* record_in_transaction() a caller, record_system_action_in_transaction()  *)
(* a system actor.  All three pass the same validation, rebuild whatever    *)
(* the metadata says of an initiator, a correlation or a system actor, at   *)
(* any depth and under any spelling, and insert one row, which the table's  *)
(* own constraints accept or refuse.  A state is one call and the row it    *)
(* wrote.                                                                   *)
(***************************************************************************)
EXTENDS Integers, FiniteSets

CONSTANT AuditCalls       \* the calls that are made

VARIABLES auditCall,      \* the call, at most one
          auditRow        \* the row it inserted, at most one

auditVars == <<auditCall, auditRow>>

-----------------------------------------------------------------------------
(* A value inside metadata.  "-" is an absent field; "plain" says that every
   field and part is a str itself, "extra" that there is a field more.      *)

NoValue ==
    [form |-> "null", plain |-> TRUE, type |-> "-", user_id |-> "-", service_account_id |-> "-",
     kind |-> "-", name |-> "-", record_type |-> "-", record_id |-> "-",
     arq_job_id |-> "-", outbox_event_id |-> "-", request_id |-> "-", extra |-> FALSE]

Dict == [NoValue EXCEPT !.form = "dict"]
Unavailable == [NoValue EXCEPT !.form = "unavailable"]
Scalar(text) == [NoValue EXCEPT !.form = "scalar", !.name = text]

ValueFields == {"type", "user_id", "service_account_id", "kind", "name", "record_type", "record_id",
                "arq_job_id", "outbox_event_id", "request_id"}

FieldsOf(v) ==
    {f \in ValueFields : v[f] # "-"} \cup (IF v.extra THEN {"extra"} ELSE {})

-----------------------------------------------------------------------------
(* Actors, initiators and correlations, and their construction rules.       *)

NoActor == [kind |-> "-", name |-> "-"]

\* A component has a known kind and a lower-case name that embeds no id.
ValidSystemActor(a) == a.kind = "known" /\ a.name = "component"

NoInitiator ==
    [type |-> "-", principal |-> "-", actor |-> NoActor, record_type |-> "-", record_id |-> "-"]

\* A record's type names a record, never a credential or a principal.
ValidRecord(i) ==
    /\ (i.record_type = "-") = (i.record_id = "-")
    /\ i.record_type \in {"-", "record"}
    /\ i.record_id \in {"-", "uuid", "opaque"}

ValidInitiator(i) ==
    \/ /\ i.type = "system" /\ i.principal = "-"
       /\ ValidSystemActor(i.actor) /\ ValidRecord(i)
    \/ /\ i.type \in {"user", "service_account"} /\ i.principal = "uuid"
       /\ i.actor = NoActor /\ i.record_type = "-" /\ i.record_id = "-"

NoCorrelation == [arq_job_id |-> "-", outbox_event_id |-> "-", request_id |-> "-"]

\* An id that correlates an execution never names a principal or holds a credential.
ValidCorrelationId(id) == id \in {"-", "opaque"}

ValidCorrelation(c) ==
    /\ ValidCorrelationId(c.arq_job_id) /\ ValidCorrelationId(c.request_id)
    /\ c.outbox_event_id \in {"-", "uuid"}

ActorAsMetadata(a) == [Dict EXCEPT !.kind = a.kind, !.name = a.name]

AsMetadataWithoutRecord(i) ==
    IF i.type = "user" THEN [Dict EXCEPT !.type = "user", !.user_id = i.principal]
    ELSE IF i.type = "service_account"
    THEN [Dict EXCEPT !.type = "service_account", !.service_account_id = i.principal]
    ELSE [Dict EXCEPT !.type = "system", !.kind = i.actor.kind, !.name = i.actor.name]

AsMetadata(i) ==
    IF i.type = "user" THEN [Dict EXCEPT !.type = "user", !.user_id = i.principal]
    ELSE IF i.type = "service_account"
    THEN [Dict EXCEPT !.type = "service_account", !.service_account_id = i.principal]
    ELSE [Dict EXCEPT !.type = "system", !.kind = i.actor.kind, !.name = i.actor.name,
                      !.record_type = i.record_type, !.record_id = i.record_id]

CorrelationAsMetadata(c) ==
    [Dict EXCEPT !.arq_job_id = c.arq_job_id, !.outbox_event_id = c.outbox_event_id,
                 !.request_id = c.request_id]

\* The initiator a recorded shape parses to; none when it is refused.
FromMetadata(v) ==
    LET i == [type |-> v.type,
              principal |-> IF v.type = "user" THEN v.user_id ELSE v.service_account_id,
              actor |-> [kind |-> v.kind, name |-> v.name],
              record_type |-> v.record_type, record_id |-> v.record_id]
        fields == CASE v.type = "user" -> {"type", "user_id"}
                    [] v.type = "service_account" -> {"type", "service_account_id"}
                    [] OTHER -> {"type", "kind", "name"}
    IN {j \in {i} : /\ v.form = "dict" /\ fields \subseteq FieldsOf(v)
                    /\ FieldsOf(v) \subseteq
                         fields \cup (IF v.type = "system" THEN {"record_type", "record_id"} ELSE {})
                    /\ ValidInitiator(j)}

-----------------------------------------------------------------------------
(* Metadata: a set of items.  An item is at the top or nested inside
   ordinary values; its key is an attribution key or another, spelled
   exactly or in a variant that normalises to the same key.                *)

NoMetadata == [given |-> FALSE, items |-> {}, size |-> "ok"]

Item(depth, slot, exact, value) == [depth |-> depth, slot |-> slot, exact |-> exact, value |-> value]

AttributionSlots == {"initiated_by", "correlation", "system_actor"}

AuditInitiatorTypes == {"service_account", "system"}

RebuiltInitiatorAnyType(v) ==
    IF v.form \in {"null", "unavailable"} THEN {v}
    ELSE IF ~v.plain THEN {}
    ELSE {w \in {AsMetadata(i) : i \in FromMetadata(v)} : w = v}

\* An initiator in metadata is unavailable, or exactly what a service account or
\* a system initiator records.
RebuiltInitiator(v) ==
    IF v.form \in {"null", "unavailable"} THEN {v}
    ELSE IF ~v.plain THEN {}
    ELSE {w \in {AsMetadata(i) : i \in {j \in FromMetadata(v) : j.type \in AuditInitiatorTypes}} : w = v}

RebuiltCorrelation(v) ==
    IF v.form = "null" THEN {v}
    ELSE LET c == [arq_job_id |-> v.arq_job_id, outbox_event_id |-> v.outbox_event_id,
                   request_id |-> v.request_id]
         IN {w \in {CorrelationAsMetadata(c)} : v.plain /\ ValidCorrelation(c) /\ w = v}

RebuiltSystemActor(v) ==
    IF v.form = "null" THEN {v}
    ELSE LET a == [kind |-> v.kind, name |-> v.name]
         IN {w \in {ActorAsMetadata(a)} : v.plain /\ ValidSystemActor(a) /\ w = v}

\* Only an exactly spelled key: what a plain dictionary lookup would find.
AttributionKeyExact(item) ==
    IF item.slot \in AttributionSlots /\ item.exact THEN item.slot ELSE "none"

\* The attribution key an item's key stands for, whatever its spelling.
AttributionKey(item) ==
    IF item.slot \in AttributionSlots THEN item.slot ELSE "none"

RebuiltValues(item) ==
    CASE AttributionKey(item) = "initiated_by" -> RebuiltInitiator(item.value)
      [] AttributionKey(item) = "correlation" -> RebuiltCorrelation(item.value)
      [] AttributionKey(item) = "system_actor" -> RebuiltSystemActor(item.value)
      [] OTHER -> {item.value}

\* A key that names a credential, at whatever depth.
CredentialKey(item) == item.slot = "forbidden"

\* JSON, at most 8192 bytes, and no key that names a credential at any depth.
ValidMetadata(meta) ==
    meta.size = "ok" /\ \A item \in meta.items : ~CredentialKey(item)

\* What is stored: every attribution value rebuilt from its validated parts;
\* refused (no metadata) when one of them does not pass.
TrustedMetadata(meta) ==
    IF ~meta.given THEN {meta}
    ELSE IF \A item \in meta.items : RebuiltValues(item) # {}
    THEN {m \in {[meta EXCEPT !.items =
                    {[item EXCEPT !.value = CHOOSE v \in RebuiltValues(item) : TRUE] : item \in @}]} :
            ValidMetadata(meta) /\ ValidMetadata(m)}
    ELSE {}

RefusedKeys(fn) ==
    AttributionSlots \cup (IF fn \in {"system_action", "job"} THEN {"system_authority"} ELSE {})

ReservedExactOnly(meta, fn) ==
    \E item \in meta.items : item.depth = "top" /\ item.exact /\ item.slot \in RefusedKeys(fn)

\* A caller's metadata never holds a reserved key at its top, in any spelling.
Reserved(meta, fn) ==
    \E item \in meta.items : item.depth = "top" /\ item.slot \in RefusedKeys(fn)

\* { **metadata, **more }: an exactly spelled top-level key is replaced.
Merged(meta, more) ==
    [meta EXCEPT !.given = TRUE,
                 !.items = {item \in @ : ~\E new \in more : /\ item.depth = "top" /\ item.exact
                                                           /\ item.slot = new.slot} \cup more]

-----------------------------------------------------------------------------
(* A call.  actor: the system actor given, as a set of at most one; likewise
   initiated (an Initiator) and correlation.  A value of these that does not
   pass its construction rules is one that was built around them.          *)

NoAuditCall ==
    [fn |-> "record", actor_type |-> "user", user |-> "u", account |-> "-", authority |-> "-",
     actor |-> {}, initiated |-> {}, correlation |-> {}, grant |-> FALSE, support |-> FALSE,
     outcome |-> "success", text |-> "ok", meta |-> NoMetadata]

\* The attribution parts pass their own construction rules again, and no user is an initiator.
AttributionTypes(c) ==
    /\ \A i \in c.initiated : ValidInitiator(i) /\ i.type \in AuditInitiatorTypes
    /\ \A k \in c.correlation : ValidCorrelation(k)

\* What the metadata of a system row says besides: who acted, for whom, in which execution.
Attribution(c) ==
    {Item("top", "system_actor", TRUE, ActorAsMetadata(a)) : a \in c.actor}
    \cup {Item("top", "initiated_by", TRUE,
               IF c.initiated = {} THEN Unavailable ELSE AsMetadata(CHOOSE i \in c.initiated : TRUE)),
          Item("top", "correlation", TRUE,
               IF c.correlation = {} THEN Dict
               ELSE CorrelationAsMetadata(CHOOSE k \in c.correlation : TRUE))}

Authority(c) == {Item("top", "system_authority", TRUE, Scalar(c.authority))}

ValidActorUnpaired(c) ==
    CASE c.actor_type = "user" -> c.user # "-"
      [] c.actor_type = "system" -> c.user = "-" /\ c.account = "-"
      [] c.actor_type = "service_account" -> c.account # "-"

\* One kind of actor, and the id of exactly that kind.
ValidActor(c) ==
    CASE c.actor_type = "user" -> c.user # "-" /\ c.account = "-"
      [] c.actor_type = "system" -> c.user = "-" /\ c.account = "-"
      [] c.actor_type = "service_account" -> c.account # "-" /\ c.user = "-"

\* _validated_entry: the row, unless a rule refuses it.
ValidatedEntry(c, meta) ==
    {[actor_type |-> c.actor_type, user |-> c.user, account |-> c.account,
      grant |-> c.grant, support |-> c.support, outcome |-> c.outcome, meta |-> m] :
        m \in {t \in TrustedMetadata(meta) : /\ ValidActor(c)
                                             /\ ~(c.grant /\ c.support)
                                             /\ c.outcome \in {"success", "failure", "denied"}
                                             /\ c.text = "ok"}}

Record(c) ==
    IF Reserved(c.meta, c.fn) THEN {} ELSE ValidatedEntry(c, c.meta)

\* A system caller's row carries its purpose and, when it names an actor, the attribution;
\* a user or service account is its own initiator.
RecordInTransaction(c) ==
    LET system == c.actor_type = "system"
        attributed == c.actor # {} \/ c.initiated # {} \/ c.correlation # {}
        meta == IF system /\ attributed THEN Merged(c.meta, Attribution(c)) ELSE c.meta
    IN IF \/ Reserved(c.meta, c.fn) \/ ~AttributionTypes(c)
          \/ ~system /\ (c.initiated # {} \/ c.correlation # {})
          \/ \E a \in c.actor : ~ValidSystemActor(a)
       THEN {}
       ELSE ValidatedEntry(c, IF system THEN Merged(meta, Authority(c)) ELSE meta)

RecordSystemAction(c) ==
    IF \/ c.actor = {} \/ \E a \in c.actor : ~ValidSystemActor(a)
       \/ Reserved(c.meta, c.fn) \/ ~AttributionTypes(c)
    THEN {}
    ELSE ValidatedEntry(c, Merged(c.meta, Attribution(c)))

JobCorrelationAsGiven(k) == k

\* from_job_context: an id that is no valid correlation is left out, never an error.
JobCorrelation(k) ==
    LET valid(id) == IF ValidCorrelationId(id) THEN id ELSE "-"
    IN [arq_job_id |-> valid(k.arq_job_id), request_id |-> valid(k.request_id),
        outbox_event_id |-> IF k.outbox_event_id = "uuid" THEN "uuid" ELSE "-"]

\* A job handler's row: its actor, its execution and the initiator its context names.
RecordJob(c) ==
    RecordSystemAction([c EXCEPT !.correlation = {JobCorrelation(k) : k \in @}])

Entry(c) ==
    CASE c.fn = "record" -> Record(c)
      [] c.fn = "in_transaction" -> RecordInTransaction(c)
      [] c.fn = "system_action" -> RecordSystemAction(c)
      [] c.fn = "job" -> RecordJob(c)

-----------------------------------------------------------------------------
\* The table's foreign keys: the user exists, and the service account is one of the row's own
\* tenant.  The functions do not look: an insert that names another fails.
ReferencesHold(row) == row.user # "unknown" /\ row.account # "foreign"

\* The table's check constraints: actor and id pair up, one authorization story, bounded
\* metadata (a json column keeps the text it is given, so it is the text that was measured).
ChecksPass(row) ==
    /\ \/ row.actor_type = "user" /\ row.user # "-" /\ row.account = "-"
       \/ row.actor_type = "system" /\ row.user = "-" /\ row.account = "-"
       \/ row.actor_type = "service_account" /\ row.user = "-" /\ row.account # "-"
    /\ row.outcome \in {"success", "failure", "denied"}
    /\ row.meta.size = "ok"
    /\ ~(row.grant /\ row.support)

TableAccepts(row) == ReferencesHold(row) /\ ChecksPass(row)

AuditEntryInit == auditCall = {} /\ auditRow = {}

Write(c) ==
    /\ auditCall = {}
    /\ auditCall' = {c}
    /\ auditRow' = {row \in Entry(c) : TableAccepts(row)}

AuditEntryNext == \E c \in AuditCalls : Write(c)

AuditEntrySpec == AuditEntryInit /\ [][AuditEntryNext]_auditVars

-----------------------------------------------------------------------------
\* At most one call and at most one row.
AuditEntryTypeOK == Cardinality(auditCall) <= 1 /\ Cardinality(auditRow) <= Cardinality(auditCall)

\* Owner decision D2: no row names a user as an initiator, at any depth of its metadata and
\* under any spelling of the key; what it does say there is a recorded shape that parses.
NoUserInitiator ==
    \A row \in auditRow : \A item \in row.meta.items :
        item.slot = "initiated_by" =>
            \/ item.value.form \in {"null", "unavailable"}
            \/ \E i \in FromMetadata(item.value) : i.type # "user"

\* The row of a system action says once who acted, for whom and in which execution, and it
\* is what the call said: nothing in the caller's own metadata can stand beside it.
AttributionIsTheCallers ==
    \A row \in auditRow : \A c \in auditCall :
        c.actor # {} =>
            \A slot \in AttributionSlots :
                /\ Cardinality({item \in row.meta.items : item.depth = "top" /\ item.slot = slot}) = 1
                /\ slot = "system_actor" =>
                     \E item \in row.meta.items : item.slot = slot /\ {item.value} = {ActorAsMetadata(a) : a \in c.actor}

\* The initiator a row records parses back to the initiator the call gave.
InitiatorReadsBack ==
    \A row \in auditRow : \A c \in auditCall :
        c.fn # "record" /\ c.initiated # {} =>
            \E item \in row.meta.items :
                item.depth = "top" /\ item.slot = "initiated_by" /\ FromMetadata(item.value) = c.initiated

\* Whatever the functions accept passes the table's checks: the insert inside the caller's
\* transaction fails, and takes the caller's change with it, only when the actor it names is
\* not the tenant's (fk_audit_log_tenant_service_account) or does not exist.
TableTakesWhatPasses ==
    \A c \in auditCall : {row \in Entry(c) : ReferencesHold(row)} \subseteq auditRow

\* A job whose own actor and metadata are fine always gets its row: a job id or request id
\* that is no valid correlation is dropped instead of failing the handler.
JobRowIsWritten ==
    \A c \in auditCall :
        /\ c.fn = "job" /\ c.text = "ok" /\ ~c.meta.given
        /\ c.initiated = {} /\ \E a \in c.actor : ValidSystemActor(a)
        => auditRow # {}
=============================================================================
