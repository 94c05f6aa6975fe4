---------------------------- MODULE OutboxFailure ---------------------------
(***************************************************************************)
(* One failing execution of an outbox consumer, seen by the dispatcher     *)
(* (api/outbox_dispatcher.py): an exception may leave the external_effect()*)
(* block, the consumer then raises that exception, a part of it, or        *)
(* something else, and the dispatcher classifies what escaped.  Module     *)
(* Outbox takes the kind of outcome as given; here it is computed from the *)
(* exception.                                                              *)
(*                                                                         *)
(* Every function of the code flattens nested exception groups and asks    *)
(* only what the top-level exception is and what its leaves are, so an     *)
(* exception is a record of both: a single exception has one leaf.  A leaf *)
(* has an identity, the classes it is an instance of and, if it is an      *)
(* AmbiguousOutcomeError, the retry policy it declares.                    *)
(***************************************************************************)
EXTENDS Naturals, FiniteSets

Kinds == {"ambiguous", "permanent", "retry_after", "not_sent", "timeout"}
Policies == {"none", "retry_within", "at_least_once"}

\* errors.py: no class is both ambiguous and confirmed not sent; only an
\* ambiguous error declares a policy, and at most one.
IsLeaf(l) ==
  /\ l.kinds \subseteq Kinds /\ l.policy \in Policies
  /\ ~({"ambiguous", "not_sent"} \subseteq l.kinds)
  /\ l.policy # "none" => "ambiguous" \in l.kinds

\* No exception left the external_effect() block.
NoException == [group |-> FALSE, leaves |-> {}]

-----------------------------------------------------------------------------
(* Classification *)

\* isinstance(exc, kind) of the top-level exception.
IsA(exc, kind) == ~exc.group /\ \E l \in exc.leaves : kind \in l.kinds

\* Mutant of IsUnclassifiedTimeout: exception groups are not searched.
TopLevelTimeout(exc) ==
  ~exc.group /\ \E l \in exc.leaves : "timeout" \in l.kinds /\ "not_sent" \notin l.kinds

IsUnclassifiedTimeout(exc) ==
  \E l \in exc.leaves : "timeout" \in l.kinds /\ "not_sent" \notin l.kinds

AmbiguousMembers(exc) == {l \in exc.leaves : "ambiguous" \in l.kinds}

\* Mutant of AmbiguousOutcome: the most permissive policy of a group wins.
PermissiveOutcome(exc) ==
  LET members == AmbiguousMembers(exc)
      some(policy) == \E m \in members : m.policy = policy
  IN  IF IsA(exc, "ambiguous") THEN (CHOOSE l \in exc.leaves : TRUE).policy
      ELSE IF IsA(exc, "permanent") \/ IsA(exc, "retry_after") THEN "unambiguous"
      ELSE IF IsUnclassifiedTimeout(exc) THEN "none"
      ELSE IF members = {} THEN "unambiguous"
      ELSE IF some("at_least_once") THEN "at_least_once"
      ELSE IF some("retry_within") THEN "retry_within" ELSE "none"

\* _ambiguous_outcome(): the policy of the ambiguous outcome exc reports, or
\* "unambiguous"; the most conservative policy of a group wins.
AmbiguousOutcome(exc) ==
  LET members == AmbiguousMembers(exc)
      all(policy) == \A m \in members : m.policy = policy
  IN  IF IsA(exc, "ambiguous") THEN (CHOOSE l \in exc.leaves : TRUE).policy
      ELSE IF IsA(exc, "permanent") \/ IsA(exc, "retry_after") THEN "unambiguous"
      ELSE IF IsUnclassifiedTimeout(exc) THEN "none"
      ELSE IF members = {} THEN "unambiguous"
      ELSE IF all("at_least_once") THEN "at_least_once"
      ELSE IF all("retry_within") THEN "retry_within" ELSE "none"

EveryLeafConfirmedNotSent(exc) == \A l \in exc.leaves : "not_sent" \in l.kinds

EveryLeafAtLeastOnce(exc) ==
  \A l \in exc.leaves : "ambiguous" \in l.kinds /\ l.policy = "at_least_once"

\* Mutant of BlockGroupDeclaresOnlyAtLeastOnce: the siblings are not looked at.
SiblingsIgnored(exc, block) == TRUE

\* False when exc re-raises only the declaring part of a mixed group that left
\* the block.
BlockGroupDeclaresOnlyAtLeastOnce(exc, block) ==
  exc.leaves \cap block.leaves = {} \/ EveryLeafAtLeastOnce(block)

\* Mutant of IsAttestedNotSent: the class is enough, wherever it was raised.
AttestedByClass(exc, block) == EveryLeafConfirmedNotSent(exc)

\* _is_attested_not_sent(): every leaf confirmed, each of them left the block,
\* and nothing else left it with them.
IsAttestedNotSent(exc, block) ==
  /\ block.leaves # {}
  /\ EveryLeafConfirmedNotSent(exc) /\ EveryLeafConfirmedNotSent(block)
  /\ exc.leaves \subseteq block.leaves

\* _record_consumer_failure() up to the row transition it calls: the kind of
\* outcome module Outbox records.  marked: this execution wrote its marker.
Classify(exc, block, marked) ==
  LET policy == AmbiguousOutcome(exc)
      credited == EveryLeafAtLeastOnce(exc) /\ BlockGroupDeclaresOnlyAtLeastOnce(exc, block)
  IN  IF policy # "unambiguous"
      THEN IF policy = "none" \/ (marked /\ policy = "at_least_once" /\ ~credited)
           THEN "ambiguous" ELSE policy
      ELSE IF IsA(exc, "permanent") THEN "permanent"
      ELSE IF marked /\ EveryLeafConfirmedNotSent(exc)
      THEN IF IsAttestedNotSent(exc, block) THEN "attested" ELSE "not_sent"
      ELSE IF IsA(exc, "retry_after") THEN "deferred" ELSE "other"

\* Whether the transition of module Outbox for this kind lets the event run
\* again while it has attempts left.
RunsAgain(result, marked) ==
  IF marked THEN result \in {"at_least_once", "attested"}
  ELSE result \in {"at_least_once", "retry_within", "not_sent", "deferred", "other"}

-----------------------------------------------------------------------------
(* The execution *)

CONSTANTS Leaves,     \* the leaf exceptions a consumer can raise
          MaxLeaves   \* bound: leaves of one exception group

ASSUME LeavesAssumption ==
  /\ \A l \in Leaves : IsLeaf(l)
  /\ MaxLeaves \in Nat

VARIABLES marked,    \* this execution committed its started marker
          block,     \* what left the external_effect() block
          exc,       \* what escaped the consumer
          result     \* the kind of outcome recorded, or "none"

fvars == <<marked, block, exc, result>>

Exceptions ==
  {[group |-> FALSE, leaves |-> {l}] : l \in Leaves}
  \cup {[group |-> TRUE, leaves |-> S] :
          S \in {T \in SUBSET Leaves : T # {} /\ Cardinality(T) <= MaxLeaves}}

FailureInit ==
  marked = FALSE /\ block = NoException /\ exc = NoException /\ result = "none"

\* The consumer enters its external_effect() block and the marker commits.
Mark ==
  /\ ~marked /\ exc = NoException
  /\ marked' = TRUE
  /\ UNCHANGED <<block, exc, result>>

\* An exception leaves the block (block_failed()): with markers off too.
BlockFails(x) ==
  /\ block = NoException /\ exc = NoException
  /\ block' = x
  /\ UNCHANGED <<marked, exc, result>>

\* An exception escapes the consumer: the one that left the block, a part of
\* it, or another.
Escape(x) ==
  /\ exc = NoException
  /\ exc' = x
  /\ UNCHANGED <<marked, block, result>>

\* _record_consumer_failure().
RecordConsumerFailure ==
  /\ exc # NoException /\ result = "none"
  /\ result' = Classify(exc, block, marked)
  /\ UNCHANGED <<marked, block, exc>>

FailureNext ==
  \/ Mark \/ RecordConsumerFailure
  \/ \E x \in Exceptions : BlockFails(x) \/ Escape(x)

FailureSpec == FailureInit /\ [][FailureNext]_fvars

-----------------------------------------------------------------------------
(* Properties *)

\* A request that may have been sent: neither confirmed not sent nor declared
\* at_least_once by the exception that reports it.
MaybeSent(l) ==
  "not_sent" \notin l.kinds /\ ~("ambiguous" \in l.kinds /\ l.policy = "at_least_once")

\* "Two failures of a marked attempt are retried, and only these"
\* (outbox_dispatcher.py): if a marked attempt runs again, then nothing that
\* escaped the consumer, and nothing that left the block together with it, may
\* have been sent; re-raising only the harmless part of a group does not
\* launder its siblings.
MarkedRetryIsSafe ==
  result # "none" /\ marked /\ RunsAgain(result, marked) =>
    \A l \in exc.leaves \cup (IF exc.leaves \cap block.leaves = {} THEN {} ELSE block.leaves) :
      ~MaybeSent(l)

\* A credited attestation came out of the block: a fresh "not sent" raised
\* after it says nothing of the request the marker bracketed.
AttestedLeftTheBlock ==
  result = "attested" => block # NoException /\ exc.leaves \subseteq block.leaves

\* The most conservative member of a group decides (_ambiguous_outcome()): a
\* part of a group that runs again would run again on its own, so adding a
\* member never turns a dead letter into a retry.
GroupIsConservative ==
  result # "none" /\ exc.group /\ RunsAgain(result, marked) =>
    \A S \in SUBSET exc.leaves :
      S # {} => RunsAgain(Classify([group |-> TRUE, leaves |-> S], block, marked), marked)

\* An unclassified timeout or an ambiguous outcome without a policy is never
\* retried, wherever in a group it is; only the top-level exception's own
\* explicit class overrides a bare timeout.
AmbiguityNeverRetried ==
  result # "none"
    /\ (\E l \in exc.leaves : \/ "ambiguous" \in l.kinds /\ l.policy = "none"
                              \/ "timeout" \in l.kinds /\ l.kinds \cap {"not_sent", "ambiguous"} = {})
    /\ ~IsA(exc, "retry_after")
    => ~RunsAgain(result, marked)

\* What the dispatcher's classification promises (outbox_dispatcher.py): whatever escapes the consumer
\* and whatever left its external_effect() block, alone or in groups, a marked event runs again only if
\* nothing may have been sent, on an attestation of that very block, as the most conservative member
\* of a group allows, and no event on an ambiguity without a policy.  Any other exception of an
\* unmarked attempt is retried: the code does not take it for ambiguous.
RetriesOnlyWhatIsSafe ==
  MarkedRetryIsSafe /\ AttestedLeftTheBlock /\ GroupIsConservative /\ AmbiguityNeverRetried

=============================================================================
