------------------------------ MODULE Updater ------------------------------
(***************************************************************************)
(* saas-os-update (infra/update): each command analyzes a consumer and a   *)
(* candidate revision, and an update of a SAFE candidate re-verifies what  *)
(* it analyzed, rewrites the pin, validates, and accepts or rolls back.    *)
(* Developers edit and commit in the same working tree, and the candidate  *)
(* ref moves, between any two of its reads.                                *)
(*                                                                         *)
(* The pin file is its pinned revision and the version of its other text.  *)
(***************************************************************************)
EXTENDS Integers, FiniteSets

CONSTANTS
    Commands,       \* the running saas-os-update commands
    Revisions,      \* commits of the SaaS-OS source
    Ahead,          \* pairs <<a, b>>: b descends from a (git merge-base --is-ancestor)
    Automatic,      \* pairs <<a, b>> whose changed paths are all in automatic categories
    Outings         \* what may happen in a behaviour

VARIABLES
    outing,     \* the commands that run and the edits developers may still make
    tree,       \* the consumer's working tree
    headCommit, \* what its HEAD records
    ref,        \* the revision the candidate ref names
    command     \* command -> its Analysis and where it is

updaterVars == <<outing, tree, headCommit, ref, command>>

\* ready: validation is configured, the pin file is a regular file and no lock
\* file records the pin.
Outing(running, ready, edits) == [running |-> running, ready |-> ready, edits |-> edits]

\* pyproject.toml's pin and text, a tracked file besides it, and untracked files.
Tree(pin, text, other, stray) == [file |-> [pin |-> pin, text |-> text], other |-> other,
                                  stray |-> stray]

NewCommand == [at |-> "head", head |-> 0, pin |-> 0, digest |-> [pin |-> 0, text |-> 0],
               candidate |-> 0, decision |-> "safe", outcome |-> "not_applied",
               original |-> [pin |-> 0, text |-> 0], wrote |-> FALSE, checked |-> "none"]

Become(c, r) == command' = [command EXCEPT ![c] = r]

TreeRests == UNCHANGED <<outing, tree, headCommit, ref>>

------------------------------------------------------------------------------
(* What git reports.                                                        *)

\* git.tracked_changes: tracked paths that differ from HEAD.
TrackedChanges ==
    {f \in {"pin file", "other"} :
        IF f = "pin file" THEN tree.file # headCommit.file ELSE tree.other # headCommit.other}

\* git.working_tree_changes: those, and the untracked ones.
WorkingTreeChanges == TrackedChanges # {} \/ tree.stray

\* classify and requires_review over git.changed_paths.
RequiresReview(a, b) == <<a, b>> \notin Automatic

Severity(d) == CASE d = "safe" -> 0 [] d = "up_to_date" -> 0
                 [] d = "review_required" -> 1 [] d = "blocked" -> 2

\* Analysis.add: a decision only ever moves towards caution.
Add(r, d) ==
    IF Severity(d) > Severity(r.decision) \/ (d = "up_to_date" /\ r.decision = "safe")
    THEN [r EXCEPT !.decision = d] ELSE r

------------------------------------------------------------------------------
(* analyze.                                                                 *)

ReadHead(c) ==
    /\ c \in outing.running /\ command[c].at = "head"
    /\ Become(c, [command[c] EXCEPT !.at = "pin", !.head = headCommit.id])
    /\ TreeRests

FindPin(c) ==
    /\ command[c].at = "pin"
    /\ Become(c, [command[c] EXCEPT !.at = "digest", !.pin = tree.file.pin])
    /\ TreeRests

FileDigest(c) ==
    /\ command[c].at = "digest"
    /\ Become(c, [command[c] EXCEPT !.at = "resolve", !.digest = tree.file])
    /\ TreeRests

\* The candidate is resolved to an exact commit; the pinned one ends the analysis.
ResolveCandidate(c) ==
    /\ command[c].at = "resolve"
    /\ Become(c, IF ref = command[c].pin
                 THEN [Add(command[c], "up_to_date") EXCEPT !.at = "end", !.candidate = ref]
                 ELSE [command[c] EXCEPT !.at = "inspect", !.candidate = ref])
    /\ TreeRests

\* A downgrade, a diverged history or a changed path that needs review; then the
\* tree and what only applying needs.
Inspect(c) ==
    /\ command[c].at = "inspect"
    /\ LET r == command[c]
           history == IF <<r.pin, r.candidate>> \in Ahead THEN r ELSE Add(r, "review_required")
           paths == IF RequiresReview(r.pin, r.candidate) THEN Add(history, "review_required")
                    ELSE history
           clean == IF WorkingTreeChanges THEN Add(paths, "review_required") ELSE paths
           ready == IF outing.ready THEN clean ELSE Add(clean, "blocked")
       IN Become(c, [ready EXCEPT !.at = IF ready.decision = "safe" THEN "stale ref" ELSE "end"])
    /\ TreeRests

------------------------------------------------------------------------------
(* update.                                                                  *)

\* One condition of _stale: it still holds, or the update is blocked.
StillHolds(c, here, condition, next) ==
    /\ command[c].at = here
    /\ Become(c, IF condition THEN [command[c] EXCEPT !.at = next]
                 ELSE [Add(command[c], "blocked") EXCEPT !.at = "end"])
    /\ TreeRests

StaleRef(c) == StillHolds(c, "stale ref", ref = command[c].candidate, "stale head")

StaleHead(c) == StillHolds(c, "stale head", headCommit.id = command[c].head, "stale file")

StaleFile(c) == StillHolds(c, "stale file", tree.file = command[c].digest, "stale tree")

StaleTree(c) ==
    StillHolds(c, "stale tree", tree.file.pin = command[c].pin /\ ~WorkingTreeChanges, "read")

ReadsAnyBytes(c) == TRUE

\* write_pin: the bytes read must still hold the pin that was analyzed.
ReadsThePin(c) == tree.file.pin = command[c].pin

ReadOriginal(c) ==
    /\ command[c].at = "read"
    /\ Become(c, IF ReadsThePin(c) THEN [command[c] EXCEPT !.at = "write", !.original = tree.file]
                 ELSE [Add(command[c], "blocked") EXCEPT !.at = "end"])
    /\ TreeRests

\* The bytes read, with the candidate in place of the pin, replace the file.
WritePin(c) ==
    /\ command[c].at = "write"
    /\ tree' = [tree EXCEPT !.file = [command[c].original EXCEPT !.pin = command[c].candidate]]
    /\ Become(c, [command[c] EXCEPT !.at = "read back", !.wrote = TRUE])
    /\ UNCHANGED <<outing, headCommit, ref>>

Fails(c) == [Add(command[c], "blocked") EXCEPT !.at = "restore"]

OnlyThePin == TrackedChanges = {"pin file"}

ReadBack(c) ==
    /\ command[c].at = "read back"
    /\ Become(c, IF tree.file.pin = command[c].candidate /\ OnlyThePin
                 THEN [command[c] EXCEPT !.at = "validate"] ELSE Fails(c))
    /\ TreeRests

TimeoutPasses(result) == result \in {"passed", "timed out"}

\* A check passes when it exits with zero; not when it fails, times out or cannot start.
Passes(result) == result = "passed"

\* The configured checks, which run against the working tree and may change it.
Validate(c, result, touches) ==
    /\ command[c].at = "validate"
    /\ tree' = IF touches THEN [tree EXCEPT !.other = @ + 1] ELSE tree
    /\ Become(c, IF Passes(result) THEN [command[c] EXCEPT !.at = "accept", !.checked = result]
                 ELSE [Fails(c) EXCEPT !.checked = result])
    /\ UNCHANGED <<outing, headCommit, ref>>

Accept(c) ==
    /\ command[c].at = "accept"
    /\ Become(c, IF OnlyThePin THEN [command[c] EXCEPT !.at = "end", !.outcome = "applied"]
                 ELSE Fails(c))
    /\ TreeRests

RestoreAnalyzed(c) == [pin |-> command[c].pin, text |-> 0]

\* restore writes back the bytes write_pin read.
RestoredFile(c) == command[c].original

\* An unexpected error ends in the same rollback; a restore that fails says so.
Restore(c) ==
    /\ command[c].at = "restore"
    /\ \/ /\ tree' = [tree EXCEPT !.file = RestoredFile(c)]
          /\ Become(c, [command[c] EXCEPT !.at = "end", !.outcome = "rolled_back"])
       \/ /\ UNCHANGED tree
          /\ Become(c, [command[c] EXCEPT !.at = "end", !.outcome = "rollback_failed"])
    /\ UNCHANGED <<outing, headCommit, ref>>

UnexpectedError(c) ==
    /\ command[c].at \in {"read back", "validate", "accept"}
    /\ Become(c, Fails(c))
    /\ TreeRests

\* The command is killed; nothing is rolled back.
Killed(c) ==
    /\ command[c].at \in {"read back", "validate", "accept", "restore"}
    /\ "kill" \in outing.edits
    /\ outing' = [outing EXCEPT !.edits = @ \ {"kill"}]
    /\ Become(c, [command[c] EXCEPT !.at = "killed"])
    /\ UNCHANGED <<tree, headCommit, ref>>

------------------------------------------------------------------------------
(* Developers and the source.                                               *)

Edit(e) == e \in outing.edits /\ outing' = [outing EXCEPT !.edits = @ \ {e}]

EditText == Edit("text") /\ tree' = [tree EXCEPT !.file.text = @ + 1]
            /\ UNCHANGED <<headCommit, ref, command>>

EditPin(p) == Edit("pin") /\ tree' = [tree EXCEPT !.file.pin = p]
              /\ UNCHANGED <<headCommit, ref, command>>

EditOther == Edit("other") /\ tree' = [tree EXCEPT !.other = @ + 1]
             /\ UNCHANGED <<headCommit, ref, command>>

CommitTree == Edit("commit")
              /\ headCommit' = [id |-> headCommit.id + 1, file |-> tree.file, other |-> tree.other]
              /\ UNCHANGED <<tree, ref, command>>

MoveRef(p) == Edit("ref") /\ ref' = p /\ UNCHANGED <<tree, headCommit, command>>

UpdaterInit ==
    /\ outing \in Outings
    /\ tree = Tree(1, 0, 0, FALSE)
    /\ headCommit = [id |-> 0, file |-> tree.file, other |-> 0]
    /\ ref = 2
    /\ command = [c \in Commands |-> NewCommand]

CommandStep(c) ==
    \/ ReadHead(c) \/ FindPin(c) \/ FileDigest(c) \/ ResolveCandidate(c) \/ Inspect(c)
    \/ StaleRef(c) \/ StaleHead(c) \/ StaleFile(c) \/ StaleTree(c) \/ ReadOriginal(c)
    \/ WritePin(c) \/ ReadBack(c) \/ Accept(c) \/ Restore(c) \/ UnexpectedError(c) \/ Killed(c)
    \/ \E result \in {"passed", "failed", "timed out"}, touches \in BOOLEAN :
          Validate(c, result, touches)

DeveloperStep ==
    \/ EditText \/ EditOther \/ CommitTree
    \/ \E p \in Revisions : EditPin(p) \/ MoveRef(p)

UpdaterNext == (\E c \in Commands : CommandStep(c)) \/ DeveloperStep

UpdaterSpec == UpdaterInit /\ [][UpdaterNext]_updaterVars

\* The values of the variables.
UpdaterTypeOK ==
    /\ tree.file.pin \in Revisions /\ ref \in Revisions
    /\ \A c \in Commands : command[c].outcome \in
           {"not_applied", "applied", "rolled_back", "rollback_failed"}

\* The revision a command writes was found safe for the pin it replaces: the
\* bytes it rewrites hold the revision its analysis started from, and the
\* candidate descends from it and changes no path that needs review.
WritesOnlyWhatWasSafe ==
    \A c \in Commands : command[c].wrote =>
        LET change == <<command[c].original.pin, command[c].candidate>>
        IN change \in Ahead /\ change \in Automatic

EndsUnchangedUnlessAppliedStep ==
    \A c \in Commands :
       (command'[c].at = "end" /\ command'[c].at # command[c].at
           /\ command'[c].outcome \in {"not_applied", "rolled_back"} /\ command[c].wrote) =>
       tree'.file = command[c].original

\* A command that ends without applying, and whose rollback did not fail, leaves
\* the pin it found: no early return and no failed check leaves the candidate in
\* the file.
EndsUnchangedUnlessApplied == [][EndsUnchangedUnlessAppliedStep]_updaterVars

AcceptedWasValidatedStep ==
    \A c \in Commands :
       (command'[c].outcome = "applied" /\ command[c].outcome # "applied") =>
       command[c].checked = "passed" /\ tree.other = headCommit.other

\* An accepted update was validated: its checks passed, the pin it wrote was read
\* back, and no tracked file besides the pin file differs.
AcceptedWasValidated == [][AcceptedWasValidatedStep]_updaterVars

\* Local work is never overwritten (docs/AUTO-UPDATE-CLI.md): what a developer
\* wrote in the pin file is still there after a step of the updater.
LocalWorkKept ==
    [][(\E c \in Commands : command'[c] # command[c]) =>
          tree'.file.text >= tree.file.text]_updaterVars
=============================================================================
