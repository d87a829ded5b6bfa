--------------------------- MODULE RepositorySource ---------------------------
(***************************************************************************)
(* A repository collection of the local product.  A submission asks for    *)
(* one exact revision; its snapshot is taken from a checkout of the user   *)
(* (infrastructure/local_git_source.py), who goes on working in it, or     *)
(* from a private clone (remote_git_source.py); the snapshot is pushed     *)
(* into the pipeline, and its outcome recorded (application/collections.py,*)
(* infrastructure/sqlite_collections.py).                                  *)
(***************************************************************************)
EXTENDS Naturals, FiniteSets

CONSTANTS
  Revisions,
  Tree,         \* Tree[r]: the committed files of a revision, with their objects
  Indexes,      \* what the index of the checkout may hold
  Submissions,
  MaxEdits      \* bound: changes of the checkout

NoRevision == "NONE"

ASSUME SourceAssumption ==
  /\ NoRevision \notin Revisions
  /\ \A r \in Revisions : Tree[r] \in Indexes
  /\ \A index \in Indexes : index = [path \in DOMAIN index |-> index[path]]
  /\ MaxEdits \in Nat

VARIABLES
  checkout,   \* HEAD, the index, and the paths that are regular files with their mode
  taken,      \* taken[s]: how far a submission is, and what it has read
  command,    \* command[r]: was the push of a revision processed?
  recorded,   \* recorded[r]: the outcome that was recorded for its command
  edits

sourceVars == <<checkout, taken, command, recorded, edits>>

NothingTaken ==
  [at |-> "IDLE", revision |-> NoRevision, paths |-> {}, entries |-> << >>, content |-> << >>,
   outcome |-> NoRevision]

SourceInit ==
  /\ checkout \in {[head |-> r, index |-> Tree[r], regular |-> DOMAIN Tree[r]] : r \in Revisions}
  /\ taken = [s \in Submissions |-> NothingTaken]
  /\ command = [r \in Revisions |-> FALSE]
  /\ recorded = [r \in Revisions |-> NoRevision]
  /\ edits = 0
-----------------------------------------------------------------------------
(* The user's checkout.                                                    *)

Edit == edits < MaxEdits /\ edits' = edits + 1 /\ UNCHANGED <<taken, command, recorded>>

\* Another revision is checked out.
CheckOut(r) ==
  /\ Edit
  /\ checkout' = [head |-> r, index |-> Tree[r], regular |-> DOMAIN Tree[r]]
\* Changes are staged and not committed.
Stage(index) ==
  /\ Edit /\ index # checkout.index
  /\ checkout' = [checkout EXCEPT !.index = index, !.regular = DOMAIN index]
\* A file is removed, or is no longer a regular file.
Spoil(path) ==
  /\ Edit /\ path \in checkout.regular
  /\ checkout' = [checkout EXCEPT !.regular = @ \ {path}]
-----------------------------------------------------------------------------
(* The snapshot.  Each invocation of Git is a step; whatever a check does  *)
(* not find as it should be ends the submission.                           *)

Set(s, record) == taken' = [taken EXCEPT ![s] = record]
IsAt(s, at) == taken[s].at = at
OnlyTaken == UNCHANGED <<checkout, command, recorded, edits>>
Step(s, from, to, check) ==
  /\ IsAt(s, from)
  /\ Set(s, IF check THEN [taken[s] EXCEPT !.at = to] ELSE NothingTaken)
  /\ OnlyTaken

Submit(s, r) ==
  /\ IsAt(s, "IDLE")
  /\ Set(s, [NothingTaken EXCEPT !.at = "STATE", !.revision = r])
  /\ OnlyTaken

\* A clone is private: it has the revision, or the acquisition fails.
Clone(s, r) ==
  /\ IsAt(s, "IDLE")
  /\ Set(s, [NothingTaken EXCEPT !.at = "PUSH", !.revision = r, !.content = Tree[r]])
  /\ OnlyTaken

\* HEAD is the requested revision.
OnRevision(s) == checkout.head = taken[s].revision
GitState(s) == Step(s, "STATE", "PATHS", OnRevision(s))
TrackedPaths(s) ==
  /\ IsAt(s, "PATHS")
  /\ Set(s, [taken[s] EXCEPT !.at = "ENTRIES", !.paths = DOMAIN checkout.index])
  /\ OnlyTaken
TrackedEntries(s) ==
  /\ IsAt(s, "ENTRIES")
  /\ Set(s, [taken[s] EXCEPT !.at = "COMMITTED", !.entries = checkout.index])
  /\ OnlyTaken

\* The index has the paths that were listed, with the objects of the revision's tree.
\* Mistake: the paths are compared, and the objects are not.
SamePaths(s) == DOMAIN taken[s].entries = taken[s].paths /\ taken[s].paths = DOMAIN Tree[taken[s].revision]
Committed(s) == DOMAIN taken[s].entries = taken[s].paths /\ taken[s].entries = Tree[taken[s].revision]
CommittedIndex(s) == Step(s, "COMMITTED", "BLOBS", Committed(s))

\* The object of an entry is read by its name, and its file must be a regular one.
Missing(s) == taken[s].paths \ DOMAIN taken[s].content
ReadBlob(s) ==
  \E path \in Missing(s) :
    /\ IsAt(s, "BLOBS")
    /\ Set(s, IF path \in checkout.regular
              THEN [taken[s] EXCEPT !.content =
                      [p \in DOMAIN @ \cup {path} |-> taken[s].entries[p]]]
              ELSE NothingTaken)
    /\ OnlyTaken

\* At the end the index is what it was, and HEAD too.
SameEntries(s) ==
  /\ Missing(s) = {}
  /\ Step(s, "BLOBS", "STATE_AGAIN", checkout.index = taken[s].entries)
GitStateAgain(s) == Step(s, "STATE_AGAIN", "PUSH", OnRevision(s))

Snapshot(s) ==
  \/ GitState(s) \/ TrackedPaths(s) \/ TrackedEntries(s) \/ CommittedIndex(s)
  \/ ReadBlob(s) \/ SameEntries(s) \/ GitStateAgain(s)
-----------------------------------------------------------------------------
(* The collection.                                                         *)

\* The push has an event identity of its own: the first one is processed, another is a
\* duplicate.
Collect(s) ==
  LET r == taken[s].revision IN
  /\ IsAt(s, "PUSH")
  /\ command' = [command EXCEPT ![r] = TRUE]
  /\ Set(s, [taken[s] EXCEPT !.at = "STORED", !.outcome = IF command[r] THEN "DUPLICATE" ELSE "ACCEPTED"])
  /\ UNCHANGED <<checkout, recorded, edits>>

\* An outcome that is recorded is answered as it is; otherwise this one is recorded.
Stored(s) ==
  /\ IsAt(s, "STORED")
  /\ Set(s, IF recorded[taken[s].revision] # NoRevision THEN NothingTaken
            ELSE [taken[s] EXCEPT !.at = "RECORD"])
  /\ OnlyTaken
Record(s) ==
  /\ IsAt(s, "RECORD")
  /\ recorded' = [recorded EXCEPT ![taken[s].revision] = taken[s].outcome]
  /\ Set(s, NothingTaken)
  /\ UNCHANGED <<checkout, command, edits>>

SourceNext ==
  \/ \E r \in Revisions : CheckOut(r)
  \/ \E index \in Indexes : Stage(index)
  \/ \E path \in checkout.regular : Spoil(path)
  \/ \E s \in Submissions, r \in Revisions : Submit(s, r) \/ Clone(s, r)
  \/ \E s \in Submissions : Snapshot(s) \/ Collect(s) \/ Stored(s) \/ Record(s)
-----------------------------------------------------------------------------
(* Properties.                                                             *)

\* What is pushed for a revision is what that revision commits, whole and nothing else,
\* though HEAD, the index and the files change while they are read one after the other.
SnapshotIsTheRevision ==
  \A s \in Submissions : taken[s].at = "PUSH" => taken[s].content = Tree[taken[s].revision]
=============================================================================
