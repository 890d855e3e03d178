----------------------------- MODULE StoredFiles -----------------------------
(***************************************************************************)
(* Files of one organization and the rows that name them: media            *)
(* (app/api/media.py), configuration bundles                               *)
(* (app/api/configuration_bundles.py) and support bundles                  *)
(* (app/services/support_bundle.py), with the templates and jobs that      *)
(* refer to media.                                                         *)
(*                                                                         *)
(* The store and the database know nothing of each other.  Every call      *)
(* touches one, then the other, and may end between the two: its commit is *)
(* refused, an exception goes unhandled, or the process dies.  What a call *)
(* has not committed is in `call' alone.                                   *)
(*                                                                         *)
(* Validation and scanning of uploads come before any of this; downloads   *)
(* change nothing but the expiry they run.                                 *)
(***************************************************************************)
EXTENDS Naturals, FiniteSets

CONSTANTS
    Callers,    \* requests and workers at a time
    Media,      \* media files
    Bundles,    \* configuration bundles, exported or imported
    Supports,   \* support bundles
    Templates,
    Jobs,       \* deliveries
    Nothing

ASSUME StoredAssumption ==
    /\ Media \cap (Bundles \cup Supports) = {} /\ Bundles \cap Supports = {}
    /\ Templates \cap Jobs = {}
    /\ Nothing \notin Media \cup Bundles

VARIABLES
    files,     \* what the store has
    media,     \* media_assets
    bundles,   \* configuration_bundles
    support,   \* support_bundles: status, and whether the row has its storage_key
    overdue,   \* the support bundles whose expires_at has passed
    uses,      \* media_asset_id of templates and jobs
    call,      \* what each caller is doing
    lost       \* history: what the store or the database took while its caller was told
               \* otherwise

storedVars == <<files, media, bundles, support, overdue, uses, call, lost>>

SupportRow == [status: {"NONE", "READY", "FAILED", "EXPIRED", "DELETED"}, key: BOOLEAN]

Stage ==
    [op: {"idle"}]
      \cup [op: {"upload", "delete", "gone"}, item: Media]
      \cup [op: {"refer"}, item: Media, from: Templates \cup Jobs]
      \cup [op: {"export", "unlinked"}, item: Bundles]
      \cup [op: {"import"}, matched: SUBSET Media, written: SUBSET (Media \cup Bundles)]
      \cup [op: {"retention"}, ready: SUBSET Supports, deleted: SUBSET Supports]
      \cup [op: {"collected"}, ready: SUBSET Supports, deleted: SUBSET Supports,
            item: Supports, stored: BOOLEAN]
      \cup [op: {"erased"}, item: Supports]

NoRequest == [op |-> "idle"]

StoredInit ==
    /\ files = {} /\ media = {} /\ bundles = {} /\ overdue = {} /\ lost = {}
    /\ support = [s \in Supports |-> [status |-> "NONE", key |-> FALSE]]
    /\ uses = [x \in Templates \cup Jobs |-> Nothing]
    /\ call = [c \in Callers |-> NoRequest]

Doing(c, ops) == call[c].op \in ops
Becomes(c, stage) == call' = [call EXCEPT ![c] = stage]

\* A name in the store is made once (uuid4): no row, file or call has it.
New(i) ==
    /\ i \notin files \cup media \cup bundles
    /\ \A c \in Callers : Doing(c, {"import"}) => i \notin call[c].written
    /\ \A c \in Callers : Doing(c, {"upload", "delete", "gone", "export", "unlinked"}) =>
                             call[c].item # i

\* storage.delete may fail, and says so.
Removed(s) == files' \in {files \ s, files}

\* The commit is refused, nobody handles the exception, or the process dies.
GiveUp(c) ==
    /\ call[c] # NoRequest /\ Becomes(c, NoRequest)
    /\ UNCHANGED <<files, media, bundles, support, overdue, uses, lost>>

-----------------------------------------------------------------------------
(***************************************************************************)
(* Media, and what refers to it.                                           *)
(***************************************************************************)

Upload(c, i) ==
    /\ call[c] = NoRequest /\ New(i)
    /\ files' = files \cup {i}
    /\ Becomes(c, [op |-> "upload", item |-> i])
    /\ UNCHANGED <<media, bundles, support, overdue, uses, lost>>

UploadCommit(c) ==
    /\ Doing(c, {"upload"})
    /\ media' = media \cup {call[c].item}
    /\ Becomes(c, NoRequest)
    /\ UNCHANGED <<files, bundles, support, overdue, uses, lost>>

\* The handler of every exception deletes the file; but the row may have been committed
\* before, when the answer of the commit or the refresh after it is what failed.
UploadFails(c) ==
    /\ Doing(c, {"upload"})
    /\ Removed({call[c].item})
    /\ \/ UNCHANGED <<media, lost>>
       \/ media' = media \cup {call[c].item} /\ lost' = lost \cup {call[c].item}
    /\ Becomes(c, NoRequest)
    /\ UNCHANGED <<bundles, support, overdue, uses>>

Unused(i) == \A x \in Templates \cup Jobs : uses[x] # i

DeleteCheck(c, i) ==
    /\ call[c] = NoRequest /\ i \in media /\ Unused(i)
    /\ Becomes(c, [op |-> "delete", item |-> i])
    /\ UNCHANGED <<files, media, bundles, support, overdue, uses, lost>>

\* Mutant: the file goes before the row.
FileFirst(c) ==
    /\ Doing(c, {"delete"})
    /\ files' = files \ {call[c].item}
    /\ media' = IF Unused(call[c].item) THEN media \ {call[c].item} ELSE media
    /\ Becomes(c, NoRequest)
    /\ UNCHANGED <<bundles, support, overdue, uses, lost>>

\* The foreign keys refuse the row that somebody has begun to use since.
DeleteCommit(c) ==
    LET i == call[c].item IN
    /\ Doing(c, {"delete"}) /\ i \in media /\ Unused(i)
    /\ media' = media \ {i} /\ lost' = lost \ {i}
    /\ Becomes(c, [op |-> "gone", item |-> i])
    /\ UNCHANGED <<files, bundles, support, overdue, uses>>

DeleteFile(c) ==
    /\ Doing(c, {"gone"})
    /\ Removed({call[c].item})
    /\ Becomes(c, NoRequest)
    /\ UNCHANGED <<media, bundles, support, overdue, uses, lost>>

\* A template is created or changed with a medium; the scheduler copies the one of a
\* template to a job.
Refer(c, x, i) ==
    /\ call[c] = NoRequest /\ i \in media
    /\ x \in Jobs => uses[x] = Nothing /\ \E t \in Templates : uses[t] = i
    /\ Becomes(c, [op |-> "refer", item |-> i, from |-> x])
    /\ UNCHANGED <<files, media, bundles, support, overdue, uses, lost>>

ReferCommit(c) ==
    /\ Doing(c, {"refer"}) /\ call[c].item \in media
    /\ uses' = [uses EXCEPT ![call[c].from] = call[c].item]
    /\ Becomes(c, NoRequest)
    /\ UNCHANGED <<files, media, bundles, support, overdue, lost>>

\* A template is deleted, or is changed to have no medium.  One that campaigns use is only
\* turned off, and keeps its medium.
LetGo(t) ==
    /\ uses[t] # Nothing
    /\ uses' = [uses EXCEPT ![t] = Nothing]
    /\ UNCHANGED <<files, media, bundles, support, overdue, call, lost>>

-----------------------------------------------------------------------------
(***************************************************************************)
(* Configuration bundles.                                                  *)
(***************************************************************************)

\* The rows and files are read before; a failure after this leaves the file behind.
Export(c, b) ==
    /\ call[c] = NoRequest /\ New(b)
    /\ files' = files \cup {b}
    /\ Becomes(c, [op |-> "export", item |-> b])
    /\ UNCHANGED <<media, bundles, support, overdue, uses, lost>>

ExportCommit(c) ==
    /\ Doing(c, {"export"})
    /\ bundles' = bundles \cup {call[c].item}
    /\ Becomes(c, NoRequest)
    /\ UNCHANGED <<files, media, support, overdue, uses, lost>>

\* Media of the archive that the organization has are taken as they are.
ImportBegin(c, matched) ==
    /\ call[c] = NoRequest /\ matched \subseteq media
    /\ Becomes(c, [op |-> "import", matched |-> matched, written |-> {}])
    /\ UNCHANGED <<files, media, bundles, support, overdue, uses, lost>>

\* Another medium of the archive, and at the end the archive itself.
ImportFile(c, i) ==
    /\ Doing(c, {"import"}) /\ call[c].written \cap Bundles = {} /\ New(i)
    /\ files' = files \cup {i}
    /\ Becomes(c, [call[c] EXCEPT !.written = @ \cup {i}])
    /\ UNCHANGED <<media, bundles, support, overdue, uses, lost>>

\* What an exception within apply_bundle deletes again.
Undone(stage) == stage.written

ImportFails(c) ==
    /\ Doing(c, {"import"})
    /\ Removed(Undone(call[c]))
    /\ Becomes(c, NoRequest)
    /\ UNCHANGED <<media, bundles, support, overdue, uses, lost>>

\* The template that comes with a medium refers to it; had the medium been deleted
\* meanwhile, the database would refuse the import.
ImportCommit(c, t) ==
    LET stage == call[c] IN
    /\ Doing(c, {"import"}) /\ stage.written \cap Bundles # {}
    /\ media' = media \cup (stage.written \cap Media)
    /\ bundles' = bundles \cup (stage.written \cap Bundles)
    /\ stage.matched \subseteq media
    /\ \E i \in stage.matched \cup (stage.written \cap Media) \cup {Nothing} :
          uses' = IF i = Nothing \/ uses[t] # Nothing THEN uses ELSE [uses EXCEPT ![t] = i]
    /\ Becomes(c, NoRequest)
    /\ UNCHANGED <<files, support, overdue, lost>>

\* The file goes first: what is left when the commit fails is a row that answers 410.
DeleteBundle(c, b) ==
    /\ call[c] = NoRequest /\ b \in bundles
    /\ files' = files \ {b}
    /\ Becomes(c, [op |-> "unlinked", item |-> b])
    /\ UNCHANGED <<media, bundles, support, overdue, uses, lost>>

DeleteBundleCommit(c) ==
    /\ Doing(c, {"unlinked"})
    /\ bundles' = bundles \ {call[c].item}
    /\ Becomes(c, NoRequest)
    /\ UNCHANGED <<files, media, support, overdue, uses, lost>>

-----------------------------------------------------------------------------
(***************************************************************************)
(* Support bundles.                                                        *)
(***************************************************************************)

Kept(s) == support[s].status \in {"READY", "EXPIRED"} /\ support[s].key
Due == {s \in overdue : Kept(s)}

\* expire_support_bundles: by the worker's retention, a list, a download or a new bundle.
\* Each file is deleted or not; the rows follow with the transaction.
Expire(c) ==
    /\ call[c] = NoRequest /\ Due # {}
    /\ \E deleted \in SUBSET Due :
        /\ files' = files \ deleted
        /\ Becomes(c, [op |-> "retention", deleted |-> deleted,
                       ready |-> {s \in Due : support[s].status = "READY"}])
    /\ UNCHANGED <<media, bundles, support, overdue, uses, lost>>

\* The columns that the retention has changed: where the file could not be deleted, the row
\* keeps its key and is found again.
Expired(stage) ==
    [s \in Supports |->
        [status |-> IF s \in stage.ready THEN "EXPIRED" ELSE support[s].status,
         key |-> support[s].key /\ s \notin stage.deleted]]

ExpireCommit(c) ==
    /\ Doing(c, {"retention"})
    /\ support' = Expired(call[c])
    /\ Becomes(c, NoRequest)
    /\ UNCHANGED <<files, media, bundles, overdue, uses, lost>>

\* create_support_bundle goes on in the same transaction.  Any failure of it is recorded
\* as FAILED without a key, the one of a store that has taken the file included.
Collect(c, s) ==
    /\ call[c] = NoRequest \/ Doing(c, {"retention"})
    /\ Due = {} \/ Doing(c, {"retention"})
    /\ support[s].status = "NONE" /\ s \notin files
    /\ \A d \in Callers : Doing(d, {"collected"}) => call[d].item # s
    /\ \E stored, heard \in BOOLEAN :
        /\ files' = IF stored THEN files \cup {s} ELSE files
        /\ lost' = IF stored /\ ~heard THEN lost \cup {s} ELSE lost
        /\ Becomes(c, [op |-> "collected", item |-> s, stored |-> stored /\ heard,
                       ready |-> IF call[c] = NoRequest THEN {} ELSE call[c].ready,
                       deleted |-> IF call[c] = NoRequest THEN {} ELSE call[c].deleted])
    /\ UNCHANGED <<media, bundles, support, overdue, uses>>

CollectCommit(c) ==
    /\ Doing(c, {"collected"})
    /\ support' = [Expired(call[c]) EXCEPT ![call[c].item] =
                     [status |-> IF call[c].stored THEN "READY" ELSE "FAILED",
                      key |-> call[c].stored]]
    /\ Becomes(c, NoRequest)
    /\ UNCHANGED <<files, media, bundles, overdue, uses, lost>>

\* delete_support_bundle, which leaves the key to a row that nobody looks at again.
EraseFile(c, s) ==
    /\ call[c] = NoRequest /\ support[s].status # "NONE"
    /\ files' = IF support[s].key THEN files \ {s} ELSE files
    /\ Becomes(c, [op |-> "erased", item |-> s])
    /\ UNCHANGED <<media, bundles, support, overdue, uses, lost>>

EraseCommit(c) ==
    /\ Doing(c, {"erased"})
    /\ support' = [support EXCEPT ![call[c].item].status = "DELETED"]
    /\ Becomes(c, NoRequest)
    /\ UNCHANGED <<files, media, bundles, overdue, uses, lost>>

Age(s) ==
    /\ support[s].status = "READY" /\ s \notin overdue
    /\ overdue' = overdue \cup {s}
    /\ UNCHANGED <<files, media, bundles, support, uses, call, lost>>

-----------------------------------------------------------------------------
MediaCall(c) ==
    \/ UploadCommit(c) \/ UploadFails(c) \/ DeleteCommit(c) \/ DeleteFile(c)
    \/ ReferCommit(c)
    \/ \E i \in Media :
        \/ Upload(c, i) \/ DeleteCheck(c, i)
        \/ \E x \in Templates \cup Jobs : Refer(c, x, i)

BundleCall(c) ==
    \/ ExportCommit(c) \/ ImportFails(c) \/ DeleteBundleCommit(c)
    \/ \E b \in Bundles : Export(c, b) \/ DeleteBundle(c, b)
    \/ \E matched \in SUBSET Media : ImportBegin(c, matched)
    \/ \E i \in Media \cup Bundles : ImportFile(c, i)
    \/ \E t \in Templates : ImportCommit(c, t)

SupportCall(c) ==
    \/ Expire(c) \/ ExpireCommit(c) \/ CollectCommit(c) \/ EraseCommit(c)
    \/ \E s \in Supports : Collect(c, s) \/ EraseFile(c, s)

StoredNext ==
    \/ \E c \in Callers : MediaCall(c) \/ BundleCall(c) \/ SupportCall(c) \/ GiveUp(c)
    \/ \E t \in Templates : LetGo(t)
    \/ \E s \in Supports : Age(s)

StoredSpec == StoredInit /\ [][StoredNext]_storedVars

-----------------------------------------------------------------------------
(***************************************************************************)
(* Properties.                                                             *)
(***************************************************************************)

StoredTypeOK ==
    /\ files \subseteq Media \cup Bundles \cup Supports
    /\ media \subseteq Media /\ bundles \subseteq Bundles /\ overdue \subseteq Supports
    /\ support \in [Supports -> SupportRow]
    /\ uses \in [Templates \cup Jobs -> Media \cup {Nothing}]
    /\ call \in [Callers -> Stage]
    /\ lost \subseteq Media \cup Supports

\* Whatever uploads, deletions and imports do at the same time, and wherever they break
\* off, a medium that has its row has its file, unless the answer to its upload was lost
\* (app/api/media.py:227).
MediaHasItsFile == media \ lost \subseteq files

\* The file of a support bundle stays within the reach of the retention: deletions that
\* failed, were not committed, or met another one do not strand it
\* (app/services/support_bundle.py:414).
RetentionFindsIt ==
    \A s \in Supports :
        s \in files \ lost /\ support[s].status # "NONE" => Kept(s)

\* Rows and files stay together, though no transaction spans them: both of the above.
RowsKeepTheirFiles == MediaHasItsFile /\ RetentionFindsIt
=============================================================================
