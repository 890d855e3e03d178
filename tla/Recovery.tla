------------------------------ MODULE Recovery ------------------------------
(***************************************************************************)
(* Recovery assurance of one organization (app/services/recovery.py,       *)
(* app/api/recovery.py and the scripts that run them): backups, their      *)
(* verification, restore drills, the receipts of both, and the status      *)
(* that the rows of these add up to.                                       *)
(*                                                                         *)
(* A script writes files first and commits rows at its end; when it is     *)
(* killed, or its commit is refused, the files stay.  Receipts are signed  *)
(* by the organization's key when they are written and judged by what is   *)
(* known of the key when they are imported.  What a backup contains is     *)
(* taken from the rows and files of StoredFiles.                           *)
(***************************************************************************)
EXTENDS StoredFiles

CONSTANTS
    Tools,       \* scripts at a time
    Backups,
    Drills,
    Policies,    \* contents of the recovery policy
    Production,  \* is_production: what the policy must ask is forced
    SignAll,     \* artifact_signature_policy = require_trusted
    Isolated,    \* the database is one that a drill restores (SQLite)
    Rpo,         \* rpo_hours
    DrillAge,    \* restore_drill_max_age_days
    Retained,    \* minimum_retained_backups
    EvidenceLife,\* recovery_evidence_retention_days
    MaxHour      \* bound

PolicyContent == [enabled: BOOLEAN, encrypt: BOOLEAN, trust: BOOLEAN, drill: BOOLEAN]

ASSUME RecoveryAssumption ==
    /\ Policies \subseteq PolicyContent /\ Policies # {}
    /\ Production => SignAll /\ \A p \in Policies : p.enabled /\ p.encrypt /\ p.trust /\ p.drill
    /\ {Rpo, DrillAge, Retained, EvidenceLife, MaxHour} \subseteq Nat

VARIABLES
    recoveryPolicy,  \* recovery_policies
    signingKey,      \* the default key: trusted_for_import or not, or revoked
    hour,
    disk,       \* of each backup: plaintext archive, final archive, the claims of its receipt
    evidence,   \* recovery_backup_evidence
    drill,      \* recovery_restore_drills
    report,     \* the receipt files of drills
    tool,       \* what each script is doing
    proved      \* history: backups whose archive was found whole, in every check

recoveryVars ==
    <<recoveryPolicy, signingKey, hour, disk, evidence, drill, report, tool, proved>>

Archive == {"none", "open", "encrypted", "damaged"}
\* rows: the media in the dump; kept: those whose files were copied.
Content ==
    [plain: BOOLEAN, archive: Archive, receipt: BOOLEAN, sealed: BOOLEAN, made: 0..MaxHour,
     rows: SUBSET Media, kept: SUBSET Media]
EvidenceRow ==
    [status: {"NONE", "REGISTERED", "VERIFIED"}, sealed: BOOLEAN,
     signature: {"TRUSTED", "UNTRUSTED"}]
DrillRow == [status: {"NONE", "PASSED", "FAILED"}, of: Backups \cup {Nothing}, at: 0..MaxHour]

NoEvidence == [status |-> "NONE", sealed |-> FALSE, signature |-> "UNTRUSTED"]
NoDrill == [status |-> "NONE", of |-> Nothing, at |-> 0]
NoTool == [op |-> "idle"]
NoContent ==
    [plain |-> FALSE, archive |-> "none", receipt |-> FALSE, sealed |-> FALSE,
     made |-> 0, rows |-> {}, kept |-> {}]

RecoveryInit ==
    /\ recoveryPolicy \in Policies
    /\ signingKey \in {"TRUSTED", "UNTRUSTED"}
    /\ hour = 0
    /\ disk = [b \in Backups |-> NoContent]
    /\ evidence = [b \in Backups |-> NoEvidence]
    /\ drill = [d \in Drills |-> NoDrill]
    /\ report = [d \in Drills |-> NoDrill]
    /\ tool = [t \in Tools |-> NoTool]
    /\ proved = {}

Using(t, ops) == tool[t].op \in ops
Turns(t, stage) == tool' = [tool EXCEPT ![t] = stage]
At(t, ops) == Using(t, ops) /\ UNCHANGED <<recoveryPolicy, signingKey, hour>>

\* The script is killed, meets an error that nothing undoes, or its commit is refused.  Of
\* a backup without an archive there was a temporary directory only.
Break(t) ==
    /\ At(t, {"begun", "dumped", "zipped", "sealed", "receipt", "checking", "sound", "unsound",
              "reported"})
    /\ Turns(t, NoTool)
    /\ disk' = IF Using(t, {"begun", "dumped"}) THEN [disk EXCEPT ![tool[t].backup] = NoContent]
               ELSE disk
    /\ UNCHANGED <<evidence, drill, report, proved, storedVars>>

-----------------------------------------------------------------------------
(***************************************************************************)
(* What a receipt's signature is worth, and its registration.              *)
(***************************************************************************)

\* enforce_signature_policy, under _effective_signature_policy
AcceptsKey ==
    IF recoveryPolicy.trust \/ SignAll
    THEN signingKey = "TRUSTED"
    ELSE signingKey # "REVOKED"

\* A script goes on with the policy and the key that its session has read first.
Sight == [accepted |-> AcceptsKey, signature |-> signingKey, encrypt |-> recoveryPolicy.encrypt]

\* Mutant: the receipt is taken for the archive.
RegisteredVerified(b, seen) ==
    IF evidence[b].status # "NONE" THEN evidence[b]
    ELSE [status |-> "VERIFIED", sealed |-> disk[b].sealed, signature |-> seen.signature]

\* import_backup_receipt: what is registered already stays as it is.
MayRegister(b, seen) == seen.accepted /\ (seen.encrypt => disk[b].sealed)
Registered(b, seen) ==
    IF evidence[b].status # "NONE" THEN evidence[b]
    ELSE [status |-> "REGISTERED", sealed |-> disk[b].sealed, signature |-> seen.signature]

\* What was registered, marked once its archive was found sound.
Verified(b, seen) == [Registered(b, seen) EXCEPT !.status = "VERIFIED"]

\* A receipt that is being registered keeps the others out until its transaction ends.
Unclaimed(b) ==
    \A t \in Tools : Using(t, {"sound", "unsound", "reported"}) => tool[t].backup # b

\* import_drill_receipt, with the row of the backup as the transaction sees it.
MayRecord(r, row, seen) ==
    seen.accepted /\ row.status # "NONE" /\ (r.status = "PASSED" => row.status = "VERIFIED")

-----------------------------------------------------------------------------
(***************************************************************************)
(* create_recovery_backup                                                  *)
(***************************************************************************)

BeginBackup(t, b, recipient) ==
    /\ At(t, {"idle"}) /\ signingKey # "REVOKED"
    /\ recoveryPolicy.encrypt => recipient
    /\ disk[b].archive = "none" /\ ~disk[b].plain
    /\ \A u \in Tools : ~Using(u, {"idle"}) => tool[u].backup # b
    /\ Turns(t, [op |-> "begun", backup |-> b, seen |-> Sight])
    /\ disk' = [disk EXCEPT ![b].sealed = recipient, ![b].made = hour]
    /\ UNCHANGED <<evidence, drill, report, proved, storedVars>>

\* The database's own snapshot.
Dump(t) ==
    LET b == tool[t].backup IN
    /\ At(t, {"begun"})
    /\ disk' = [disk EXCEPT ![b].rows = media]
    /\ Turns(t, [tool[t] EXCEPT !.op = "dumped"])
    /\ UNCHANGED <<evidence, drill, report, proved, storedVars>>

\* Mutant: the files are listed before the dump.
DumpLast(t) ==
    LET b == tool[t].backup IN
    /\ At(t, {"dumped"})
    /\ disk' = [disk EXCEPT ![b].kept = disk[b].rows, ![b].rows = media, ![b].plain = TRUE]
    /\ Turns(t, [tool[t] EXCEPT !.op = "zipped"])
    /\ UNCHANGED <<evidence, drill, report, proved, storedVars>>

\* Then the files that are there, and the archive of both.
Copy(t) ==
    LET b == tool[t].backup IN
    /\ At(t, {"dumped"})
    /\ disk' = [disk EXCEPT ![b].kept = files \cap Media, ![b].plain = TRUE]
    /\ Turns(t, [tool[t] EXCEPT !.op = "zipped"])
    /\ UNCHANGED <<evidence, drill, report, proved, storedVars>>

\* age may fail; the plaintext goes in any case.
Seal(t) ==
    LET b == tool[t].backup IN
    /\ At(t, {"zipped"})
    /\ \/ /\ disk[b].sealed
          /\ disk' = [disk EXCEPT ![b].plain = FALSE, ![b].archive = "encrypted"]
          /\ Turns(t, [tool[t] EXCEPT !.op = "sealed"])
       \/ /\ disk[b].sealed
          /\ disk' = [disk EXCEPT ![b] = NoContent]
          /\ Turns(t, NoTool)
       \/ /\ ~disk[b].sealed
          /\ disk' = [disk EXCEPT ![b].archive = "open"]
          /\ Turns(t, [tool[t] EXCEPT !.op = "sealed"])
    /\ UNCHANGED <<evidence, drill, report, proved, storedVars>>

\* The receipt is a file before it is a row.
WriteReceipt(t) ==
    /\ At(t, {"sealed"})
    /\ disk' = [disk EXCEPT ![tool[t].backup].receipt = TRUE]
    /\ Turns(t, [tool[t] EXCEPT !.op = "receipt"])
    /\ UNCHANGED <<evidence, drill, report, proved, storedVars>>

Register(b, seen) == evidence' = [evidence EXCEPT ![b] = Registered(b, seen)]

FinishBackup(t) ==
    LET b == tool[t].backup IN
    /\ At(t, {"receipt"}) /\ Unclaimed(b)
    /\ IF MayRegister(b, tool[t].seen) THEN Register(b, tool[t].seen) ELSE UNCHANGED evidence
    /\ Turns(t, NoTool)
    /\ UNCHANGED <<disk, drill, report, proved, storedVars>>

-----------------------------------------------------------------------------
(***************************************************************************)
(* verify_recovery_archive and create_restore_drill                        *)
(***************************************************************************)

Check(t, b, d) ==
    /\ At(t, {"idle"}) /\ disk[b].receipt
    /\ d # Nothing =>
          /\ report[d] = NoDrill
          /\ \A u \in Tools : Using(u, {"checking", "sound", "unsound", "reported"}) =>
                                tool[u].drill # d
    /\ Turns(t, [op |-> "checking", backup |-> b, drill |-> d, seen |-> Sight])
    /\ UNCHANGED <<disk, evidence, drill, report, proved, storedVars>>

\* What a script that has found the archive unsound makes of the backup's row: a drill
\* goes on in the same transaction, which has registered the receipt.
AfterUnsound(b, seen) == IF MayRegister(b, seen) THEN Registered(b, seen) ELSE evidence[b]

\* The archive can be read, and is what receipt and manifest say it is.
Whole(b) == disk[b].archive \in {"open", "encrypted"}

\* The receipt is judged, then the archive.
Judge(t) ==
    LET b == tool[t].backup IN
    /\ At(t, {"checking"}) /\ Unclaimed(b)
    /\ \/ /\ MayRegister(b, tool[t].seen) /\ Whole(b)
          /\ Turns(t, [tool[t] EXCEPT !.op = "sound"])
          /\ proved' = proved \cup {b}
       \/ /\ Turns(t, IF tool[t].drill = Nothing THEN NoTool ELSE [tool[t] EXCEPT !.op = "unsound"])
          /\ UNCHANGED proved
    /\ UNCHANGED <<disk, evidence, drill, report, storedVars>>

FinishVerify(t) ==
    LET b == tool[t].backup IN
    /\ At(t, {"sound"}) /\ tool[t].drill = Nothing
    /\ evidence' = [evidence EXCEPT ![b] = Verified(b, tool[t].seen)]
    /\ Turns(t, NoTool)
    /\ UNCHANGED <<disk, drill, report, proved, storedVars>>

\* The receipt of a drill, passed or failed, is a file before it is a row too.
Report(t) ==
    LET d == tool[t].drill IN
    /\ At(t, {"sound", "unsound"}) /\ d # Nothing /\ signingKey # "REVOKED"
    /\ report' = [report EXCEPT ![d] =
                    [status |-> IF Using(t, {"sound"}) THEN "PASSED" ELSE "FAILED",
                     of |-> tool[t].backup, at |-> hour]]
    /\ Turns(t, [tool[t] EXCEPT !.op = "reported"])
    /\ UNCHANGED <<disk, evidence, drill, proved, storedVars>>

\* What the drill's transaction has made of the backup's row.
AfterDrill(t) ==
    IF report[tool[t].drill].status = "PASSED"
    THEN Verified(tool[t].backup, tool[t].seen)
    ELSE AfterUnsound(tool[t].backup, tool[t].seen)

\* A refused receipt rolls the transaction back.
FinishDrill(t) ==
    LET d == tool[t].drill
        row == AfterDrill(t) IN
    /\ At(t, {"reported"})
    /\ IF MayRecord(report[d], row, tool[t].seen)
       THEN /\ evidence' = [evidence EXCEPT ![tool[t].backup] = row]
            /\ drill' = [drill EXCEPT ![d] = report[d]]
       ELSE UNCHANGED <<evidence, drill>>
    /\ Turns(t, NoTool)
    /\ UNCHANGED <<disk, report, proved, storedVars>>

-----------------------------------------------------------------------------
(***************************************************************************)
(* The API: receipts from elsewhere, the policy, the key; and time.        *)
(***************************************************************************)

ImportBackup(b) ==
    /\ disk[b].receipt /\ MayRegister(b, Sight) /\ Unclaimed(b)
    /\ Register(b, Sight)
    /\ UNCHANGED <<recoveryPolicy, signingKey, hour, disk, drill, report, tool, proved, storedVars>>

\* The signed report names backup and archive; a drill that is known stays as it is.
ImportDrill(d) ==
    /\ report[d] # NoDrill /\ drill[d] = NoDrill
    /\ MayRecord(report[d], evidence[report[d].of], Sight)
    /\ drill' = [drill EXCEPT ![d] = report[d]]
    /\ UNCHANGED <<recoveryPolicy, signingKey, hour, disk, evidence, report, tool, proved, storedVars>>

UpdatePolicy(p) ==
    /\ p # recoveryPolicy /\ recoveryPolicy' = p
    /\ UNCHANGED <<signingKey, hour, disk, evidence, drill, report, tool, proved, storedVars>>

SetTrust(s) ==
    /\ signingKey # "REVOKED" /\ s # signingKey /\ signingKey' = s
    /\ UNCHANGED <<recoveryPolicy, hour, disk, evidence, drill, report, tool, proved, storedVars>>

\* An archive is lost or changed where it is kept.
Damage(b) ==
    /\ disk[b].archive \in {"open", "encrypted"}
    /\ disk' = [disk EXCEPT ![b].archive = "damaged"]
    /\ UNCHANGED <<recoveryPolicy, signingKey, hour, evidence, drill, report, tool, proved, storedVars>>

Tick ==
    /\ hour < MaxHour /\ hour' = hour + 1
    /\ UNCHANGED <<recoveryPolicy, signingKey, disk, evidence, drill, report, tool, proved, storedVars>>

-----------------------------------------------------------------------------
(***************************************************************************)
(* evaluate_recovery_compliance                                            *)
(***************************************************************************)

\* verified, and not expired
Counting ==
    {b \in Backups : evidence[b].status = "VERIFIED" /\ disk[b].made + EvidenceLife > hour}
Latest == {b \in Counting : \A c \in Counting : disk[c].made <= disk[b].made}
PassedDrills == {d \in Drills : drill[d].status = "PASSED"}
LatestDrills == {d \in PassedDrills : \A e \in PassedDrills : drill[e].at <= drill[d].at}

SignatureOk(b) == recoveryPolicy.trust => evidence[b].signature = "TRUSTED"

\* Production does not take the reading of a dump for a restored database.
DrillOk(d) == hour - drill[d].at <= DrillAge /\ (Production => Isolated)

\* ReadinessStatus.PASSED: no check blocks, and none warns.
Compliant ==
    /\ recoveryPolicy.enabled
    /\ Cardinality(Counting) >= Retained
    /\ \E b \in Latest : hour - disk[b].made <= Rpo /\ evidence[b].sealed /\ SignatureOk(b)
    /\ \E d \in LatestDrills : DrillOk(d)

-----------------------------------------------------------------------------
Run(t) ==
    \/ Dump(t) \/ Copy(t) \/ Seal(t) \/ WriteReceipt(t) \/ FinishBackup(t)
    \/ Judge(t) \/ FinishVerify(t) \/ Report(t) \/ FinishDrill(t) \/ Break(t)
    \/ \E b \in Backups :
        \/ \E recipient \in BOOLEAN : BeginBackup(t, b, recipient)
        \/ \E d \in Drills \cup {Nothing} : Check(t, b, d)

RecoveryNext ==
    \/ \E t \in Tools : Run(t)
    \/ \E b \in Backups : ImportBackup(b) \/ Damage(b)
    \/ \E d \in Drills : ImportDrill(d)
    \/ \E p \in Policies : UpdatePolicy(p)
    \/ \E s \in {"TRUSTED", "UNTRUSTED", "REVOKED"} : SetTrust(s)
    \/ Tick

\* The scripts run beside requests and workers.
archivesVars == <<storedVars, recoveryVars>>

ArchivesNext ==
    \/ StoredNext /\ UNCHANGED recoveryVars
    \/ RecoveryNext

ArchivesSpec == StoredInit /\ RecoveryInit /\ [][ArchivesNext]_archivesVars

-----------------------------------------------------------------------------
(***************************************************************************)
(* Properties.                                                             *)
(***************************************************************************)

RecoveryTypeOK ==
    /\ recoveryPolicy \in Policies /\ signingKey \in {"TRUSTED", "UNTRUSTED", "REVOKED"}
    /\ hour \in 0..MaxHour
    /\ disk \in [Backups -> Content] /\ evidence \in [Backups -> EvidenceRow]
    /\ drill \in [Drills -> DrillRow] /\ report \in [Drills -> DrillRow]
    /\ proved \subseteq Backups

\* A backup has the file of every medium in its dump that is still there when its archive
\* is made, whatever is uploaded and deleted while it is made: files are written before
\* their rows and deleted after them, and the dump comes before the copy
\* (app/services/recovery.py:1013).
BackupHoldsLiveMedia ==
    [][\A b \in Backups :
          ~disk[b].plain /\ disk'[b].plain =>
              (disk'[b].rows \cap media) \ lost \subseteq disk'[b].kept]_<<disk, storedVars>>

\* When the status passes, there is a recent backup whose encrypted archive was once found
\* whole, and a recent drill that restored one such, whatever receipts were imported, which
\* scripts failed, were killed or ran at the same time, and however policy and key changed
\* in between (app/services/recovery.py:619).
PassedIsProven ==
    Compliant =>
        /\ \E b \in proved : hour - disk[b].made <= Rpo /\ disk[b].sealed
        /\ \E d \in PassedDrills : hour - drill[d].at <= DrillAge /\ drill[d].of \in proved
=============================================================================
