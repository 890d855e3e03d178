--------------------------- MODULE ChangeControl ---------------------------
(***************************************************************************)
(* Controlled changes of one organization: change requests and maintenance *)
(* mode (app/api/changes.py, app/services/change_management.py), the       *)
(* signed release log and the dependency evidence an upgrade rests on      *)
(* (app/services/supply_chain.py, release_trust.py, artifact_signing.py),  *)
(* and the worker that maintenance keeps from sending.                     *)
(*                                                                         *)
(* approve, start, complete, fail and cancel lock the change; appending to *)
(* the log locks the release and the organization.  Nothing locks what the *)
(* verification reads: the maintenance flag, jobs, keys, log and policy    *)
(* are read one after the other while others commit.  With autoflush off,  *)
(* the first write of a verification is the flush that ends the check of   *)
(* the dependencies; from there on it holds the release's row.             *)
(*                                                                         *)
(* Left out: migration state, versions, SLO, audit chain and heartbeat,    *)
(* which only refuse; reports, which nothing reads; verify_change, which   *)
(* writes nothing else; hashes and signatures as data.                     *)
(***************************************************************************)
EXTENDS Naturals, Sequences, FiniteSets

CONSTANTS
    Users,      \* owners and administrators, with one request at a time
    Workers,    \* delivery workers
    Changes,    \* change requests
    Upgrades,   \* those of type upgrade
    Heavy,      \* those that need maintenance: upgrade, migration, infrastructure
    Releases,   \* release attestations
    VersionOf,  \* the version an attestation is about
    Keys,       \* signing keys
    Policies,   \* contents of the dependency policy, by their SHA-256
    MaxLog,     \* bound: entries of the release log
    None

ASSUME ChangeAssumption ==
    /\ Upgrades \subseteq Heavy /\ Heavy \subseteq Changes
    /\ DOMAIN VersionOf = Releases
    /\ None \notin Users \cup Releases \cup Keys \cup Policies
    /\ Policies # {} /\ MaxLog \in Nat

VARIABLES
    change,       \* change_requests
    maintenance,  \* the organization's maintenance_mode
    key,          \* artifact_signing_keys
    signer,       \* the key that signed each attestation, None: not there yet
    log,          \* release_transparency_events in the order of their sequence
    policy,       \* the content of the dependency policy
    worker,       \* where each delivery worker is
    request,      \* the request each user has under way
    moved         \* history: the requests under way during which evidence changed

changeVars == <<change, maintenance, key, signer, log, policy, worker, request, moved>>

Over == {"COMPLETED", "FAILED", "CANCELLED"}

\* `assessed' is the policy the pinned assessment was made under.  The history fields
\* `steady' and `ahead' say that maintenance has not been interrupted since the start
\* looked at it, and which workers were past their safety check when it counted sends.
ChangeRow ==
    [status: {"NONE", "DRAFT", "APPROVED", "IN_PROGRESS"} \cup Over,
     author: Users \cup {None}, approver: Users \cup {None}, release: Releases \cup {None},
     assessed: Policies \cup {None}, steady: BOOLEAN, ahead: SUBSET Workers]
KeyRow == [status: {"NONE", "ACTIVE", "REVOKED"}, trusted: BOOLEAN, default: BOOLEAN]
Entry == [seq: Nat, release: Releases, event: {"PUBLISHED", "WITHDRAWN"}, signer: Keys]
Phases == {"maintained", "counted", "reopened", "released", "assessed"}
RequestType ==
    [op: {"idle"}]
      \cup [op: {"start", "complete"}, change: Changes, phase: Phases]
      \cup [op: {"maintain", "resume"}, seen: BOOLEAN]
      \cup [op: {"append"}, entry: Entry]

Idle == [op |-> "idle"]
NoKey == [status |-> "NONE", trusted |-> FALSE, default |-> FALSE]

ChangeInit ==
    /\ change = [c \in Changes |->
                   [status |-> "NONE", author |-> None, approver |-> None, release |-> None,
                    assessed |-> None, steady |-> FALSE, ahead |-> {}]]
    /\ maintenance = FALSE
    /\ key = [k \in Keys |-> NoKey]
    /\ signer = [r \in Releases |-> None]
    /\ log = <<>> /\ policy \in Policies
    /\ worker = [w \in Workers |-> "idle"]
    /\ request = [u \in Users |-> Idle] /\ moved = {}

-----------------------------------------------------------------------------
(***************************************************************************)
(* Locks and evidence.                                                     *)
(***************************************************************************)

Busy(ops) == {u \in Users : request[u].op \in ops}

\* The row of the change is held by a start or a completion.
Locked(c) == \E u \in Busy({"start", "complete"}) : request[u].change = c

\* The organization's row is held by whoever appends to the log.
LogLocked == Busy({"append"}) # {}

\* The release's row is held by whoever appends an entry of it, and by a verification
\* that has written to it.
ReleaseLocked(r) ==
    \/ \E u \in Busy({"append"}) : request[u].entry.release = r
    \/ \E u \in Busy({"start", "complete"}) :
         request[u].phase = "assessed" /\ change[request[u].change].release = r

\* verify_signature: VALID_TRUSTED.
Trusted(k) == k # None /\ key[k].status = "ACTIVE" /\ key[k].trusted

\* current_release_state
Events(r) == {i \in DOMAIN log : log[i].release = r}
Published(r) ==
    \E i \in Events(r) : log[i].event = "PUBLISHED" /\ \A j \in Events(r) : j <= i

\* verify_transparency_chain: every entry's signature must be trusted today.
ChainValid == \A i \in DOMAIN log : log[i].seq = i /\ Trusted(log[i].signer)

\* What each of the three checks of an upgrade's release asks.
ReleaseTrusted(c) == c \in Upgrades => Trusted(signer[change[c].release])
ReleaseLogged(c) == c \in Upgrades => ChainValid /\ Published(change[c].release)
DependenciesAssured(c) == c \in Upgrades => change[c].assessed = policy

Evidence(c) == ReleaseTrusted(c) /\ ReleaseLogged(c) /\ DependenciesAssured(c)

\* Evidence changes under the requests that are verifying something.
Disturb == moved' = moved \cup Busy({"start", "complete"})

-----------------------------------------------------------------------------
(***************************************************************************)
(* Keys, attestations, the policy.                                         *)
(***************************************************************************)

\* generate_signing_key takes the organization's row to become the default.
GenerateKey(k, default, trusted) ==
    /\ key[k] = NoKey /\ ~(default /\ LogLocked)
    /\ key' = [j \in Keys |->
                 IF j = k THEN [status |-> "ACTIVE", trusted |-> trusted, default |-> default]
                          ELSE [key[j] EXCEPT !.default = @ /\ ~default]]
    /\ UNCHANGED <<change, maintenance, signer, log, policy, worker, request, moved>>

SetDefaultKey(k) ==
    /\ key[k].status = "ACTIVE" /\ ~LogLocked
    /\ key' = [j \in Keys |-> [key[j] EXCEPT !.default = (j = k)]]
    /\ UNCHANGED <<change, maintenance, signer, log, policy, worker, request, moved>>

TrustKey(k, trusted) ==
    /\ key[k].status = "ACTIVE" /\ key[k].trusted # trusted
    /\ key' = [key EXCEPT ![k].trusted = trusted]
    /\ Disturb
    /\ UNCHANGED <<change, maintenance, signer, log, policy, worker, request>>

\* The private part is destroyed, and the default is taken from the key.
RevokeKey(k) ==
    /\ key[k].status = "ACTIVE"
    /\ key' = [key EXCEPT ![k] = [status |-> "REVOKED", trusted |-> FALSE, default |-> FALSE]]
    /\ Disturb
    /\ UNCHANGED <<change, maintenance, signer, log, policy, worker, request>>

\* A local attestation is signed by the default key, an imported one by any key that
\* is not revoked.
Attest(r, k) ==
    /\ signer[r] = None /\ key[k].status = "ACTIVE"
    /\ signer' = [signer EXCEPT ![r] = k]
    /\ UNCHANGED <<change, maintenance, key, log, policy, worker, request, moved>>

UpdatePolicy(new) ==
    /\ policy' = new
    /\ Disturb
    /\ UNCHANGED <<change, maintenance, key, signer, log, worker, request>>

-----------------------------------------------------------------------------
(***************************************************************************)
(* The release log.                                                        *)
(***************************************************************************)

\* An entry continues what the log says of the release and of its version.
MayAppend(r, event) ==
    IF event = "PUBLISHED"
      THEN \A other \in Releases : VersionOf[other] = VersionOf[r] => ~Published(other)
      ELSE Published(r)

\* Mutant: the organization's row is not taken.
NobodyAppendsThis(r) == ~ReleaseLocked(r)

\* append_transparency_event, and _attestation_or_404 before it: the two row locks.
NobodyAppends(r) == ~ReleaseLocked(r) /\ ~LogLocked

AppendEvent(u, r, event) ==
    /\ request[u] = Idle /\ NobodyAppends(r)
    /\ Trusted(signer[r]) /\ MayAppend(r, event) /\ Len(log) < MaxLog
    /\ \E k \in Keys :
         /\ key[k].default /\ Trusted(k)
         /\ request' = [request EXCEPT ![u] =
              [op |-> "append",
               entry |-> [seq |-> Len(log) + 1, release |-> r, event |-> event,
                          signer |-> k]]]
    /\ UNCHANGED <<change, maintenance, key, signer, log, policy, worker, moved>>

AppendCommit(u) ==
    /\ request[u].op = "append"
    /\ log' = Append(log, request[u].entry)
    /\ request' = [request EXCEPT ![u] = Idle]
    /\ Disturb
    /\ UNCHANGED <<change, maintenance, key, signer, policy, worker>>

-----------------------------------------------------------------------------
(***************************************************************************)
(* Change requests.                                                        *)
(***************************************************************************)

\* The history fields of a change that is over, or whose start is refused, are cleared.
Ended(c, status) ==
    [change EXCEPT ![c].status = status, ![c].steady = FALSE, ![c].ahead = {}]

\* An upgrade pins an attestation and an assessment of it, made under the policy in
\* force.
CreateChange(u, c, r) ==
    /\ request[u] = Idle /\ change[c].status = "NONE"
    /\ IF c \in Upgrades THEN r # None /\ signer[r] # None ELSE r = None
    /\ change' = [change EXCEPT ![c].status = "DRAFT", ![c].author = u,
                                ![c].release = r, ![c].assessed = policy]
    /\ UNCHANGED <<maintenance, key, signer, log, policy, worker, request, moved>>

MayApprove(u, c) ==
    ~Locked(c) /\ change[c].status = "DRAFT" /\ change[c].author # u

ApproveChange(u, c) ==
    /\ request[u] = Idle /\ MayApprove(u, c)
    /\ change' = [change EXCEPT ![c].status = "APPROVED", ![c].approver = u]
    /\ UNCHANGED <<maintenance, key, signer, log, policy, worker, request, moved>>

MayCancel(c) == ~Locked(c) /\ change[c].status \in {"DRAFT", "APPROVED"}

CancelChange(u, c) ==
    /\ request[u] = Idle /\ MayCancel(c)
    /\ change' = Ended(c, "CANCELLED")
    /\ UNCHANGED <<maintenance, key, signer, log, policy, worker, request, moved>>

FailChange(u, c) ==
    /\ request[u] = Idle /\ ~Locked(c) /\ change[c].status = "IN_PROGRESS"
    /\ change' = Ended(c, "FAILED")
    /\ UNCHANGED <<maintenance, key, signer, log, policy, worker, request, moved>>

\* start_change: the lock, the status and the maintenance flag.
StartChange(u, c) ==
    /\ request[u] = Idle /\ ~Locked(c) /\ change[c].status = "APPROVED"
    /\ c \in Heavy => maintenance
    /\ request' = [request EXCEPT ![u] =
                     [op |-> "start", change |-> c, phase |-> "maintained"]]
    /\ change' = [change EXCEPT ![c].steady = maintenance]
    /\ UNCHANGED <<maintenance, key, signer, log, policy, worker, moved>>

CompleteChange(u, c) ==
    /\ request[u] = Idle /\ ~Locked(c) /\ change[c].status = "IN_PROGRESS"
    /\ request' = [request EXCEPT ![u] =
                     [op |-> "complete", change |-> c, phase |-> "reopened"]]
    /\ UNCHANGED <<change, maintenance, key, signer, log, policy, worker, moved>>

Enter(u, phase) == request' = [request EXCEPT ![u].phase = phase]
InPhase(u, phases) ==
    request[u].op \in {"start", "complete"} /\ request[u].phase \in phases

\* Mutant: only the flag is checked, not the sends under way.
NothingSentUnchecked == TRUE

NothingSent == \A w \in Workers : worker[w] # "sending"

\* run_deployment_verification, check by check.
CountSends(u) ==
    LET c == request[u].change IN
    /\ InPhase(u, {"maintained"}) /\ NothingSent
    /\ Enter(u, "counted")
    /\ change' = [change EXCEPT ![c].ahead = {w \in Workers : worker[w] = "checked"}]
    /\ UNCHANGED <<maintenance, key, signer, log, policy, worker, moved>>

VerifyRelease(u) ==
    LET c == request[u].change IN
    /\ InPhase(u, {"counted", "reopened"})
    /\ ReleaseTrusted(c) /\ ReleaseLogged(c)
    /\ Enter(u, "released")
    /\ UNCHANGED <<change, maintenance, key, signer, log, policy, worker, moved>>

VerifyDependencies(u) ==
    LET c == request[u].change IN
    /\ InPhase(u, {"released"})
    /\ ReleaseTrusted(c) /\ DependenciesAssured(c)
    /\ c \in Upgrades => ~ReleaseLocked(change[c].release)
    /\ Enter(u, "assessed")
    /\ UNCHANGED <<change, maintenance, key, signer, log, policy, worker, moved>>

\* Mutant: the verification after the change looks at the migrations only.
VerifiedBeforeOnly(u) ==
    InPhase(u, {"assessed"}) \/ (InPhase(u, Phases) /\ request[u].op = "complete")

Verified(u) == InPhase(u, {"assessed"})

\* The end of start_change and of complete_change.
Proceed(u) ==
    LET c == request[u].change IN
    /\ Verified(u)
    /\ change' = IF request[u].op = "start"
                   THEN [change EXCEPT ![c].status = "IN_PROGRESS"]
                   ELSE Ended(c, "COMPLETED")
    /\ request' = [request EXCEPT ![u] = Idle] /\ moved' = moved \ {u}
    /\ UNCHANGED <<maintenance, key, signer, log, policy, worker>>

\* A check refuses, or the transaction is lost: nothing but a report is written.
Refuse(u) ==
    /\ request[u] # Idle
    /\ change' = IF request[u].op = "start"
                   THEN Ended(request[u].change, change[request[u].change].status)
                   ELSE change
    /\ request' = [request EXCEPT ![u] = Idle] /\ moved' = moved \ {u}
    /\ UNCHANGED <<maintenance, key, signer, log, policy, worker>>

-----------------------------------------------------------------------------
(***************************************************************************)
(* Maintenance mode, written over the flag its request has loaded: where   *)
(* the flag already is as wanted, the column is not written.               *)
(***************************************************************************)

StartMaintenance(u) ==
    /\ request[u] = Idle
    /\ request' = [request EXCEPT ![u] = [op |-> "maintain", seen |-> maintenance]]
    /\ UNCHANGED <<change, maintenance, key, signer, log, policy, worker, moved>>

\* stop_maintenance looks for a change in progress.
StopMaintenance(u) ==
    /\ request[u] = Idle /\ \A c \in Changes : change[c].status # "IN_PROGRESS"
    /\ request' = [request EXCEPT ![u] = [op |-> "resume", seen |-> maintenance]]
    /\ UNCHANGED <<change, maintenance, key, signer, log, policy, worker, moved>>

MaintenanceCommit(u) ==
    LET wanted == request[u].op = "maintain" IN
    /\ request[u].op \in {"maintain", "resume"}
    /\ maintenance' = IF request[u].seen = wanted THEN maintenance ELSE wanted
    /\ change' = [c \in Changes |-> [change[c] EXCEPT !.steady = @ /\ maintenance']]
    /\ request' = [request EXCEPT ![u] = Idle]
    /\ UNCHANGED <<key, signer, log, policy, worker, moved>>

-----------------------------------------------------------------------------
(***************************************************************************)
(* The worker: evaluate_delivery reads the flag in the transaction that    *)
(* takes the job.                                                          *)
(***************************************************************************)

SafetyCheck(w) ==
    /\ worker[w] = "idle" /\ ~maintenance
    /\ worker' = [worker EXCEPT ![w] = "checked"]
    /\ UNCHANGED <<change, maintenance, key, signer, log, policy, request, moved>>

TakeJob(w) ==
    /\ worker[w] = "checked"
    /\ worker' = [worker EXCEPT ![w] = "sending"]
    /\ UNCHANGED <<change, maintenance, key, signer, log, policy, request, moved>>

\* The result, a rollback, or the recovery of a job whose worker died.
LetGo(w) ==
    /\ worker[w] # "idle"
    /\ worker' = [worker EXCEPT ![w] = "idle"]
    /\ UNCHANGED <<change, maintenance, key, signer, log, policy, request, moved>>

-----------------------------------------------------------------------------

TrustMoves ==
    \/ \E k \in Keys, d, t \in BOOLEAN : GenerateKey(k, d, t)
    \/ \E k \in Keys : \/ SetDefaultKey(k) \/ RevokeKey(k)
                       \/ \E t \in BOOLEAN : TrustKey(k, t)
                       \/ \E r \in Releases : Attest(r, k)
    \/ \E p \in Policies : UpdatePolicy(p)
LogMoves ==
    \E u \in Users :
      \/ \E r \in Releases, e \in {"PUBLISHED", "WITHDRAWN"} : AppendEvent(u, r, e)
      \/ AppendCommit(u)
ChangeMoves ==
    \E u \in Users :
      \/ \E c \in Changes : \/ \E r \in Releases \cup {None} : CreateChange(u, c, r)
                            \/ ApproveChange(u, c) \/ CancelChange(u, c)
                            \/ FailChange(u, c) \/ StartChange(u, c)
                            \/ CompleteChange(u, c)
      \/ CountSends(u) \/ VerifyRelease(u) \/ VerifyDependencies(u)
      \/ Proceed(u) \/ Refuse(u)
MaintenanceMoves ==
    \E u \in Users : StartMaintenance(u) \/ StopMaintenance(u) \/ MaintenanceCommit(u)
WorkerMoves == \E w \in Workers : SafetyCheck(w) \/ TakeJob(w) \/ LetGo(w)

ChangeNext == TrustMoves \/ LogMoves \/ ChangeMoves \/ MaintenanceMoves \/ WorkerMoves
ChangeSpec == ChangeInit /\ [][ChangeNext]_changeVars

-----------------------------------------------------------------------------
(***************************************************************************)
(* Properties.                                                             *)
(***************************************************************************)

\* Every row, request and worker keeps its type, only one key signs by default, what was
\* approved was approved by somebody else than its author, and an upgrade names an
\* attestation that is there.
ChangeTypeOK ==
    /\ change \in [Changes -> ChangeRow] /\ maintenance \in BOOLEAN
    /\ key \in [Keys -> KeyRow] /\ signer \in [Releases -> Keys \cup {None}]
    /\ log \in Seq(Entry) /\ policy \in Policies
    /\ worker \in [Workers -> {"idle", "checked", "sending"}]
    /\ request \in [Users -> RequestType] /\ moved \subseteq Users
    /\ \A j, k \in Keys : key[j].default /\ key[k].default => j = k
    /\ \A c \in Changes :
         change[c].status \in {"APPROVED", "IN_PROGRESS", "COMPLETED", "FAILED"} =>
           change[c].author # change[c].approver /\ change[c].approver # None
    /\ \A c \in Upgrades :
         change[c].status # "NONE" =>
           change[c].release \in Releases /\ signer[change[c].release] # None

\* The release log is one history, whoever writes to it at the same time: the entries
\* are numbered without gap or repetition, those of one release alternate between
\* published and withdrawn, and a version never has two releases published.
LogIsOneHistory ==
    /\ \A i \in DOMAIN log : log[i].seq = i
    /\ \A i \in DOMAIN log :
         LET before == {j \in Events(log[i].release) : j < i} IN
         (log[i].event = "PUBLISHED") <=>
           (before = {} \/ \E j \in before : log[j].event = "WITHDRAWN"
                                            /\ \A n \in before : n <= j)
    /\ \A q, r \in Releases :
         VersionOf[q] = VersionOf[r] /\ Published(q) /\ Published(r) => q = r

\* While a change that needs maintenance is in progress and maintenance has not been
\* interrupted, the only send there can be is one of a worker that was between its
\* safety check and its commit when the change counted the sends.
OnlyOverlookedSendRuns ==
    \A c \in Heavy : change[c].status = "IN_PROGRESS" /\ change[c].steady =>
      {w \in Workers : worker[w] = "sending"} \subseteq change[c].ahead

\* An upgrade is started and completed on evidence that holds at that moment - a
\* trusted signature, a sound log that shows the release published, an assessment
\* under the policy in force - unless the evidence changed during that very request.
ProceedsOnEvidence ==
    [][\A u \in Busy({"start", "complete"}) :
         LET c == request[u].change IN
         request'[u] = Idle /\ change'[c].status # change[c].status
           => Evidence(c) \/ u \in moved]_changeVars

\* What docs/CHANGE_MANAGEMENT.md:48 says: maintenance is not left while a change is
\* in progress.
MaintainedWhileInProgress ==
    \A c \in Heavy : change[c].status = "IN_PROGRESS" => maintenance

-----------------------------------------------------------------------------
(***************************************************************************)
(* The inductive invariants behind them.                                   *)
(***************************************************************************)

\* One entry is on its way at a time, and the log is still what it was made for.
OneAppends ==
    \A u, v \in Busy({"append"}) :
      LET e == request[u].entry IN
      /\ u = v
      /\ e.seq = Len(log) + 1 /\ MayAppend(e.release, e.event)

HasLatest ==
    \A r \in Releases :
      Events(r) # {} => \E i \in Events(r) : \A j \in Events(r) : j <= i

\* A change is locked by one request, in the status that request found it in.
OneVerifies ==
    \A u, v \in Busy({"start", "complete"}) :
      LET c == request[u].change IN
      /\ request[v].change = c => u = v
      /\ IF request[u].op = "start"
           THEN change[c].status = "APPROVED" /\ request[u].phase # "reopened"
           ELSE change[c].status = "IN_PROGRESS"

\* The sends have been counted for c, and nothing has been given up since.
Counted(c) ==
    \/ change[c].status = "IN_PROGRESS"
    \/ \E u \in Busy({"start"}) : request[u].change = c /\ request[u].phase # "maintained"

\* Maintenance that lasts keeps new workers from passing their safety check.
Overlooked ==
    \A c \in Changes : change[c].steady =>
      /\ maintenance
      /\ Counted(c) => {w \in Workers : worker[w] # "idle"} \subseteq change[c].ahead

\* What a verification has seen still holds, unless it was disturbed.
SeenHolds ==
    \A u \in Busy({"start", "complete"}) \ moved :
      LET c == request[u].change IN
      /\ request[u].phase \in {"released", "assessed"} => ReleaseTrusted(c) /\ ReleaseLogged(c)
      /\ request[u].phase = "assessed" => DependenciesAssured(c)

ChangeInv ==
    /\ ChangeTypeOK /\ LogIsOneHistory
    /\ OneAppends /\ HasLatest /\ OneVerifies /\ Overlooked /\ SeenHolds
=============================================================================
