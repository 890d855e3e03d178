-------------------------------- MODULE Pilot --------------------------------
(***************************************************************************)
(* Pilot programs of one campaign (app/services/pilot_programs.py,         *)
(* app/api/pilot_programs.py): stages of growing size, each proved by a    *)
(* run of the campaign and signed off.  The runs are those of PilotStages. *)
(*                                                                         *)
(* A call on a program locks its row.  Creation looks for an unfinished    *)
(* program without a lock, and the lock of one program does not keep a     *)
(* call on another from looking at its evidence: these two take two steps. *)
(*                                                                         *)
(* Commissioning, readiness and approval reports only refuse; so does the  *)
(* demand that another person signs off.  A stage that is ready differs    *)
(* from a pending one to the reader only.                                  *)
(***************************************************************************)
EXTENDS PilotStages

CONSTANTS
    Programs,    \* bound: programs that are ever created
    StageSizes,  \* stage_sizes: the targets of the live stages
    None

Orders == 0 .. Len(StageSizes)
Last == Len(StageSizes)

ASSUME ProgramAssumption ==
    /\ StageSizes \in Seq(Nat \ {0})
    /\ \A s, t \in DOMAIN StageSizes : s < t => StageSizes[s] < StageSizes[t]

VARIABLES
    program,    \* pilot_programs and their stages
    attaching   \* the evidence a call has gathered for a program and not yet written

vars == <<stageVars, program, attaching>>

\* A stage row: the run it rests on, how many runs there were when the stage started, and
\* whether its evidence names no blocker.
StageRow ==
    [status: {"PENDING", "RUNNING", "AWAITING_SIGNOFF", "PASSED", "FAILED", "SKIPPED"},
     run: 0 .. MaxRuns, since: 0 .. MaxRuns, clean: BOOLEAN]
ProgramStatus == {"NONE", "CHECKED", "DRAFT", "ACTIVE", "PAUSED", "COMPLETED", "CANCELLED"}
ProgramRow == [status: ProgramStatus, current: Orders, stages: [Orders -> StageRow]]

FreshStage == [status |-> "PENDING", run |-> 0, since |-> 0, clean |-> FALSE]
NoProgram ==
    [status |-> "NONE", current |-> 0, stages |-> [o \in Orders |-> FreshStage]]

Unfinished == {"DRAFT", "ACTIVE", "PAUSED"}
Target(o) == IF o = 0 THEN 1 ELSE StageSizes[o]
Free(p) == attaching[p] = None

\* create_program: the look, and the insertion.  NONE, CHECKED: there is no row yet.
CheckProgram(p) ==
    /\ program[p].status = "NONE"
    /\ \A q \in Programs : program[q].status \notin Unfinished
    /\ program' = [program EXCEPT ![p].status = "CHECKED"]
    /\ UNCHANGED <<stageVars, attaching>>

InsertProgram(p) ==
    /\ program[p].status = "CHECKED"
    /\ program' = [program EXCEPT ![p].status = "DRAFT"]
    /\ UNCHANGED <<stageVars, attaching>>

\* The blockers of refresh_stage_state that depend on what is modelled.
StageFits(o) == Cardinality(route) = Target(o) /\ (fake <=> o = 0)

\* A stage that failed begins a new cycle of evidence.
Started(n) == [status |-> "RUNNING", run |-> 0, since |-> n, clean |-> FALSE]

\* Mutant: start_stage does not compare the order with current_stage_order.
MayStartAnyOrder(p, o) ==
    /\ program[p].status \in Unfinished /\ Free(p)
    /\ program[p].stages[o].status \in {"PENDING", "FAILED"}

MayStart(p, o) ==
    /\ program[p].status \in Unfinished /\ Free(p)
    /\ o = program[p].current
    /\ program[p].stages[o].status \in {"PENDING", "FAILED"}

StartStage(p, o) ==
    /\ MayStart(p, o) /\ StageFits(o)
    /\ \E n \in 0 .. MaxRuns :
         /\ Made(n)
         /\ program' = [program EXCEPT ![p] =
              [status |-> "ACTIVE", current |-> o,
               stages |-> [program[p].stages EXCEPT ![o] = Started(n)]]]
    /\ UNCHANGED <<stageVars, attaching>>

\* Mutant: a run from before the start of the stage is taken.
MayAttachOlder(p, o, r) ==
    /\ program[p].stages[o].status \in {"RUNNING", "AWAITING_SIGNOFF"}
    /\ program[p].stages[o].run = 0
    /\ Ended(r)

\* The checks of attach_run_evidence.
MayAttach(p, o, r) ==
    /\ program[p].stages[o].status \in {"RUNNING", "AWAITING_SIGNOFF"}
    /\ program[p].stages[o].run = 0
    /\ r > program[p].stages[o].since
    /\ \A q \in Programs, n \in Orders :
         program[q].stages[n].run = r => q = p /\ n = o
    /\ Ended(r)

\* No blocker is found among the jobs of run r.
NoBlocker(o, r) ==
    /\ Cardinality(DOMAIN runs[r]) = Target(o)
    /\ Cardinality(In(r, {"SENT", "FAKE"})) = Target(o)

\* The audit chain may be found broken at any time.
GatherEvidence(p, o, r) ==
    /\ Free(p) /\ MayAttach(p, o, r)
    /\ \E audited \in BOOLEAN :
         attaching' = [attaching EXCEPT ![p] =
           [order |-> o, run |-> r, clean |-> audited /\ NoBlocker(o, r)]]
    /\ UNCHANGED <<stageVars, program>>

AttachRun(p) ==
    /\ ~Free(p)
    /\ program' = [program EXCEPT ![p].stages[attaching[p].order] =
         [status |-> "AWAITING_SIGNOFF", run |-> attaching[p].run, since |-> @.since,
          clean |-> attaching[p].clean]]
    /\ attaching' = [attaching EXCEPT ![p] = None]
    /\ UNCHANGED stageVars

\* signoff_stage.
PassStage(p, o) ==
    LET row == program[p]
        passed == [row.stages EXCEPT ![o].status = "PASSED"] IN
    /\ Free(p)
    /\ row.stages[o].status = "AWAITING_SIGNOFF" /\ row.stages[o].clean
    /\ program' = [program EXCEPT ![p] =
         IF o = Last THEN [status |-> "COMPLETED", current |-> row.current, stages |-> passed]
                     ELSE [status |-> "ACTIVE", current |-> o + 1, stages |-> passed]]
    /\ UNCHANGED <<stageVars, attaching>>

FailStage(p, o) ==
    /\ Free(p)
    /\ program[p].stages[o].status = "AWAITING_SIGNOFF"
    /\ program' = [program EXCEPT ![p] =
         [status |-> "PAUSED", current |-> @.current,
          stages |-> [program[p].stages EXCEPT ![o].status = "FAILED"]]]
    /\ UNCHANGED <<stageVars, attaching>>

Skipped(row) ==
    IF row.status \in {"PENDING", "RUNNING", "AWAITING_SIGNOFF"}
      THEN [row EXCEPT !.status = "SKIPPED"] ELSE row

\* cancel_pilot_program; a cancelled program may be cancelled again.
CancelProgram(p) ==
    /\ Free(p) /\ program[p].status \in Unfinished
    /\ program' = [program EXCEPT ![p] =
         [status |-> "CANCELLED", current |-> @.current,
          stages |-> [o \in Orders |-> Skipped(@.stages[o])]]]
    /\ UNCHANGED <<stageVars, attaching>>

-----------------------------------------------------------------------------

Init ==
    /\ StageInit
    /\ program = [p \in Programs |-> NoProgram]
    /\ attaching = [p \in Programs |-> None]

ProgramMoves ==
    \E p \in Programs :
      \/ CheckProgram(p) \/ InsertProgram(p) \/ AttachRun(p) \/ CancelProgram(p)
      \/ \E o \in Orders :
           \/ StartStage(p, o) \/ PassStage(p, o) \/ FailStage(p, o)
           \/ \E r \in Runs : GatherEvidence(p, o, r)

Next == ProgramMoves \/ (StageNext /\ UNCHANGED <<program, attaching>>)
Spec == Init /\ [][Next]_vars

-----------------------------------------------------------------------------
(***************************************************************************)
(* Properties.                                                             *)
(***************************************************************************)

ProgramTypeOK ==
    /\ program \in [Programs -> ProgramRow]
    /\ \A p \in Programs :
         attaching[p] # None =>
           attaching[p] \in [order: Orders, run: Runs, clean: BOOLEAN]

\* A program climbs in order: the stages before the current one have passed, those after it
\* have not begun, and it is complete when all have passed and not before, whatever is
\* started, refused, restarted and cancelled on the way.
StagesInOrder ==
    \A p \in Programs :
      LET row == program[p]
          of(o) == row.stages[o].status
      IN  /\ \A o \in Orders : o < row.current => of(o) = "PASSED"
          /\ \A o \in Orders : o > row.current => of(o) \in {"PENDING", "SKIPPED"}
          /\ row.status = "COMPLETED" <=> \A o \in Orders : of(o) = "PASSED"
          /\ (\E o \in Orders : of(o) \in {"RUNNING", "AWAITING_SIGNOFF"})
               => row.status = "ACTIVE"

\* A passed stage rests on a run that was created after the stage began, that went to as
\* many destinations as the stage demands, each of which got its message, and that no other
\* stage of the program rests on.
PassedStageDelivered ==
    \A p \in Programs : \A o \in Orders :
      LET row == program[p].stages[o] IN
      row.status = "PASSED" =>
        /\ row.run \in Runs /\ row.run > row.since
        /\ Cardinality(DOMAIN runs[row.run]) = Target(o)
        /\ In(row.run, {"SENT", "FAKE"}) = DOMAIN runs[row.run]
        /\ \A n \in Orders \ {o} : program[p].stages[n].run # row.run

\* What docs/COMMISSIONING_AND_PORTABILITY.md says of live stages, where the code only looks
\* at the transport when the stage starts: what a live stage rests on went to Telegram.
LiveStageWentOut ==
    \A p \in Programs, o \in Orders \ {0} :
      program[p].stages[o].status = "PASSED" => In(program[p].stages[o].run, {"FAKE"}) = {}

\* A campaign has one unfinished program at a time, and a run is evidence of one stage: both
\* fail when two calls look at the same time.
OneProgram ==
    \A p, q \in Programs :
      program[p].status \in Unfinished /\ program[q].status \in Unfinished => p = q
RunProvesOneStage ==
    \A p, q \in Programs, o, n \in Orders :
      program[p].stages[o].run # 0 /\ program[p].stages[o].run = program[q].stages[n].run
        => p = q /\ o = n
=============================================================================
