---------------------------- MODULE LimitsProofs ----------------------------
(***************************************************************************)
(* Proofs about what an organization may grow to.  Pilot: a program climbs *)
(* in order, a passed stage rests on a run that delivered to every         *)
(* destination it demands, and the stage rises on evidence.  Capacity: the *)
(* queue keeps its limits, and so do the calls of a window.                *)
(***************************************************************************)
EXTENDS Pilot, Capacity, FiniteSetTheorems, TLAPS

-----------------------------------------------------------------------------
(***************************************************************************)
(* The inductive invariant.                                                *)
(***************************************************************************)

RunTypes == runs \in [Runs -> RunJobs] /\ route \in NonemptyRoutes

Evidences == [order: Orders, run: Runs, clean: BOOLEAN]
ProgramTypes ==
    /\ program \in [Programs -> ProgramRow]
    /\ attaching \in [Programs -> {None} \cup Evidences]

\* The status of the stage with order o.
Of(row, o) == row.stages[o].status

\* The stages of one program follow its current one.
Climbs(row) ==
    /\ \A o \in Orders : o < row.current => Of(row, o) = "PASSED"
    /\ \A o \in Orders : o > row.current => Of(row, o) \in {"PENDING", "SKIPPED"}
    /\ row.status = "COMPLETED" => row.current = Last
    /\ row.status = "COMPLETED" <=> Of(row, row.current) = "PASSED"
    /\ \A o \in Orders : Of(row, o) \in {"RUNNING", "AWAITING_SIGNOFF"} => row.status = "ACTIVE"

\* Run r proves stage o: it has ended, and if no blocker was found then none is there.
Proves(o, r, clean) == r \in Runs /\ Ended(r) /\ (clean => NoBlocker(o, r))

\* What the stages of one program rest on.
Rests(row) ==
    /\ \A o \in Orders :
         Of(row, o) \in {"AWAITING_SIGNOFF", "PASSED"} => row.stages[o].run # 0
    /\ \A o \in Orders : Of(row, o) = "PASSED" => row.stages[o].clean
    /\ \A o \in Orders : row.stages[o].run # 0 =>
         /\ Proves(o, row.stages[o].run, row.stages[o].clean)
         /\ row.stages[o].run > row.stages[o].since
         /\ \A n \in Orders \ {o} : row.stages[n].run # row.stages[o].run

\* What a call has gathered still fits the program it has locked.
Fits1(row, e) ==
    /\ Of(row, e.order) \in {"RUNNING", "AWAITING_SIGNOFF"}
    /\ Proves(e.order, e.run, e.clean)
    /\ e.run > row.stages[e.order].since
    /\ \A n \in Orders : n # e.order => row.stages[n].run # e.run

ProgramFits(p) ==
    /\ Climbs(program[p]) /\ Rests(program[p])
    /\ attaching[p] # None => Fits1(program[p], attaching[p])

PilotInv == RunTypes /\ ProgramTypes /\ \A p \in Programs : ProgramFits(p)

-----------------------------------------------------------------------------
(***************************************************************************)
(* Runs.                                                                   *)
(***************************************************************************)

\* The jobs of a run are a function from destinations to statuses.
LEMMA JobsAre ==
    ASSUME NEW js
    PROVE  js \in RunJobs <=> DOMAIN js \in SUBSET Destinations /\ js \in [DOMAIN js -> RunJobStatus]
  BY DEF RunJobs

\* Withholding and requeueing jobs leaves a run that has ended as it is.
LEMMA BulkChanges ==
    ASSUME RunTypes, NEW r \in Runs
    PROVE  /\ Withheld(runs[r]) \in RunJobs /\ Requeued(runs[r]) \in RunJobs
           /\ Ended(r) => Withheld(runs[r]) = runs[r] /\ Requeued(runs[r]) = runs[r]
  <1>1. runs[r] \in RunJobs
    BY DEF RunTypes
  <1>2. DOMAIN runs[r] \in SUBSET Destinations /\ runs[r] \in [DOMAIN runs[r] -> RunJobStatus]
    BY <1>1, JobsAre
  <1>3. Withheld(runs[r]) \in RunJobs
    <2>1. Withheld(runs[r]) \in [DOMAIN runs[r] -> RunJobStatus]
      BY <1>2 DEF Withheld, RunJobStatus, Over
    <2>2. QED
      BY <1>2, <2>1, JobsAre
  <1>4. Requeued(runs[r]) \in RunJobs
    <2>1. Requeued(runs[r]) \in [DOMAIN runs[r] -> RunJobStatus]
      BY <1>2 DEF Requeued, RunJobStatus, Over
    <2>2. QED
      BY <1>2, <2>1, JobsAre
  <1>5. ASSUME Ended(r)
        PROVE  Withheld(runs[r]) = runs[r] /\ Requeued(runs[r]) = runs[r]
    <2>1. \A d \in DOMAIN runs[r] : runs[r][d] \notin {"QUEUED", "REVIEW"}
      BY <1>5 DEF Ended, In, RunJobStatus, Over
    <2>2. QED
      BY <1>2, <2>1 DEF Withheld, Requeued
  <1>6. QED
    BY <1>3, <1>4, <1>5

\* A job that settles is one of a run that has not ended.
LEMMA SettleKeeps ==
    ASSUME RunTypes, NEW r \in Runs, NEW d \in Destinations, NEW to \in RunJobStatus,
           NEW S \in SUBSET (RunJobStatus \ Over), Is(r, d, S), Settle(r, d, to)
    PROVE  RunTypes' /\ \A q \in Runs : Ended(q) => runs'[q] = runs[q]
  <1>1. runs[r] \in RunJobs
    BY DEF RunTypes
  <1>2. DOMAIN runs[r] \in SUBSET Destinations /\ runs[r] \in [DOMAIN runs[r] -> RunJobStatus]
    BY <1>1, JobsAre
  <1>3. runs' = [runs EXCEPT ![r] = [runs[r] EXCEPT ![d] = to]] /\ route' = route
    BY DEF Settle
  <1>4. [runs[r] EXCEPT ![d] = to] \in RunJobs
    BY <1>2, JobsAre
  <1>5. ~Ended(r)
    BY DEF Is, Ended, In
  <1>6. QED
    BY <1>3, <1>4, <1>5 DEF RunTypes

\* No move around the programs changes a run that has ended.
LEMMA EndedStays ==
    ASSUME RunTypes, StageNext
    PROVE  RunTypes' /\ \A q \in Runs : Ended(q) => runs'[q] = runs[q]
  <1>1. CASE UNCHANGED <<runs, route>>
    BY <1>1 DEF RunTypes
  <1>2. CASE \E s \in Stages : LowerStage(s)
    BY <1>2, BulkChanges DEF LowerStage, RunTypes
  <1>3. CASE ResumeConnection
    BY <1>3, BulkChanges DEF ResumeConnection, RunTypes
  <1>4. CASE CreateRun
    <2>1. PICK r \in Runs : Made(r - 1) /\ runs' = [runs EXCEPT ![r] = [d \in route |-> "QUEUED"]]
      BY <1>4 DEF CreateRun
    <2>2. [d \in route |-> "QUEUED"] \in RunJobs
      BY DEF RunTypes, NonemptyRoutes, RunJobs, RunJobStatus, Over
    <2>3. ~Ended(r)
      BY <2>1 DEF Made, Ended, Runs
    <2>4. QED
      BY <1>4, <2>1, <2>2, <2>3 DEF CreateRun, RunTypes
  <1>5. CASE JobMoves
    <2>1. PICK r \in Runs, d \in Destinations :
            \/ Take(r, d) \/ Withhold(r, d) \/ Deliver(r, d) \/ Fail(r, d)
            \/ LoseSend(r, d) \/ Resolve(r, d)
      BY <1>5 DEF JobMoves
    <2>2. PICK to \in RunJobStatus, S \in SUBSET (RunJobStatus \ Over) :
            Is(r, d, S) /\ Settle(r, d, to)
      BY <2>1 DEF Take, Withhold, Deliver, Fail, LoseSend, Resolve, RunJobStatus, Over
    <2>3. QED
      BY <2>2, SettleKeeps
  <1>6. CASE \E R \in NonemptyRoutes : EditRoute(R)
    BY <1>6 DEF EditRoute, RunTypes
  <1>7. QED
    BY <1>1, <1>2, <1>3, <1>4, <1>5, <1>6 DEF StageNext, AssessStage, AdvanceStage,
       ExpireAssessment, SendCanary, LoseCanary, CanaryAges, Surroundings, Restart

\* What a run proves it goes on proving.
LEMMA ProofStays ==
    ASSUME NEW o, NEW r, NEW clean, Proves(o, r, clean), runs'[r] = runs[r]
    PROVE  Proves(o, r, clean)'
  BY DEF Proves, Ended, Created, In, NoBlocker

-----------------------------------------------------------------------------
(***************************************************************************)
(* Programs.                                                               *)
(***************************************************************************)

\* A program and its evidence that nobody touches go on fitting.
LEMMA UntouchedFits ==
    ASSUME NEW p \in Programs, ProgramTypes, ProgramFits(p),
           program'[p] = program[p], attaching'[p] = attaching[p],
           \A q \in Runs : Ended(q) => runs'[q] = runs[q]
    PROVE  ProgramFits(p)'
  <1>1. \A o, r, clean : Proves(o, r, clean) => Proves(o, r, clean)'
    BY ProofStays DEF Proves
  <1>2. Rests(program[p]) => Rests(program[p])'
    BY <1>1 DEF Rests, Of
  <1>3. \A e : Fits1(program[p], e) => Fits1(program[p], e)'
    BY <1>1 DEF Fits1, Of
  <1>4. QED
    BY <1>2, <1>3 DEF ProgramFits, Climbs, Of

\* A step on one program that leaves the runs alone, its new row and evidence being fit,
\* keeps the invariant.
LEMMA OneProgramStep ==
    ASSUME PilotInv, UNCHANGED stageVars, NEW p \in Programs,
           NEW new \in ProgramRow, NEW e \in {None} \cup Evidences,
           program' = [program EXCEPT ![p] = new], attaching' = [attaching EXCEPT ![p] = e],
           Climbs(new), Rests(new), e # None => Fits1(new, e)
    PROVE  PilotInv'
  <1>1. RunTypes'
    BY DEF PilotInv, RunTypes, stageVars
  <1>2. ProgramTypes'
    BY DEF PilotInv, ProgramTypes
  <1>3. program'[p] = new /\ attaching'[p] = e
    BY DEF PilotInv, ProgramTypes
  <1>4. \A o, r, clean : Proves(o, r, clean) => Proves(o, r, clean)'
    BY ProofStays DEF Proves, stageVars
  <1>5. Rests(new)'
    BY <1>4 DEF Rests, Of
  <1>6. (e # None => Fits1(new, e))'
    BY <1>4 DEF Fits1, Of
  <1>7. ProgramFits(p)'
    <2>1. Climbs(program[p])'
      BY <1>3 DEF Climbs, Of
    <2>2. Rests(program[p])'
      BY <1>3, <1>5 DEF Rests, Of
    <2>3. (attaching[p] # None => Fits1(program[p], attaching[p]))'
      BY <1>3, <1>6 DEF Fits1, Of
    <2>4. QED
      BY <2>1, <2>2, <2>3 DEF ProgramFits
  <1>8. \A q \in Programs \ {p} : ProgramFits(q)'
    <2>1. TAKE q \in Programs \ {p}
    <2>2. program'[q] = program[q] /\ attaching'[q] = attaching[q]
      BY DEF PilotInv, ProgramTypes
    <2>3. ProgramFits(q) /\ ProgramTypes /\ \A r \in Runs : runs'[r] = runs[r]
      BY DEF PilotInv, stageVars
    <2>4. QED
      BY <2>2, <2>3, UntouchedFits
  <1>9. QED
    BY <1>1, <1>2, <1>7, <1>8 DEF PilotInv

\* The same when the step leaves evidence that is being gathered alone.
LEMMA RowStep ==
    ASSUME PilotInv, UNCHANGED <<stageVars, attaching>>, NEW p \in Programs, attaching[p] = None,
           NEW new \in ProgramRow, program' = [program EXCEPT ![p] = new],
           Climbs(new), Rests(new)
    PROVE  PilotInv'
  <1>1. attaching' = [attaching EXCEPT ![p] = None]
    BY DEF PilotInv, ProgramTypes
  <1>2. QED
    BY <1>1, OneProgramStep

\* The current stage is the one that is being tried.
LEMMA CurrentIsTried ==
    ASSUME NEW row \in ProgramRow, Climbs(row), NEW o \in Orders,
           Of(row, o) \in {"RUNNING", "AWAITING_SIGNOFF"}
    PROVE  o = row.current /\ row.status = "ACTIVE"
  BY DEF Climbs, ProgramRow, Orders

\* What the invariant says of one program.
LEMMA FitProgram ==
    ASSUME PilotInv, NEW p \in Programs
    PROVE  /\ program[p] \in ProgramRow /\ Climbs(program[p]) /\ Rests(program[p])
           /\ attaching[p] \in {None} \cup Evidences
           /\ attaching[p] # None =>
                Fits1(program[p], attaching[p]) /\ program[p].status = "ACTIVE"
  <1>1. program[p] \in ProgramRow /\ attaching[p] \in {None} \cup Evidences
    BY DEF PilotInv, ProgramTypes
  <1>2. Climbs(program[p]) /\ Rests(program[p])
        /\ (attaching[p] # None => Fits1(program[p], attaching[p]))
    BY DEF PilotInv, ProgramFits
  <1>3. ASSUME attaching[p] # None
        PROVE  program[p].status = "ACTIVE"
    <2>1. attaching[p].order \in Orders
      BY <1>1, <1>3 DEF Evidences
    <2>2. QED
      BY <1>1, <1>2, <1>3, <2>1, CurrentIsTried DEF Fits1
  <1>4. QED
    BY <1>1, <1>2, <1>3

LEMMA CreationFits ==
    ASSUME PilotInv, NEW p \in Programs, CheckProgram(p) \/ InsertProgram(p)
    PROVE  PilotInv'
  <1>1. PICK to \in {"CHECKED", "DRAFT"} :
          program' = [program EXCEPT ![p].status = to] /\ UNCHANGED <<stageVars, attaching>>
    BY DEF CheckProgram, InsertProgram
  <1>2. program[p].status \in {"NONE", "CHECKED"}
    BY DEF CheckProgram, InsertProgram
  <1>3. program[p] \in ProgramRow /\ Climbs(program[p]) /\ Rests(program[p])
        /\ attaching[p] = None
    BY <1>2, FitProgram
  <1> DEFINE new == [program[p] EXCEPT !.status = to]
  <1>4. new \in ProgramRow /\ program' = [program EXCEPT ![p] = new]
    BY <1>1, <1>3 DEF ProgramRow, ProgramStatus
  <1>5. new.status = to /\ new.current = program[p].current
        /\ new.stages = program[p].stages
    BY <1>3 DEF ProgramRow
  <1> HIDE DEF new
  <1>6. Climbs(new)
    BY <1>2, <1>3, <1>5 DEF Climbs, Of
  <1>7. Rests(new)
    BY <1>3, <1>5 DEF Rests, Of
  <1>8. QED
    BY <1>1, <1>3, <1>4, <1>6, <1>7, RowStep

\* A stage that starts has no run yet, and is the current one.
LEMMA StartFits ==
    ASSUME PilotInv, NEW p \in Programs, NEW o \in Orders, StartStage(p, o)
    PROVE  PilotInv'
  <1> DEFINE row == program[p]
  <1>1. row \in ProgramRow /\ Climbs(row) /\ Rests(row) /\ attaching[p] = None
        /\ o = row.current /\ UNCHANGED <<stageVars, attaching>>
    BY FitProgram DEF StartStage, MayStart, Free
  <1>2. PICK n \in 0 .. MaxRuns :
          program' = [program EXCEPT ![p] =
            [status |-> "ACTIVE", current |-> o,
             stages |-> [program[p].stages EXCEPT ![o] = Started(n)]]]
    BY DEF StartStage
  <1> DEFINE new == [status |-> "ACTIVE", current |-> o,
                     stages |-> [row.stages EXCEPT ![o] = Started(n)]]
  <1>3. Started(n) \in StageRow /\ Started(n).status = "RUNNING" /\ Started(n).run = 0
    BY PilotAssumption DEF Started, StageRow
  <1>4. row.stages \in [Orders -> StageRow]
    BY <1>1 DEF ProgramRow
  <1>5. new \in ProgramRow
    BY <1>3, <1>4 DEF ProgramRow, ProgramStatus
  <1>6. new.stages[o] = Started(n) /\ new.status = "ACTIVE" /\ new.current = o
        /\ \A m \in Orders \ {o} : new.stages[m] = row.stages[m]
    BY <1>4
  <1>7. program' = [program EXCEPT ![p] = new]
    BY <1>2
  <1> HIDE DEF new, row
  <1>8. Climbs(new)
    BY <1>1, <1>3, <1>6 DEF Climbs, Of, Orders
  <1>9. Rests(new)
    BY <1>1, <1>3, <1>6 DEF Rests, Of
  <1>10. QED
    BY <1>1, <1>5, <1>7, <1>8, <1>9, RowStep

\* The evidence that is gathered is that of a run that has ended.
LEMMA GatherFits ==
    ASSUME PilotInv, NEW p \in Programs, NEW o \in Orders, NEW r \in Runs,
           GatherEvidence(p, o, r)
    PROVE  PilotInv'
  <1>1. program[p] \in ProgramRow /\ Climbs(program[p]) /\ Rests(program[p])
    BY FitProgram
  <1>2. PICK audited \in BOOLEAN :
          attaching' = [attaching EXCEPT ![p] =
            [order |-> o, run |-> r, clean |-> audited /\ NoBlocker(o, r)]]
    BY DEF GatherEvidence
  <1>3. PICK clean \in BOOLEAN : clean = (audited /\ NoBlocker(o, r))
    OBVIOUS
  <1> DEFINE e == [order |-> o, run |-> r, clean |-> clean]
  <1>4. e \in Evidences /\ attaching' = [attaching EXCEPT ![p] = e]
    BY <1>2, <1>3 DEF Evidences
  <1>5. Fits1(program[p], e)
    <2>1. MayAttach(p, o, r)
      BY DEF GatherEvidence
    <2>2. \A n \in Orders : n # o => program[p].stages[n].run # r
      BY <2>1 DEF MayAttach
    <2>3. Proves(o, r, clean)
      BY <1>3, <2>1 DEF Proves, MayAttach
    <2>4. QED
      BY <2>1, <2>2, <2>3 DEF Fits1, MayAttach, Of
  <1>6. UNCHANGED stageVars /\ program' = [program EXCEPT ![p] = program[p]]
    BY DEF GatherEvidence, PilotInv, ProgramTypes
  <1> HIDE DEF e
  <1>7. QED
    BY <1>1, <1>4, <1>5, <1>6, OneProgramStep

\* The run is attached to the stage it was looked at for.
LEMMA AttachFits ==
    ASSUME PilotInv, NEW p \in Programs, AttachRun(p)
    PROVE  PilotInv'
  <1> DEFINE row == program[p]
             e == attaching[p]
  <1>1. row \in ProgramRow /\ Climbs(row) /\ Rests(row) /\ e \in Evidences
        /\ Fits1(row, e) /\ row.status = "ACTIVE"
    BY FitProgram DEF AttachRun, Free
  <1>2. e.order \in Orders /\ e.run \in Runs /\ e.clean \in BOOLEAN
    BY <1>1 DEF Evidences
  <1>3. e.order = row.current
    BY <1>1, <1>2, CurrentIsTried DEF Fits1
  <1>4. row.stages \in [Orders -> StageRow]
    BY <1>1 DEF ProgramRow
  <1> DEFINE stage1 == [status |-> "AWAITING_SIGNOFF", run |-> e.run,
                        since |-> row.stages[e.order].since, clean |-> e.clean]
             new == [row EXCEPT !.stages = [row.stages EXCEPT ![e.order] = stage1]]
  <1>5. stage1 \in StageRow
    BY <1>2, <1>4, PilotAssumption DEF StageRow, Runs
  <1>6. new \in ProgramRow
    BY <1>1, <1>4, <1>5 DEF ProgramRow
  <1>7. program' = [program EXCEPT ![p] = new]
    BY <1>1, <1>4 DEF AttachRun, ProgramRow
  <1>8. UNCHANGED stageVars /\ attaching' = [attaching EXCEPT ![p] = None]
    BY DEF AttachRun
  <1>9. new.stages[e.order] = stage1 /\ new.status = "ACTIVE" /\ new.current = row.current
        /\ \A m \in Orders \ {e.order} : new.stages[m] = row.stages[m]
    BY <1>1, <1>2, <1>4 DEF ProgramRow
  <1>10. stage1.status = "AWAITING_SIGNOFF" /\ stage1.run = e.run /\ stage1.clean = e.clean
         /\ stage1.since = row.stages[e.order].since
    OBVIOUS
  <1> HIDE DEF new, stage1, row, e
  <1>11. Climbs(new)
    BY <1>1, <1>2, <1>3, <1>9, <1>10 DEF Climbs, Of, Orders
  <1>12. Rests(new)
    <2>1. e.run # 0 /\ Proves(e.order, e.run, e.clean) /\ e.run > row.stages[e.order].since
          /\ \A n \in Orders : n # e.order => row.stages[n].run # e.run
      BY <1>1, <1>2 DEF Fits1, Runs
    <2>2. \A m \in Orders : Of(new, m) = "PASSED" => new.stages[m].clean
      BY <1>1, <1>9, <1>10 DEF Rests, Of
    <2>3. \A m \in Orders : Of(new, m) \in {"AWAITING_SIGNOFF", "PASSED"}
                              => new.stages[m].run # 0
      BY <1>1, <1>9, <1>10, <2>1 DEF Rests, Of
    <2>4. \A m \in Orders : new.stages[m].run # 0 =>
            /\ Proves(m, new.stages[m].run, new.stages[m].clean)
            /\ new.stages[m].run > new.stages[m].since
      BY <1>1, <1>2, <1>9, <1>10, <2>1 DEF Rests
    <2>5. \A m \in Orders : new.stages[m].run # 0 =>
            \A n \in Orders \ {m} : new.stages[n].run # new.stages[m].run
      BY <1>1, <1>2, <1>9, <1>10, <2>1 DEF Rests
    <2>6. QED
      BY <2>2, <2>3, <2>4, <2>5 DEF Rests
  <1>13. QED
    BY <1>6, <1>7, <1>8, <1>11, <1>12, OneProgramStep

\* A stage that is signed off keeps its run, and the next one becomes the current one.
LEMMA PassFits ==
    ASSUME PilotInv, NEW p \in Programs, NEW o \in Orders, PassStage(p, o)
    PROVE  PilotInv'
  <1> DEFINE row == program[p]
             passed == [row.stages EXCEPT ![o].status = "PASSED"]
             new == IF o = Last
                      THEN [status |-> "COMPLETED", current |-> row.current, stages |-> passed]
                      ELSE [status |-> "ACTIVE", current |-> o + 1, stages |-> passed]
  <1>1. row \in ProgramRow /\ Climbs(row) /\ Rests(row) /\ attaching[p] = None
        /\ row.stages[o].status = "AWAITING_SIGNOFF" /\ row.stages[o].clean
    BY FitProgram DEF PassStage, Free
  <1>2. program' = [program EXCEPT ![p] = new] /\ UNCHANGED <<stageVars, attaching>>
    BY DEF PassStage
  <1>3. o = row.current /\ row.status = "ACTIVE"
    BY <1>1, CurrentIsTried DEF Of
  <1>4. row.stages \in [Orders -> StageRow] /\ row.current \in Orders
    BY <1>1 DEF ProgramRow
  <1>5. passed \in [Orders -> StageRow]
    BY <1>4 DEF StageRow
  <1>6. /\ passed[o].status = "PASSED" /\ passed[o].run = row.stages[o].run
        /\ passed[o].since = row.stages[o].since /\ passed[o].clean = row.stages[o].clean
        /\ \A m \in Orders \ {o} : passed[m] = row.stages[m]
    BY <1>4 DEF StageRow
  <1>7. Last \in Nat
    BY ProgramAssumption DEF Last
  <1>8. new \in ProgramRow
    BY <1>4, <1>5, <1>7 DEF ProgramRow, ProgramStatus, Orders, Last
  <1>9. /\ new.stages = passed
        /\ o = Last => new.status = "COMPLETED" /\ new.current = o
        /\ o # Last => new.status = "ACTIVE" /\ new.current = o + 1
    BY <1>3
  <1> HIDE DEF new, passed, row
  <1>10. Climbs(new)
    <2>1. CASE o = Last
      BY <1>1, <1>3, <1>6, <1>9, <2>1 DEF Climbs, Of, Orders, Last
    <2>2. CASE o # Last
      <3>1. o + 1 \in Orders /\ o + 1 # o
        BY <1>7, <2>2 DEF Orders, Last
      <3>2. \A m \in Orders : (m < o + 1 <=> m < o \/ m = o) /\ (m > o + 1 => m > o /\ m # o)
        BY <1>7 DEF Orders, Last
      <3>3. Of(row, o + 1) \in {"PENDING", "SKIPPED"}
        BY <1>1, <1>3, <3>1 DEF Climbs, Orders
      <3>4. Of(new, o + 1) # "PASSED"
        BY <1>6, <1>9, <3>1, <3>3 DEF Of
      <3>5. \A m \in Orders : m < o + 1 => Of(new, m) = "PASSED"
        BY <1>1, <1>3, <1>6, <1>9, <3>2 DEF Climbs, Of
      <3>6. \A m \in Orders : m > o + 1 => Of(new, m) \in {"PENDING", "SKIPPED"}
        BY <1>1, <1>3, <1>6, <1>9, <3>2 DEF Climbs, Of
      <3>7. QED
        BY <1>9, <2>2, <3>4, <3>5, <3>6 DEF Climbs
    <2>3. QED
      BY <2>1, <2>2
  <1>11. Rests(new)
    <2>1. \A m \in Orders :
            /\ new.stages[m].run = row.stages[m].run
            /\ new.stages[m].since = row.stages[m].since
            /\ new.stages[m].clean = row.stages[m].clean
            /\ m # o => new.stages[m].status = row.stages[m].status
      BY <1>6, <1>9
    <2>2. \A m \in Orders : Of(new, m) = "PASSED" => new.stages[m].clean
      BY <1>1, <2>1 DEF Rests, Of
    <2>3. \A m \in Orders : Of(new, m) \in {"AWAITING_SIGNOFF", "PASSED"}
                              => new.stages[m].run # 0
      BY <1>1, <2>1 DEF Rests, Of
    <2>4. QED
      BY <1>1, <2>1, <2>2, <2>3 DEF Rests
  <1>12. QED
    BY <1>1, <1>2, <1>8, <1>10, <1>11, RowStep

\* A stage that fails keeps its run until it starts again.
LEMMA FailFits ==
    ASSUME PilotInv, NEW p \in Programs, NEW o \in Orders, FailStage(p, o)
    PROVE  PilotInv'
  <1> DEFINE row == program[p]
             failed == [row.stages EXCEPT ![o].status = "FAILED"]
             new == [status |-> "PAUSED", current |-> row.current, stages |-> failed]
  <1>1. row \in ProgramRow /\ Climbs(row) /\ Rests(row) /\ attaching[p] = None
        /\ row.stages[o].status = "AWAITING_SIGNOFF"
    BY FitProgram DEF FailStage, Free
  <1>2. row.stages \in [Orders -> StageRow] /\ row.current \in Orders
    BY <1>1 DEF ProgramRow
  <1>3. program' = [program EXCEPT ![p] = new] /\ UNCHANGED <<stageVars, attaching>>
    BY DEF FailStage, PilotInv, ProgramTypes
  <1>4. o = row.current
    BY <1>1, CurrentIsTried DEF Of
  <1>5. failed \in [Orders -> StageRow]
    BY <1>2 DEF StageRow
  <1>6. /\ failed[o].status = "FAILED" /\ failed[o].run = row.stages[o].run
        /\ failed[o].since = row.stages[o].since /\ failed[o].clean = row.stages[o].clean
        /\ \A m \in Orders \ {o} : failed[m] = row.stages[m]
    BY <1>2 DEF StageRow
  <1>7. new \in ProgramRow
    BY <1>2, <1>5 DEF ProgramRow, ProgramStatus
  <1>8. new.stages = failed /\ new.status = "PAUSED" /\ new.current = row.current
    OBVIOUS
  <1> HIDE DEF new, failed, row
  <1>9. Climbs(new)
    BY <1>1, <1>4, <1>6, <1>8 DEF Climbs, Of, Orders
  <1>10. Rests(new)
    BY <1>1, <1>6, <1>8 DEF Rests, Of
  <1>11. QED
    BY <1>1, <1>3, <1>7, <1>9, <1>10, RowStep

\* Cancelling skips what has not passed or failed.
LEMMA CancelFits ==
    ASSUME PilotInv, NEW p \in Programs, CancelProgram(p)
    PROVE  PilotInv'
  <1> DEFINE row == program[p]
             kept == [o \in Orders |-> Skipped(row.stages[o])]
             new == [status |-> "CANCELLED", current |-> row.current, stages |-> kept]
  <1>1. row \in ProgramRow /\ Climbs(row) /\ Rests(row) /\ attaching[p] = None
        /\ row.status \in Unfinished
    BY FitProgram DEF CancelProgram, Free
  <1>2. row.stages \in [Orders -> StageRow] /\ row.current \in Orders
    BY <1>1 DEF ProgramRow
  <1>3. program' = [program EXCEPT ![p] = new] /\ UNCHANGED <<stageVars, attaching>>
    BY DEF CancelProgram, PilotInv, ProgramTypes
  <1>4. \A o \in Orders :
          /\ kept[o] \in StageRow /\ kept[o].run = row.stages[o].run
          /\ kept[o].since = row.stages[o].since /\ kept[o].clean = row.stages[o].clean
          /\ IF row.stages[o].status \in {"PENDING", "RUNNING", "AWAITING_SIGNOFF"}
               THEN kept[o].status = "SKIPPED" ELSE kept[o].status = row.stages[o].status
    BY <1>2 DEF Skipped, StageRow
  <1>5. new \in ProgramRow
    <2>1. kept \in [Orders -> StageRow]
      BY <1>4
    <2>2. QED
      BY <1>2, <2>1 DEF ProgramRow, ProgramStatus
  <1>6. new.stages = kept /\ new.status = "CANCELLED" /\ new.current = row.current
    OBVIOUS
  <1> HIDE DEF new, kept, row
  <1>7. \A o \in Orders : Of(new, o) \notin {"RUNNING", "AWAITING_SIGNOFF"}
    BY <1>2, <1>4, <1>6 DEF Of, StageRow
  <1>8. \A o \in Orders : Of(new, o) = "PASSED" <=> Of(row, o) = "PASSED"
    BY <1>2, <1>4, <1>6 DEF Of, StageRow
  <1>9. Climbs(new)
    <2>1. \A o \in Orders : o > row.current => Of(new, o) \in {"PENDING", "SKIPPED"}
      BY <1>1, <1>4, <1>6 DEF Climbs, Of
    <2>2. Of(new, row.current) # "PASSED"
      BY <1>1, <1>2, <1>8 DEF Climbs, Unfinished
    <2>3. QED
      BY <1>1, <1>6, <1>7, <1>8, <2>1, <2>2 DEF Climbs
  <1>10. Rests(new)
    BY <1>1, <1>4, <1>6, <1>7, <1>8 DEF Rests, Of
  <1>11. QED
    BY <1>1, <1>3, <1>5, <1>9, <1>10, RowStep

-----------------------------------------------------------------------------
(***************************************************************************)
(* The invariant and what follows from it.                                 *)
(***************************************************************************)

LEMMA PilotInit == Init => PilotInv
  <1> SUFFICES ASSUME Init PROVE PilotInv
    OBVIOUS
  <1>1. NoJobs \in RunJobs
    BY JobsAre DEF NoJobs, RunJobStatus, Over
  <1>2. RunTypes
    BY <1>1 DEF Init, StageInit, RunTypes
  <1>3. 0 \in Orders /\ Orders \subseteq Nat
    BY ProgramAssumption DEF Orders
  <1>4. FreshStage \in StageRow /\ FreshStage.status = "PENDING" /\ FreshStage.run = 0
    BY PilotAssumption DEF FreshStage, StageRow
  <1>5. NoProgram \in ProgramRow
    BY <1>3, <1>4 DEF NoProgram, ProgramRow, ProgramStatus
  <1>6. NoProgram.status = "NONE" /\ NoProgram.current = 0
        /\ \A o \in Orders : NoProgram.stages[o] = FreshStage
    BY DEF NoProgram
  <1>7. ProgramTypes
    BY <1>5 DEF Init, ProgramTypes
  <1>8. Climbs(NoProgram)
    BY <1>3, <1>4, <1>6 DEF Climbs, Of
  <1>9. Rests(NoProgram)
    BY <1>4, <1>6 DEF Rests, Of
  <1>10. \A p \in Programs : ProgramFits(p)
    BY <1>8, <1>9 DEF Init, ProgramFits
  <1>11. QED
    BY <1>2, <1>7, <1>10 DEF PilotInv

LEMMA PilotStep == PilotInv /\ [Next]_vars => PilotInv'
  <1> SUFFICES ASSUME PilotInv, [Next]_vars PROVE PilotInv'
    OBVIOUS
  <1>1. CASE ProgramMoves
    <2>1. PICK p \in Programs :
            \/ CheckProgram(p) \/ InsertProgram(p) \/ AttachRun(p) \/ CancelProgram(p)
            \/ \E o \in Orders :
                 \/ StartStage(p, o) \/ PassStage(p, o) \/ FailStage(p, o)
                 \/ \E r \in Runs : GatherEvidence(p, o, r)
      BY <1>1 DEF ProgramMoves
    <2>2. QED
      BY <2>1, CreationFits, AttachFits, CancelFits, StartFits, PassFits, FailFits, GatherFits
  <1>2. ASSUME UNCHANGED <<program, attaching>>, RunTypes',
               \A q \in Runs : Ended(q) => runs'[q] = runs[q]
        PROVE  PilotInv'
    <2>1. \A p \in Programs : ProgramFits(p)'
      BY <1>2, UntouchedFits DEF PilotInv
    <2>2. ProgramTypes'
      BY <1>2 DEF PilotInv, ProgramTypes
    <2>3. QED
      BY <1>2, <2>1, <2>2 DEF PilotInv
  <1>3. CASE StageNext /\ UNCHANGED <<program, attaching>>
    BY <1>2, <1>3, EndedStays DEF PilotInv
  <1>4. CASE UNCHANGED vars
    BY <1>2, <1>4 DEF PilotInv, RunTypes, vars, stageVars
  <1>5. QED
    BY <1>1, <1>3, <1>4 DEF Next

\* The inductive invariant holds in every reachable state.
THEOREM PilotInvariant == Spec => []PilotInv
  BY PilotInit, PilotStep, PTL DEF Spec

\* Programs, their stages and the evidence that is being gathered keep their types.
THEOREM ProgramTypeCorrect == Spec => []ProgramTypeOK
  <1>1. PilotInv => ProgramTypeOK
    BY DEF PilotInv, ProgramTypes, ProgramTypeOK, Evidences
  <1>2. QED
    BY <1>1, PilotInvariant, PTL

\* Every program climbs its stages in order and is complete exactly when all have passed.
THEOREM ProgramsClimbInOrder == Spec => []StagesInOrder
  <1>1. PilotInv => StagesInOrder
    <2> SUFFICES ASSUME PilotInv, NEW p \in Programs
                 PROVE  LET row == program[p]
                            of(o) == row.stages[o].status
                        IN  /\ \A o \in Orders : o < row.current => of(o) = "PASSED"
                            /\ \A o \in Orders : o > row.current => of(o) \in {"PENDING", "SKIPPED"}
                            /\ row.status = "COMPLETED" <=> \A o \in Orders : of(o) = "PASSED"
                            /\ (\E o \in Orders : of(o) \in {"RUNNING", "AWAITING_SIGNOFF"})
                                 => row.status = "ACTIVE"
      BY DEF StagesInOrder
    <2> DEFINE row == program[p]
    <2>1. row \in ProgramRow /\ Climbs(row)
      BY FitProgram
    <2>2. row.current \in Orders
      BY <2>1 DEF ProgramRow
    <2> HIDE DEF row
    <2>3. row.status = "COMPLETED" => \A o \in Orders : Of(row, o) = "PASSED"
      <3>1. \A o \in Orders : o <= Last /\ (o < Last \/ o = Last)
        BY ProgramAssumption DEF Orders, Last
      <3>2. QED
        BY <2>1, <3>1 DEF Climbs
    <2>4. (\A o \in Orders : Of(row, o) = "PASSED") => row.status = "COMPLETED"
      BY <2>1, <2>2 DEF Climbs
    <2>5. QED
      BY <2>1, <2>3, <2>4 DEF Climbs, Of, row
  <1>2. QED
    BY <1>1, PilotInvariant, PTL

\* Every passed stage rests on a run of its own that delivered to each of its destinations.
THEOREM PassedStagesDelivered == Spec => []PassedStageDelivered
  <1>1. PilotInv => PassedStageDelivered
    <2> SUFFICES ASSUME PilotInv, NEW p \in Programs, NEW o \in Orders,
                        program[p].stages[o].status = "PASSED"
                 PROVE  LET row == program[p].stages[o] IN
                        /\ row.run \in Runs /\ row.run > row.since
                        /\ Cardinality(DOMAIN runs[row.run]) = Target(o)
                        /\ In(row.run, {"SENT", "FAKE"}) = DOMAIN runs[row.run]
                        /\ \A n \in Orders \ {o} : program[p].stages[n].run # row.run
      BY DEF PassedStageDelivered
    <2> DEFINE row == program[p].stages[o]
               all == DOMAIN runs[row.run]
               reached == In(row.run, {"SENT", "FAKE"})
    <2>1. Rests(program[p])
      BY FitProgram
    <2>2. /\ row.run \in Runs /\ row.run > row.since /\ NoBlocker(o, row.run)
          /\ \A n \in Orders \ {o} : program[p].stages[n].run # row.run
      BY <2>1 DEF Rests, Proves, Of
    <2>3. Cardinality(all) = Target(o) /\ Cardinality(reached) = Target(o)
      BY <2>2 DEF NoBlocker
    <2>4. reached \subseteq all
      BY DEF In
    <2>5. IsFiniteSet(all)
      <3>1. all \in SUBSET Destinations
        BY <2>2, JobsAre DEF PilotInv, RunTypes
      <3>2. QED
        BY <3>1, PilotAssumption, FS_Subset
    <2>6. reached = all
      BY <2>3, <2>4, <2>5, FS_Subset
    <2>7. QED
      BY <2>2, <2>3, <2>6
  <1>2. QED
    BY <1>1, PilotInvariant, PTL

-----------------------------------------------------------------------------
(***************************************************************************)
(* The organization's stage.                                               *)
(***************************************************************************)

\* The checks for a rise to stage s, made on the evidence e that was seen.
Supports(e, s) ==
    /\ ~e.fake /\ e.fit /\ e.canary # 0 /\ e.reviews = 0
    /\ \/ RunEvidence[s] = 0
       \/ /\ e.run # 0
          /\ LET sent == Cardinality({d \in DOMAIN e.jobs : e.jobs[d] \in {"SENT"}})
                 failed == Cardinality({d \in DOMAIN e.jobs : e.jobs[d] \in {"FAILED"}})
             IN  sent >= RunEvidence[s] /\ failed * 100 <= MaxFailurePercent * (sent + failed)

StageTypes ==
    /\ stage \in Stages /\ fake \in BOOLEAN /\ fit \in BOOLEAN
    /\ canary \in Canary /\ latest \in 0 .. MaxRuns

\* An assessment that is kept saw what it takes to rise from its stage.
StageInv ==
    /\ RunTypes /\ StageTypes
    /\ canary.valid => canary.made # 0
    /\ \A a \in assessments :
         a.from \in Stages /\ a.from + 1 \in Stages /\ Supports(a.seen, a.from + 1)

\* The fingerprint tells everything the checks look at.
LEMMA EvidenceTells ==
    ASSUME StageInv, NEW s \in Stages
    PROVE  Supports(Evidence, s) <=> ChecksPass(s)
  <1> DEFINE e == Evidence
  <1>1. /\ e.fit = fit /\ e.fake = fake /\ e.run = latest
        /\ e.canary = IF canary.valid THEN canary.made ELSE 0
        /\ e.jobs = IF latest = 0 THEN NoJobs ELSE runs[latest]
        /\ e.reviews = Cardinality(Reviews)
    BY DEF Evidence
  <1> HIDE DEF e
  <1>2. e.canary # 0 <=> canary.valid
    BY <1>1 DEF StageInv, StageTypes, Canary
  <1>3. e.reviews = 0 <=> Reviews = {}
    <2>1. IsFiniteSet(Runs)
      BY FS_Interval, PilotAssumption DEF Runs
    <2>2. IsFiniteSet(Runs \X Destinations)
      BY <2>1, FS_Product, PilotAssumption
    <2>3. IsFiniteSet(Reviews)
      BY <2>2, FS_Subset DEF Reviews
    <2>4. QED
      BY <1>1, <2>3, FS_EmptySet
  <1>4. latest # 0 => \A S : {d \in DOMAIN e.jobs : e.jobs[d] \in S} = In(latest, S)
    BY <1>1 DEF In
  <1>5. ASSUME latest # 0
        PROVE  /\ {d \in DOMAIN e.jobs : e.jobs[d] \in {"SENT"}} = In(latest, {"SENT"})
               /\ {d \in DOMAIN e.jobs : e.jobs[d] \in {"FAILED"}} = In(latest, {"FAILED"})
    BY <1>4, <1>5
  <1>6. Supports(e, s) <=>
          /\ ~fake /\ fit /\ canary.valid /\ Reviews = {} /\ RunSuffices(s)
    <2>1. CASE latest = 0
      BY <1>1, <1>2, <1>3, <2>1 DEF Supports, RunSuffices
    <2>2. CASE latest # 0
      BY <1>1, <1>2, <1>3, <1>5, <2>2 DEF Supports, RunSuffices
    <2>3. QED
      BY <2>1, <2>2
  <1>7. QED
    BY <1>6 DEF ChecksPass, e

LEMMA StageInitFits == Init => StageInv
  <1> SUFFICES ASSUME Init PROVE StageInv
    OBVIOUS
  <1>1. RunTypes
    BY PilotInit DEF PilotInv
  <1>2. Local \in Stages
    BY PilotAssumption DEF Stages, Local
  <1>3. QED
    <2>1. canary.made = 0 /\ canary.valid = FALSE /\ canary \in Canary
      BY PilotAssumption DEF Init, StageInit, Canary
    <2>2. latest \in 0 .. MaxRuns
      BY PilotAssumption DEF Init, StageInit
    <2>3. QED
      BY <1>1, <1>2, <2>1, <2>2 DEF Init, StageInit, StageInv, StageTypes

\* What is done to programs leaves the stage alone.
LEMMA MovesOfPrograms == ProgramMoves => UNCHANGED stageVars
  <1>1. ASSUME NEW p \in Programs,
               CheckProgram(p) \/ InsertProgram(p) \/ AttachRun(p) \/ CancelProgram(p)
        PROVE  UNCHANGED stageVars
    BY <1>1 DEF CheckProgram, InsertProgram, AttachRun, CancelProgram
  <1>2. ASSUME NEW p \in Programs, NEW o \in Orders,
               \/ StartStage(p, o) \/ PassStage(p, o) \/ FailStage(p, o)
               \/ \E r \in Runs : GatherEvidence(p, o, r)
        PROVE  UNCHANGED stageVars
    BY <1>2 DEF StartStage, PassStage, FailStage, GatherEvidence
  <1>3. QED
    BY <1>1, <1>2 DEF ProgramMoves

LEMMA StageStep == StageInv /\ [Next]_vars => StageInv'
  <1> SUFFICES ASSUME StageInv, [Next]_vars PROVE StageInv'
    OBVIOUS
  <1>1. CASE UNCHANGED stageVars
    BY <1>1 DEF StageInv, StageTypes, RunTypes, stageVars, Supports
  <1>2. CASE StageNext
    <2>1. RunTypes'
      BY <1>2, EndedStays DEF StageInv
    <2>2. CASE AssessStage
      <3>1. stage + 1 \in Stages /\ Supports(Evidence, stage + 1)
        BY <2>2, EvidenceTells DEF AssessStage
      <3> DEFINE new == [from |-> stage, seen |-> Evidence]
      <3>2. new.from = stage /\ new.seen = Evidence
        OBVIOUS
      <3>3. /\ assessments' = assessments \cup {new}
            /\ UNCHANGED <<stage, fake, fit, canary, latest>>
        BY <2>2 DEF AssessStage
      <3> HIDE DEF new
      <3>4. \A a \in assessments' :
              a.from \in Stages /\ a.from + 1 \in Stages /\ Supports(a.seen, a.from + 1)
        BY <3>1, <3>2, <3>3 DEF StageInv, StageTypes
      <3>5. QED
        BY <2>1, <3>3, <3>4 DEF StageInv, StageTypes
    <2>3. CASE \E a \in assessments : AdvanceStage(a)
      BY <2>1, <2>3 DEF AdvanceStage, IsCurrent, StageInv, StageTypes
    <2>4. CASE \E a \in assessments : ExpireAssessment(a)
      BY <2>1, <2>4 DEF ExpireAssessment, StageInv, StageTypes
    <2>5. CASE \E s \in Stages : LowerStage(s)
      BY <2>1, <2>5 DEF LowerStage, StageInv, StageTypes
    <2>6. CASE SendCanary \/ CanaryAges
      <3>1. canary' \in Canary /\ (canary'.valid => canary'.made # 0)
        <4>1. /\ canary \in [made: 0 .. MaxCanaries, valid: BOOLEAN]
              /\ canary.made \in 0 .. MaxCanaries
          BY DEF StageInv, StageTypes, Canary
        <4>2. CASE SendCanary
          <5>1. canary.made + 1 \in 0 .. MaxCanaries /\ canary.made + 1 # 0
            BY <2>6, <4>1, <4>2, PilotAssumption DEF SendCanary
          <5>2. canary' = [made |-> canary.made + 1, valid |-> TRUE]
            BY <4>2 DEF SendCanary
          <5>3. QED
            BY <5>1, <5>2 DEF Canary
        <4>3. CASE CanaryAges
          <5>1. canary' = [canary EXCEPT !.valid = FALSE]
            BY <4>3 DEF CanaryAges
          <5>2. canary' \in Canary /\ canary'.valid = FALSE
            BY <4>1, <5>1 DEF Canary
          <5>3. QED
            BY <5>2
        <4>4. QED
          BY <2>6, <4>2, <4>3
      <3>2. UNCHANGED <<stage, fake, fit, latest, assessments>>
        BY <2>6 DEF SendCanary, CanaryAges
      <3>3. QED
        BY <2>1, <3>1, <3>2 DEF StageInv, StageTypes
    <2>7. CASE LoseCanary \/ Surroundings \/ ResumeConnection
      <3>1. fit' \in BOOLEAN /\ UNCHANGED <<stage, fake, canary, latest, assessments>>
        BY <2>7 DEF LoseCanary, Surroundings, ResumeConnection
      <3>2. QED
        BY <2>1, <3>1 DEF StageInv, StageTypes
    <2>8. CASE Restart
      BY <2>1, <2>8 DEF Restart, StageInv, StageTypes
    <2>9. CASE CreateRun \/ \E R \in NonemptyRoutes : EditRoute(R)
      BY <2>1, <2>9 DEF CreateRun, EditRoute, StageInv, StageTypes
    <2>10. CASE JobMoves
      <3>1. latest' \in Runs \cup {latest} /\ UNCHANGED <<stage, fake, fit, canary, assessments>>
        <4>1. PICK r \in Runs, d \in Destinations, to \in RunJobStatus : Settle(r, d, to)
          BY <2>10 DEF JobMoves, Take, Withhold, Deliver, Fail, LoseSend, Resolve, RunJobStatus, Over
        <4>2. QED
          BY <4>1 DEF Settle
      <3>2. latest' \in 0 .. MaxRuns
        BY <3>1 DEF StageInv, StageTypes, Runs
      <3>3. QED
        BY <2>1, <3>1, <3>2 DEF StageInv, StageTypes
    <2>11. QED
      BY <1>2, <2>2, <2>3, <2>4, <2>5, <2>6, <2>7, <2>8, <2>9, <2>10 DEF StageNext
  <1>3. QED
    BY <1>1, <1>2, MovesOfPrograms DEF Next, vars

\* The stage, what it depends on and its assessments keep their types.
THEOREM StageTypeCorrect == Spec => []StageTypeOK
  <1>1. StageInv => StageTypeOK
    BY DEF StageInv, StageTypes, RunTypes, StageTypeOK
  <1>2. QED
    BY <1>1, StageInitFits, StageStep, PTL DEF Spec

\* The stage of the organization (advance_stage of app/services/pilot_stages.py) rises by
\* one only, and only while every check for the next stage would pass, though the assessment
\* was made before: its fingerprint tells everything the checks look at.
THEOREM StageRisesOnEvidence == Spec => StageClimbsOnEvidence
  <1>1. StageInv /\ [Next]_vars =>
          [stage' > stage => stage' = stage + 1 /\ ChecksPass(stage + 1)]_stageVars
    <2> SUFFICES ASSUME StageInv, [Next]_vars, stage' > stage
                 PROVE  stage' = stage + 1 /\ ChecksPass(stage + 1)
      OBVIOUS
    <2>1. stage \in Nat
      BY PilotAssumption DEF StageInv, StageTypes, Stages
    <2>2. CASE stage' = stage
      BY <2>1, <2>2
    <2>3. CASE \E a \in assessments : AdvanceStage(a)
      <3> PICK a \in assessments : AdvanceStage(a)
        BY <2>3
      <3>1. /\ stage' = stage + 1 /\ stage + 1 \in Stages
            /\ a.from = stage /\ a.seen = Evidence
        BY DEF AdvanceStage, IsCurrent
      <3>2. Supports(Evidence, stage + 1)
        BY <3>1 DEF StageInv
      <3>3. QED
        BY <3>1, <3>2, EvidenceTells
    <2>4. CASE \E s \in Stages : LowerStage(s)
      BY <2>1, <2>4 DEF LowerStage, Stages
    <2>5. StageNext => \/ stage' = stage \/ (\E a \in assessments : AdvanceStage(a))
                       \/ \E s \in Stages : LowerStage(s)
      <3>1. AssessStage \/ SendCanary \/ LoseCanary \/ CanaryAges => stage' = stage
        BY DEF AssessStage, SendCanary, LoseCanary, CanaryAges
      <3>2. CreateRun \/ ResumeConnection \/ Surroundings \/ Restart => stage' = stage
        BY DEF CreateRun, ResumeConnection, Surroundings, Restart
      <3>3. /\ \A a \in assessments : ExpireAssessment(a) => stage' = stage
            /\ \A R \in NonemptyRoutes : EditRoute(R) => stage' = stage
        BY DEF ExpireAssessment, EditRoute
      <3>4. JobMoves => stage' = stage
        BY DEF JobMoves, Take, Withhold, Deliver, Fail, LoseSend, Resolve, Settle
      <3>5. QED
        BY <3>1, <3>2, <3>3, <3>4 DEF StageNext
    <2>6. ProgramMoves \/ UNCHANGED vars => stage' = stage
      BY MovesOfPrograms DEF vars, stageVars
    <2>7. QED
      BY <2>2, <2>3, <2>4, <2>5, <2>6 DEF Next
  <1>2. QED
    BY <1>1, StageInitFits, StageStep, PTL DEF Spec, StageClimbsOnEvidence

-----------------------------------------------------------------------------
(***************************************************************************)
(* Capacity: the inductive invariant.                                      *)
(***************************************************************************)

Delivering == {"claimed", "prepared", "reserved", "fenced", "calling"}

\* A worker is alone with its job, which is ready while it is claimed and processing
\* from then on.
WorkersApart ==
    \A w \in Workers :
        /\ worker[w].pc = "idle" <=> worker[w].job = Nobody
        /\ worker[w].job # Nobody => \A v \in Workers \ {w} : worker[v].job # worker[w].job
        /\ worker[w].pc = "claiming" => job[worker[w].job] = "ready"
        /\ worker[w].pc \in Delivering => job[worker[w].job] = "processing"

\* What a request has been promised is still there when it commits.
RoomIsKept ==
    \A c \in Callers : request[c].op # "none" =>
        /\ \A j \in request[c].jobs : job[j] \notin {"ready", "processing"}
        /\ \A j \in request[c].held : job[j] = "absent"
        /\ Cardinality(Active \cup request[c].jobs \cup request[c].held) <= MaxActive
        /\ Cardinality((Ready \ ungated) \cup request[c].jobs) <= MaxReady

CountsGrow ==
    \A a, b \in 0 .. Window + MaxWait : a <= b => starts[a] <= starts[b]

\* The attempt that reserves a call is counted as long as the claim is valid; from the
\* reservation on, while the policy is locked, there is room for one more call.
CallIsReserved ==
    \A w \in Workers :
        /\ worker[w].pc = "prepared" =>
              /\ attempt[worker[w].job].state = "prepared"
              /\ attempt[worker[w].job].age <= worker[w].age
        /\ (worker[w].pc = "reserved" /\ StillValid(w)) \/ worker[w].pc = "fenced" =>
              starts[Window] + 1 <= worker[w].limit

CapacityInv ==
    /\ CapacityTypeOK /\ WorkersApart /\ RoomIsKept /\ QueueKeepsItsLimits
    /\ CountsGrow /\ CallIsReserved

-----------------------------------------------------------------------------
LEMMA CapacityConstants ==
    ASSUME CapacityAssumption
    PROVE  /\ IsFiniteSet(Jobs) /\ Callers \cap Workers = {}
           /\ Nobody \notin Workers /\ Nobody \notin Jobs /\ Nobody \notin Callers
           /\ Window \in Nat /\ Window > 0 /\ LeaseTTL \in Nat /\ LeaseTTL <= Window
           /\ MaxActive \in Nat /\ MaxActive > 0 /\ MaxReady \in Nat /\ MaxReady > 0
           /\ MaxProcessing \in Nat /\ MaxProcessing > 0
           /\ MaxWait \in Nat /\ SpendBound \in Nat /\ StartLimits \subseteq Nat
           /\ Old \in Nat /\ Old > Window
    BY DEF CapacityAssumption, Old

LEMMA CountsOfJobs ==
    ASSUME CapacityAssumption, NEW S, NEW T, S \subseteq T, T \subseteq Jobs
    PROVE  /\ IsFiniteSet(S) /\ IsFiniteSet(T)
           /\ Cardinality(S) \in Nat /\ Cardinality(T) \in Nat
           /\ Cardinality(S) <= Cardinality(T)
<1>1. IsFiniteSet(T)
    BY CapacityConstants, FS_Subset
<1>2. IsFiniteSet(S) /\ Cardinality(S) <= Cardinality(T)
    BY <1>1, FS_Subset
<1> QED
    BY <1>1, <1>2, FS_CardinalityType

\* One job more or less, or another set of jobs beside it.
LEMMA CountsOfUnion ==
    ASSUME CapacityAssumption, NEW S \in SUBSET Jobs, NEW T \in SUBSET Jobs
    PROVE  Cardinality(S \cup T) <= Cardinality(S) + Cardinality(T)
<1>1. IsFiniteSet(S) /\ IsFiniteSet(T) /\ IsFiniteSet(S \cap T)
    BY CountsOfJobs
<1>2. Cardinality(S \cup T) = Cardinality(S) + Cardinality(T) - Cardinality(S \cap T)
    BY <1>1, FS_Union
<1>3. Cardinality(S) \in Nat /\ Cardinality(T) \in Nat /\ Cardinality(S \cap T) \in Nat
    BY <1>1, FS_CardinalityType
<1> QED
    BY <1>2, <1>3

LEMMA CountsOfOther ==
    ASSUME CapacityAssumption, NEW S \in SUBSET Jobs, NEW j \in S
    PROVE  Cardinality(S \ {j}) = Cardinality(S) - 1
<1>1. IsFiniteSet(S)
    BY CountsOfJobs
<1> QED
    BY <1>1, FS_RemoveElement

LEMMA QueueSets ==
    /\ Active \subseteq Jobs /\ Ready \subseteq Active /\ Processing \subseteq Ready
    /\ Active' \subseteq Jobs /\ Ready' \subseteq Active' /\ Processing' \subseteq Ready'
    BY DEF Active, Ready, Processing, Having

-----------------------------------------------------------------------------
(***************************************************************************)
(* The queue.                                                              *)
(***************************************************************************)

\* Nothing enters the queue, and what requests wait for stays as it is.
LEMMA QueueStep ==
    ASSUME CapacityAssumption, CapacityTypeOK, RoomIsKept, QueueKeepsItsLimits,
           request' = request,
           \A c \in Callers : request[c].op # "none" =>
               \A j \in request[c].jobs \cup request[c].held : job'[j] = job[j],
           Active' \subseteq Active, Ready' \ ungated' \subseteq Ready \ ungated,
           Cardinality(Processing') <= MaxProcessing
    PROVE  RoomIsKept' /\ QueueKeepsItsLimits'
<1>1. Cardinality(Active') <= MaxActive /\ Cardinality(Ready' \ ungated') <= MaxReady
    <2>1. /\ Cardinality(Active') <= Cardinality(Active)
          /\ Cardinality(Active') \in Nat /\ Cardinality(Active) \in Nat
        BY QueueSets, CountsOfJobs
    <2>2. Ready \ ungated \subseteq Jobs
        BY QueueSets
    <2>3. /\ Cardinality(Ready' \ ungated') <= Cardinality(Ready \ ungated)
          /\ Cardinality(Ready' \ ungated') \in Nat /\ Cardinality(Ready \ ungated) \in Nat
        BY <2>2, CountsOfJobs
    <2> QED
        BY <2>1, <2>3, CapacityConstants DEF QueueKeepsItsLimits
<1>2. ASSUME NEW c \in Callers, request[c].op # "none"
      PROVE  /\ \A j \in request[c].jobs : job'[j] \notin {"ready", "processing"}
             /\ \A j \in request[c].held : job'[j] = "absent"
             /\ Cardinality(Active' \cup request[c].jobs \cup request[c].held) <= MaxActive
             /\ Cardinality((Ready' \ ungated') \cup request[c].jobs) <= MaxReady
    <2> DEFINE was == Active \cup request[c].jobs \cup request[c].held
               is == Active' \cup request[c].jobs \cup request[c].held
               due == (Ready \ ungated) \cup request[c].jobs
               still == (Ready' \ ungated') \cup request[c].jobs
    <2>1. /\ \A j \in request[c].jobs : job[j] \notin {"ready", "processing"}
          /\ \A j \in request[c].held : job[j] = "absent"
          /\ Cardinality(was) <= MaxActive /\ Cardinality(due) <= MaxReady
        BY <1>2 DEF RoomIsKept
    <2>2. request[c].jobs \subseteq Jobs /\ request[c].held \subseteq Jobs
        BY <1>2 DEF CapacityTypeOK, RequestRow
    <2>3. is \subseteq was /\ was \subseteq Jobs /\ still \subseteq due /\ due \subseteq Jobs
        BY <2>2, QueueSets
    <2> HIDE DEF was, is, due, still
    <2>4. /\ Cardinality(is) <= Cardinality(was) /\ Cardinality(still) <= Cardinality(due)
          /\ Cardinality(is) \in Nat /\ Cardinality(was) \in Nat
          /\ Cardinality(still) \in Nat /\ Cardinality(due) \in Nat
        BY <2>3, CountsOfJobs
    <2>5. Cardinality(is) <= MaxActive /\ Cardinality(still) <= MaxReady
        BY <2>1, <2>4, CapacityConstants
    <2>6. /\ \A j \in request[c].jobs : job'[j] \notin {"ready", "processing"}
          /\ \A j \in request[c].held : job'[j] = "absent"
        BY <1>2, <2>1
    <2> QED
        BY <2>5, <2>6 DEF is, still
<1> QED
    BY <1>1, <1>2 DEF RoomIsKept, QueueKeepsItsLimits

\* A job that leaves the queue, or goes back in it.
LEMMA QueueMove ==
    ASSUME CapacityAssumption, CapacityTypeOK, RoomIsKept, QueueKeepsItsLimits,
           NEW j \in Jobs, NEW s \in {"ready", "review", "settled"},
           job' = [job EXCEPT ![j] = s], request' = request,
           job[j] \in {"held", "ready", "processing", "review"},
           s = "ready" => job[j] \in {"ready", "processing"},
           ungated' = IF s = "ready" THEN ungated ELSE ungated \ {j},
           \A c \in Callers : request[c].op # "none" => j \notin request[c].jobs
    PROVE  RoomIsKept' /\ QueueKeepsItsLimits'
<1>1. job'[j] = s /\ \A i \in Jobs : i # j => job'[i] = job[i]
    BY DEF CapacityTypeOK
<1>2. Active' \subseteq Active
    BY <1>1 DEF Active, Having
<1>3. Ready' \ ungated' \subseteq Ready \ ungated
    BY <1>1 DEF Ready, Having
<1>4. Cardinality(Processing') <= MaxProcessing
    <2>1. Processing' \subseteq Processing /\ Processing \subseteq Jobs
        BY <1>1 DEF Processing, Having
    <2>2. /\ Cardinality(Processing') <= Cardinality(Processing)
          /\ Cardinality(Processing') \in Nat /\ Cardinality(Processing) \in Nat
        BY <2>1, CountsOfJobs
    <2> QED
        BY <2>2, CapacityConstants DEF QueueKeepsItsLimits
<1>5. ASSUME NEW c \in Callers, request[c].op # "none",
             NEW i \in request[c].jobs \cup request[c].held
      PROVE  job'[i] = job[i]
    <2>1. i \in Jobs
        BY <1>5 DEF CapacityTypeOK, RequestRow
    <2>2. i # j
        BY <1>5 DEF RoomIsKept
    <2> QED
        BY <1>1, <2>1, <2>2
<1> QED
    BY <1>2, <1>3, <1>4, <1>5, QueueStep

-----------------------------------------------------------------------------
(***************************************************************************)
(* The workers.                                                            *)
(***************************************************************************)

LEMMA WorkerFacts ==
    ASSUME CapacityAssumption, CapacityTypeOK, WorkersApart, NEW w \in Workers
    PROVE  /\ worker[w] \in WorkerRow
           /\ worker[w].pc \in Delivering \cup {"idle", "claiming"}
           /\ worker[w].pc # "idle" => worker[w].job \in Jobs
           /\ worker[w].pc = "idle" => worker[w].job \notin Jobs
           /\ worker[w].age \in Nat /\ worker[w].limit \in Nat
<1>1. worker[w] \in WorkerRow
    BY DEF CapacityTypeOK
<1>2. worker[w].age \in Nat /\ worker[w].limit \in Nat
    <2>1. worker[w].age \in Ages /\ worker[w].limit \in StartLimits \cup {0}
        BY <1>1 DEF WorkerRow
    <2>2. Old \in Nat /\ StartLimits \subseteq Nat
        BY CapacityConstants
    <2>3. worker[w].limit \in Nat
        <3>1. worker[w].limit \in StartLimits \/ worker[w].limit = 0
            BY <2>1
        <3>2. worker[w].limit \in StartLimits => worker[w].limit \in Nat
            BY <2>2, Zenon
        <3>3. worker[w].limit = 0 => worker[w].limit \in Nat
            OBVIOUS
        <3> QED
            BY <3>1, <3>2, <3>3
    <2>4. worker[w].age \in Nat
        BY <2>1, <2>2 DEF Ages
    <2> QED
        BY <2>3, <2>4
<1>3. worker[w].pc \in Delivering \cup {"idle", "claiming"}
    BY <1>1 DEF WorkerRow, Delivering
<1>4. worker[w].job \in Jobs \cup {Nobody} /\ (worker[w].pc = "idle" <=> worker[w].job = Nobody)
    BY <1>1 DEF WorkerRow, WorkersApart
<1> QED
    BY <1>1, <1>2, <1>3, <1>4, CapacityConstants

\* A row that nobody has locked, and nobody delivers.
LEMMA FreeRow ==
    ASSUME CapacityAssumption, CapacityTypeOK, WorkersApart, NEW j \in Jobs,
           ~RowLocked(j), job[j] # "processing"
    PROVE  /\ \A w \in Workers : worker[w].job # j
           /\ \A c \in Callers : j \notin request[c].jobs
<1>1. ASSUME NEW w \in Workers PROVE worker[w].job # j
    <2>1. worker[w].pc = "claiming" => worker[w].job # j
        BY DEF RowLocked
    <2>2. worker[w].pc \in Delivering => job[worker[w].job] = "processing"
        BY DEF WorkersApart
    <2> QED
        BY <2>1, <2>2, WorkerFacts
<1> QED
    BY <1>1 DEF RowLocked

\* Who has the policy is alone with it.
LEMMA PolicyAlone ==
    ASSUME CapacityAssumption, CapacityTypeOK
    PROVE  /\ \A w \in Workers : lock = w => \A c \in Callers : request[c].op = "none"
           /\ lock = Nobody => \A c \in Callers : request[c].op = "none"
           /\ lock = Nobody \/ lock \in Callers =>
                 \A w \in Workers : worker[w].pc \notin {"reserved", "fenced", "calling"}
           /\ \A c, d \in Callers : request[c].op # "none" /\ request[d].op # "none" => c = d
           /\ \A w, v \in Workers : lock = w /\ v # w =>
                 worker[v].pc \notin {"reserved", "fenced", "calling"}
<1>1. /\ \A c \in Callers : (lock = c) = (request[c].op # "none")
      /\ \A w \in Workers : (lock = w) = (worker[w].pc \in {"reserved", "fenced", "calling"})
    BY DEF CapacityTypeOK
<1> QED
    BY <1>1, CapacityConstants

\* The workers stay as they are, and so do their jobs.
LEMMA WorkersStay ==
    ASSUME CapacityAssumption, CapacityTypeOK, WorkersApart, CallIsReserved,
           worker' = worker, starts' = starts,
           \A w \in Workers : worker[w].pc # "idle" =>
               /\ job'[worker[w].job] = job[worker[w].job]
               /\ worker[w].pc = "prepared" => attempt'[worker[w].job] = attempt[worker[w].job]
    PROVE  WorkersApart' /\ CallIsReserved'
<1>1. WorkersApart'
    <2>1. ASSUME NEW w \in Workers
          PROVE  /\ worker[w].pc = "claiming" => job'[worker[w].job] = "ready"
                 /\ worker[w].pc \in Delivering => job'[worker[w].job] = "processing"
        BY DEF WorkersApart, Delivering
    <2> QED
        BY <2>1 DEF WorkersApart
<1>2. CallIsReserved'
    BY DEF CallIsReserved, StillValid
<1> QED
    BY <1>1, <1>2

\* One worker goes on, with the job it has or with one that nobody has.
LEMMA WorkerMoves ==
    ASSUME CapacityAssumption, CapacityTypeOK, WorkersApart, CallIsReserved,
           NEW w \in Workers, NEW new \in WorkerRow,
           worker' = [worker EXCEPT ![w] = new],
           \A v \in Workers \ {w} :
               worker[v].pc \in {"reserved", "fenced"} => starts'[Window] = starts[Window],
           new.pc = "idle" <=> new.job = Nobody,
           new.job # Nobody => \A v \in Workers \ {w} : worker[v].job # new.job,
           new.pc = "claiming" => job'[new.job] = "ready",
           new.pc \in Delivering => job'[new.job] = "processing",
           \A v \in Workers \ {w} : worker[v].pc # "idle" =>
               /\ job'[worker[v].job] = job[worker[v].job]
               /\ worker[v].pc = "prepared" => attempt'[worker[v].job] = attempt[worker[v].job],
           new.pc = "prepared" =>
               attempt'[new.job].state = "prepared" /\ attempt'[new.job].age <= new.age,
           (new.pc = "reserved" /\ new.age < LeaseTTL) \/ new.pc = "fenced" =>
               starts'[Window] + 1 <= new.limit
    PROVE  worker' \in [Workers -> WorkerRow] /\ WorkersApart' /\ CallIsReserved'
<1>1. /\ worker' \in [Workers -> WorkerRow] /\ worker'[w] = new
      /\ \A v \in Workers : v # w => worker'[v] = worker[v]
    BY DEF CapacityTypeOK
<1>2. ASSUME NEW v \in Workers
      PROVE  /\ worker'[v].pc = "idle" <=> worker'[v].job = Nobody
             /\ worker'[v].job # Nobody => \A u \in Workers \ {v} : worker'[u].job # worker'[v].job
             /\ worker'[v].pc = "claiming" => job'[worker'[v].job] = "ready"
             /\ worker'[v].pc \in Delivering => job'[worker'[v].job] = "processing"
    <2>1. CASE v = w
        BY <1>1, <2>1
    <2>2. CASE v # w
        <3>1. /\ worker[v].pc = "idle" <=> worker[v].job = Nobody
              /\ worker[v].job # Nobody => \A u \in Workers \ {v} : worker[u].job # worker[v].job
              /\ worker[v].pc = "claiming" => job[worker[v].job] = "ready"
              /\ worker[v].pc \in Delivering => job[worker[v].job] = "processing"
            BY DEF WorkersApart
        <3>2. /\ worker[v].pc = "claiming" => job'[worker[v].job] = "ready"
              /\ worker[v].pc \in Delivering => job'[worker[v].job] = "processing"
            BY <2>2, <3>1 DEF Delivering
        <3>3. worker[v].job # Nobody => \A u \in Workers \ {v} : worker'[u].job # worker[v].job
            BY <1>1, <2>2, <3>1
        <3> QED
            BY <1>1, <2>2, <3>1, <3>2, <3>3
    <2> QED
        BY <2>1, <2>2
<1>3. WorkersApart'
    BY <1>2 DEF WorkersApart
<1>4. ASSUME NEW v \in Workers
      PROVE  /\ worker'[v].pc = "prepared" =>
                    /\ attempt'[worker'[v].job].state = "prepared"
                    /\ attempt'[worker'[v].job].age <= worker'[v].age
             /\ (worker'[v].pc = "reserved" /\ worker'[v].age < LeaseTTL)
                \/ worker'[v].pc = "fenced" => starts'[Window] + 1 <= worker'[v].limit
    <2>1. CASE v = w
        BY <1>1, <2>1
    <2>2. CASE v # w
        BY <1>1, <2>2 DEF CallIsReserved, StillValid
    <2> QED
        BY <2>1, <2>2
<1> QED
    BY <1>1, <1>3, <1>4 DEF CallIsReserved, StillValid

LEMMA IdleRow ==
    ASSUME CapacityAssumption
    PROVE  /\ IdleWorker \in WorkerRow /\ NoRequest \in RequestRow /\ NoAttempt \in AttemptRow
           /\ IdleWorker.pc = "idle" /\ IdleWorker.job = Nobody /\ NoRequest.op = "none"
<1>1. Old \in Ages
    BY CapacityConstants DEF Ages
<1> QED
    BY <1>1 DEF IdleWorker, NoRequest, NoAttempt, WorkerRow, RequestRow, AttemptRow

-----------------------------------------------------------------------------
(***************************************************************************)
(* Requests.                                                               *)
(***************************************************************************)

\* A request is granted when what it asks for fits in beside all that is there.
LEMMA AskStep ==
    ASSUME CapacityAssumption, CapacityInv, NEW c \in Callers,
           NEW op \in {"create", "retry", "release", "notsent"},
           NEW new \in SUBSET Jobs, NEW late \in SUBSET Jobs, Ask(c, op, new, late),
           spent' \in 0 .. SpendBound,
           \A j \in new : job[j] \notin {"ready", "processing"},
           \A j \in late : job[j] = "absent",
           \/ new \cup late \subseteq Active
           \/ Cardinality(Active) + Cardinality(new \cup late) <= MaxActive,
           Cardinality(Ready) + Cardinality(new) <= MaxReady
    PROVE  CapacityInv'
<1> DEFINE row == [op |-> op, jobs |-> new, held |-> late]
<1>1. /\ request' = [request EXCEPT ![c] = row] /\ lock' = c /\ lock = Nobody
      /\ UNCHANGED <<limit, job, attempt, starts, worker, lease, ungated>>
    BY DEF Ask, PolicyFree
<1>2. row \in RequestRow /\ row.op = op /\ row.jobs = new /\ row.held = late
    BY DEF RequestRow
<1> HIDE DEF row
<1>3. /\ request' \in [Callers -> RequestRow] /\ request'[c] = row
      /\ \A d \in Callers : d # c => request'[d] = request[d]
    BY <1>1, <1>2 DEF CapacityInv, CapacityTypeOK
<1>4. /\ \A d \in Callers : request[d].op = "none"
      /\ \A w \in Workers : worker[w].pc \notin {"reserved", "fenced", "calling"}
    BY <1>1, PolicyAlone DEF CapacityInv
<1>5. CapacityTypeOK'
    <2>1. c \notin Workers /\ c # Nobody
        BY CapacityConstants
    <2> QED
        BY <1>1, <1>2, <1>3, <1>4, <2>1 DEF CapacityInv, CapacityTypeOK
<1>6. WorkersApart' /\ CallIsReserved' /\ CountsGrow' /\ QueueKeepsItsLimits'
    BY <1>1 DEF CapacityInv, WorkersApart, CallIsReserved, StillValid, CountsGrow,
                QueueKeepsItsLimits, Active, Ready, Processing, Having
<1>7. Active' = Active /\ Ready' = Ready /\ ungated' = ungated
    BY <1>1 DEF Active, Ready, Having
<1>8. Cardinality(Active \cup new \cup late) <= MaxActive
    <2>1. /\ Active \subseteq Jobs /\ new \cup late \subseteq Jobs
          /\ Active \cup new \cup late = Active \cup (new \cup late)
        BY QueueSets
    <2>2. CASE new \cup late \subseteq Active
        <3>1. Active \cup new \cup late = Active
            BY <2>2
        <3> QED
            BY <3>1 DEF CapacityInv, QueueKeepsItsLimits
    <2>3. CASE Cardinality(Active) + Cardinality(new \cup late) <= MaxActive
        <3>1. Cardinality(Active \cup (new \cup late))
                 <= Cardinality(Active) + Cardinality(new \cup late)
            BY <2>1, CountsOfUnion
        <3>2. /\ Cardinality(Active) \in Nat /\ Cardinality(new \cup late) \in Nat
              /\ Cardinality(Active \cup (new \cup late)) \in Nat
            BY <2>1, CountsOfJobs
        <3> QED
            BY <2>1, <2>3, <3>1, <3>2, CapacityConstants
    <2> QED
        BY <2>2, <2>3
<1>9. Cardinality((Ready \ ungated) \cup new) <= MaxReady
    <2>1. Ready \subseteq Jobs /\ Ready \ ungated \subseteq Ready
        BY QueueSets
    <2>2. Cardinality((Ready \ ungated) \cup new) <= Cardinality(Ready \ ungated) + Cardinality(new)
        BY <2>1, CountsOfUnion
    <2>3. /\ Cardinality(Ready \ ungated) <= Cardinality(Ready)
          /\ Cardinality(Ready \ ungated) \in Nat /\ Cardinality(Ready) \in Nat
          /\ Cardinality(new) \in Nat /\ Cardinality((Ready \ ungated) \cup new) \in Nat
        BY <2>1, CountsOfJobs
    <2> QED
        BY <2>2, <2>3, CapacityConstants
<1>10. RoomIsKept'
    <2>1. ASSUME NEW d \in Callers, request'[d].op # "none" PROVE d = c
        BY <1>3, <1>4, <2>1
    <2> QED
        BY <1>1, <1>2, <1>3, <1>7, <1>8, <1>9, <2>1 DEF RoomIsKept
<1> QED
    BY <1>5, <1>6, <1>10 DEF CapacityInv

LEMMA CreateStep ==
    ASSUME CapacityAssumption, CapacityInv, NEW c \in Callers,
           NEW first \in SUBSET Having({"absent"}),
           NEW rest \in SUBSET (Having({"absent"}) \ first), AdmitRun(c, first, rest)
    PROVE  CapacityInv'
<1>1. /\ first \in SUBSET Jobs /\ rest \in SUBSET Jobs
      /\ \A j \in first \cup rest : job[j] = "absent"
    BY DEF Having
<1>2. Ask(c, "create", first, rest) /\ spent' \in 0 .. SpendBound
    BY DEF AdmitRun, CapacityInv, CapacityTypeOK
<1>3. /\ Cardinality(Active) + Cardinality(first \cup rest) <= MaxActive
      /\ Cardinality(Ready) + Cardinality(first) <= MaxReady
    <2>1. /\ Active \subseteq Jobs /\ Ready \subseteq Jobs /\ first \cup rest \subseteq Jobs
        BY <1>1, QueueSets
    <2>2. /\ Cardinality(Active) \in Nat /\ Cardinality(first \cup rest) \in Nat
          /\ Cardinality(Ready) \in Nat /\ Cardinality(first) \in Nat
        BY <1>1, <2>1, CountsOfJobs
    <2>3. /\ ~(Cardinality(Active) + Cardinality(first \cup rest) > MaxActive)
          /\ ~(Cardinality(Ready) + Cardinality(first) > MaxReady)
        BY DEF AdmitRun, Overload
    <2> QED
        BY <2>2, <2>3, CapacityConstants
<1> QED
    BY <1>1, <1>2, <1>3, AskStep

LEMMA RetryStep ==
    ASSUME CapacityAssumption, CapacityInv, NEW c \in Callers, NEW j \in Jobs, RetryJob(c, j)
    PROVE  CapacityInv'
<1>1. Ask(c, "retry", {j}, {}) /\ job[j] = "settled" /\ spent' \in 0 .. SpendBound
    BY CapacityConstants DEF RetryJob, Spend, CapacityInv, CapacityTypeOK
<1>2. {j} \in SUBSET Jobs /\ {} \in SUBSET Jobs /\ {j} \cup {} = {j} /\ Cardinality({j}) = 1
    BY FS_Singleton
<1>3. Cardinality(Active) + 1 <= MaxActive /\ Cardinality(Ready) + 1 <= MaxReady
    <2>1. Cardinality(Active) \in Nat /\ Cardinality(Ready) \in Nat
        BY QueueSets, CountsOfJobs
    <2>2. ~(Cardinality(Active) + 1 > MaxActive) /\ ~(Cardinality(Ready) + 1 > MaxReady)
        BY DEF RetryJob, Overload
    <2> QED
        BY <2>1, <2>2, CapacityConstants
<1> QED
    BY <1>1, <1>2, <1>3, AskStep

LEMMA ReleaseStep ==
    ASSUME CapacityAssumption, CapacityInv, NEW c \in Callers,
           NEW batch \in SUBSET Having({"held"}), ReleaseBatch(c, batch)
    PROVE  CapacityInv'
<1>1. /\ batch \in SUBSET Jobs /\ {} \in SUBSET Jobs /\ batch \cup {} \subseteq Active
      /\ \A j \in batch : job[j] = "held"
    BY DEF Having, Active
<1>2. Ask(c, "release", batch, {}) /\ spent' \in 0 .. SpendBound
    BY DEF ReleaseBatch, CapacityInv, CapacityTypeOK
<1>3. Cardinality(Ready) + Cardinality(batch) <= MaxReady
    <2>1. Ready \subseteq Jobs
        BY QueueSets
    <2>2. Cardinality(Ready) \in Nat /\ Cardinality(batch) \in Nat
        BY <1>1, <2>1, CountsOfJobs
    <2> QED
        BY <2>2, CapacityConstants DEF ReleaseBatch, ReadyFull
<1> QED
    BY <1>1, <1>2, <1>3, AskStep

LEMMA ConfirmStep ==
    ASSUME CapacityAssumption, CapacityInv, NEW c \in Callers, NEW j \in Jobs,
           ConfirmNotSent(c, j)
    PROVE  CapacityInv'
<1>1. /\ {j} \in SUBSET Jobs /\ {} \in SUBSET Jobs /\ {j} \cup {} \subseteq Active
      /\ job[j] = "review" /\ Cardinality({j}) = 1
    BY FS_Singleton DEF ConfirmNotSent, Uncertain, Having, Active
<1>2. Ask(c, "notsent", {j}, {}) /\ spent' \in 0 .. SpendBound
    BY DEF ConfirmNotSent, CapacityInv, CapacityTypeOK
<1>3. Cardinality(Ready) + 1 <= MaxReady
    <2>1. Cardinality(Ready) \in Nat
        BY QueueSets, CountsOfJobs
    <2> QED
        BY <2>1, CapacityConstants DEF ConfirmNotSent, ReadyFull
<1> QED
    BY <1>1, <1>2, <1>3, AskStep

LEMMA QueueStays ==
    ASSUME RoomIsKept, QueueKeepsItsLimits, UNCHANGED <<job, ungated>>,
           \A c \in Callers : request'[c] = request[c] \/ request'[c].op = "none"
    PROVE  RoomIsKept' /\ QueueKeepsItsLimits'
<1>1. Active' = Active /\ Ready' = Ready /\ Processing' = Processing /\ ungated' = ungated
    BY DEF Active, Ready, Processing, Having
<1>2. RoomIsKept'
    <2>1. ASSUME NEW c \in Callers, request'[c].op # "none" PROVE request'[c] = request[c]
        BY <2>1
    <2> QED
        BY <1>1, <2>1 DEF RoomIsKept
<1> QED
    BY <1>1, <1>2 DEF QueueKeepsItsLimits

\* The request that has the policy lets it go.
LEMMA RequestEnds ==
    ASSUME CapacityAssumption, CapacityTypeOK, NEW c \in Callers, request[c].op # "none",
           request' = [request EXCEPT ![c] = NoRequest], lock' = Nobody, worker' = worker
    PROVE  /\ request' \in [Callers -> RequestRow] /\ lock' \in Workers \cup Callers \cup {Nobody}
           /\ \A d \in Callers : request'[d].op = "none"
           /\ \A d \in Callers : (lock' = d) = (request'[d].op # "none")
           /\ \A w \in Workers :
                 (lock' = w) = (worker'[w].pc \in {"reserved", "fenced", "calling"})
<1>1. \A d \in Callers : d # c => request[d].op = "none"
    BY PolicyAlone
<1>2. lock = c /\ \A w \in Workers : worker[w].pc \notin {"reserved", "fenced", "calling"}
    BY PolicyAlone DEF CapacityTypeOK
<1>3. /\ request' \in [Callers -> RequestRow] /\ request'[c] = NoRequest
      /\ \A d \in Callers : d # c => request'[d] = request[d]
    BY IdleRow DEF CapacityTypeOK
<1>4. \A d \in Callers : request'[d].op = "none"
    BY <1>1, <1>3, IdleRow
<1> QED
    BY <1>2, <1>3, <1>4, CapacityConstants

LEMMA CommitStep ==
    ASSUME CapacityAssumption, CapacityInv, NEW c \in Callers, CommitRequest(c)
    PROVE  CapacityInv'
<1> DEFINE new == request[c].jobs
           late == request[c].held
<1>1. /\ request[c].op # "none" /\ request' = [request EXCEPT ![c] = NoRequest] /\ lock' = Nobody
      /\ UNCHANGED <<limit, starts, worker, ungated, spent>>
      /\ job' = [j \in Jobs |-> IF j \in new THEN "ready"
                               ELSE IF j \in late THEN "held" ELSE job[j]]
      /\ attempt' = [j \in Jobs |-> IF j \in new THEN NoAttempt ELSE attempt[j]]
      /\ lease' = lease \/ lease' = [lease EXCEPT !.holder = Nobody]
    BY DEF CommitRequest
<1>2. /\ request' \in [Callers -> RequestRow] /\ lock' \in Workers \cup Callers \cup {Nobody}
      /\ \A d \in Callers : request'[d].op = "none"
      /\ \A d \in Callers : (lock' = d) = (request'[d].op # "none")
      /\ \A w \in Workers : (lock' = w) = (worker'[w].pc \in {"reserved", "fenced", "calling"})
    BY <1>1, RequestEnds DEF CapacityInv
<1>3. /\ new \subseteq Jobs /\ late \subseteq Jobs
      /\ \A j \in new : job[j] \notin {"ready", "processing"}
      /\ \A j \in late : job[j] = "absent"
      /\ Cardinality(Active \cup new \cup late) <= MaxActive
      /\ Cardinality((Ready \ ungated) \cup new) <= MaxReady
    BY <1>1 DEF CapacityInv, CapacityTypeOK, RequestRow, RoomIsKept
<1> HIDE DEF new, late
<1>4. CapacityTypeOK'
    <2>1. job' \in [Jobs -> JobStatus]
        BY <1>1 DEF CapacityInv, CapacityTypeOK, JobStatus
    <2>2. attempt' \in [Jobs -> AttemptRow]
        BY <1>1, IdleRow DEF CapacityInv, CapacityTypeOK
    <2>3. lease' \in LeaseRow
        BY ZenonT(60), <1>1 DEF CapacityInv, CapacityTypeOK, LeaseRow
    <2> QED
        BY <1>1, <1>2, <2>1, <2>2, <2>3 DEF CapacityInv, CapacityTypeOK
<1>5. WorkersApart' /\ CallIsReserved'
    <2>1. ASSUME NEW w \in Workers, worker[w].pc # "idle"
          PROVE  job'[worker[w].job] = job[worker[w].job]
                 /\ attempt'[worker[w].job] = attempt[worker[w].job]
        <3>1. worker[w].job \in Jobs /\ worker[w].pc \in Delivering \cup {"claiming"}
            BY <2>1, WorkerFacts DEF CapacityInv
        <3>2. job[worker[w].job] \in {"ready", "processing"}
            BY <3>1 DEF CapacityInv, WorkersApart
        <3>3. worker[w].job \notin new /\ worker[w].job \notin late
            BY <1>3, <3>2
        <3> QED
            BY <1>1, <3>1, <3>3
    <2> QED
        BY <1>1, <2>1, WorkersStay DEF CapacityInv
<1>6. RoomIsKept'
    BY <1>2 DEF RoomIsKept
<1>7. QueueKeepsItsLimits'
    <2>1. /\ Active' \subseteq Active \cup new \cup late
          /\ Active \cup new \cup late \subseteq Jobs
        BY <1>1, <1>3, QueueSets DEF Active, Having
    <2>2. /\ Ready' \ ungated' \subseteq (Ready \ ungated) \cup new
          /\ (Ready \ ungated) \cup new \subseteq Jobs
        BY <1>1, <1>3, QueueSets DEF Ready, Having
    <2>3. Processing' \subseteq Processing /\ Processing \subseteq Jobs
        BY <1>1 DEF Processing, Having
    <2>4. Cardinality(Active') <= MaxActive
        <3>1. /\ Cardinality(Active') <= Cardinality(Active \cup new \cup late)
              /\ Cardinality(Active') \in Nat /\ Cardinality(Active \cup new \cup late) \in Nat
            BY <2>1, CountsOfJobs
        <3> QED
            BY <1>3, <3>1, CapacityConstants
    <2>5. Cardinality(Ready' \ ungated') <= MaxReady
        <3>1. /\ Cardinality(Ready' \ ungated') <= Cardinality((Ready \ ungated) \cup new)
              /\ Cardinality(Ready' \ ungated') \in Nat
              /\ Cardinality((Ready \ ungated) \cup new) \in Nat
            BY <2>2, CountsOfJobs
        <3> QED
            BY <1>3, <3>1, CapacityConstants
    <2>6. Cardinality(Processing') <= MaxProcessing
        <3>1. /\ Cardinality(Processing') <= Cardinality(Processing)
              /\ Cardinality(Processing') \in Nat /\ Cardinality(Processing) \in Nat
            BY <2>3, CountsOfJobs
        <3>2. Cardinality(Processing) <= MaxProcessing
            BY DEF CapacityInv, QueueKeepsItsLimits
        <3> QED
            BY <3>1, <3>2, CapacityConstants
    <2> QED
        BY <2>4, <2>5, <2>6 DEF QueueKeepsItsLimits
<1>8. CountsGrow'
    BY <1>1 DEF CapacityInv, CountsGrow
<1> QED
    BY <1>4, <1>5, <1>6, <1>7, <1>8 DEF CapacityInv

LEMMA RollbackStep ==
    ASSUME CapacityAssumption, CapacityInv, NEW c \in Callers, RollbackRequest(c)
    PROVE  CapacityInv'
<1>1. /\ request[c].op # "none" /\ request' = [request EXCEPT ![c] = NoRequest] /\ lock' = Nobody
      /\ UNCHANGED <<limit, job, attempt, starts, worker, lease, ungated, spent>>
    BY DEF RollbackRequest
<1>2. /\ request' \in [Callers -> RequestRow] /\ lock' \in Workers \cup Callers \cup {Nobody}
      /\ \A d \in Callers : request'[d].op = "none"
      /\ \A d \in Callers : (lock' = d) = (request'[d].op # "none")
      /\ \A w \in Workers : (lock' = w) = (worker'[w].pc \in {"reserved", "fenced", "calling"})
    BY <1>1, RequestEnds DEF CapacityInv
<1>3. CapacityTypeOK'
    BY <1>1, <1>2 DEF CapacityInv, CapacityTypeOK
<1>4. WorkersApart' /\ CallIsReserved' /\ CountsGrow'
    BY <1>1, WorkersStay DEF CapacityInv, CountsGrow
<1>5. RoomIsKept' /\ QueueKeepsItsLimits'
    BY <1>1, <1>2, QueueStays DEF CapacityInv
<1> QED
    BY <1>3, <1>4, <1>5 DEF CapacityInv

LEMMA PatchStep ==
    ASSUME CapacityAssumption, CapacityInv, NEW n \in StartLimits, PatchPolicy(n)
    PROVE  CapacityInv'
<1>1. /\ limit' = n /\ spent' = spent + 1 /\ spent < SpendBound
      /\ UNCHANGED <<job, attempt, starts, worker, request, lock, lease, ungated>>
    BY DEF PatchPolicy, Spend
<1>2. CapacityTypeOK'
    <2>1. spent' \in 0 .. SpendBound
        BY <1>1, CapacityConstants DEF CapacityInv, CapacityTypeOK
    <2> QED
        BY <1>1, <2>1 DEF CapacityInv, CapacityTypeOK
<1>3. WorkersApart' /\ CallIsReserved' /\ CountsGrow'
    BY <1>1, WorkersStay DEF CapacityInv, CountsGrow
<1>4. RoomIsKept' /\ QueueKeepsItsLimits'
    BY <1>1, QueueStays DEF CapacityInv
<1> QED
    BY <1>2, <1>3, <1>4 DEF CapacityInv

\* What is held back for review is no worker's, and nobody waits for it.
LEMMA WithheldStep ==
    ASSUME CapacityAssumption, CapacityInv, ReturnWithheld
    PROVE  CapacityInv'
<1>1. PICK back \in SUBSET Jobs :
          /\ \A j \in back : job[j] = "review" /\ ~RowLocked(j)
          /\ job' = [j \in Jobs |-> IF j \in back THEN "ready" ELSE job[j]]
          /\ ungated' = ungated \cup back
          /\ UNCHANGED <<limit, attempt, starts, worker, request, lock, lease, spent>>
    <2> DEFINE back == {j \in Having({"review"}) : ~Uncertain(j)}
    <2>1. back \in SUBSET Jobs /\ \A j \in back : job[j] = "review"
        BY DEF Having
    <2> QED
        BY <2>1 DEF ReturnWithheld
<1>2. ASSUME NEW j \in back
      PROVE  (\A w \in Workers : worker[w].job # j) /\ \A c \in Callers : j \notin request[c].jobs
    BY <1>1, FreeRow DEF CapacityInv
<1>3. CapacityTypeOK'
    <2>1. job' \in [Jobs -> JobStatus] /\ ungated' \subseteq Jobs
        BY <1>1 DEF CapacityInv, CapacityTypeOK, JobStatus
    <2> QED
        BY <1>1, <2>1 DEF CapacityInv, CapacityTypeOK
<1>4. WorkersApart' /\ CallIsReserved' /\ CountsGrow'
    <2>1. ASSUME NEW w \in Workers, worker[w].pc # "idle"
          PROVE  job'[worker[w].job] = job[worker[w].job]
        <3>1. worker[w].job \in Jobs
            BY <2>1, WorkerFacts DEF CapacityInv
        <3>2. worker[w].job \notin back
            BY <1>2
        <3> QED
            BY <1>1, <3>1, <3>2
    <2> QED
        BY <1>1, <2>1, WorkersStay DEF CapacityInv, CountsGrow
<1>5. RoomIsKept' /\ QueueKeepsItsLimits'
    <2>1. Active' \subseteq Active /\ Ready' \ ungated' \subseteq Ready \ ungated
        BY <1>1 DEF Active, Ready, Having
    <2>2. Processing' = Processing
        BY <1>1 DEF Processing, Having
    <2>3. ASSUME NEW c \in Callers, request[c].op # "none",
                 NEW j \in request[c].jobs \cup request[c].held
          PROVE  job'[j] = job[j]
        <3>1. j \in Jobs
            BY <2>3 DEF CapacityInv, CapacityTypeOK, RequestRow
        <3>2. j \in request[c].jobs \/ job[j] = "absent"
            BY <2>3 DEF CapacityInv, RoomIsKept
        <3>3. j \notin back
            BY <1>1, <1>2, <3>2
        <3> QED
            BY <1>1, <3>1, <3>3
    <2>4. Cardinality(Processing') <= MaxProcessing
        BY <2>2 DEF CapacityInv, QueueKeepsItsLimits
    <2> QED
        BY <1>1, <2>1, <2>3, <2>4, QueueStep DEF CapacityInv
<1> QED
    BY <1>3, <1>4, <1>5 DEF CapacityInv

LEMMA SettleStep ==
    ASSUME CapacityAssumption, CapacityInv, NEW j \in Jobs, SettleJob(j)
    PROVE  CapacityInv'
<1>1. /\ job[j] \in {"held", "ready", "review"} /\ ~RowLocked(j)
      /\ job' = [job EXCEPT ![j] = "settled"] /\ attempt' = [attempt EXCEPT ![j] = NoAttempt]
      /\ ungated' = ungated \ {j}
      /\ UNCHANGED <<limit, starts, worker, request, lock, lease, spent>>
    BY DEF SettleJob
<1>2. (\A w \in Workers : worker[w].job # j) /\ \A c \in Callers : j \notin request[c].jobs
    BY <1>1, FreeRow DEF CapacityInv
<1>3. CapacityTypeOK'
    <2>1. "settled" \in JobStatus
        BY DEF JobStatus
    <2>2. /\ job' \in [Jobs -> JobStatus] /\ attempt' \in [Jobs -> AttemptRow]
          /\ ungated' \subseteq Jobs
        BY <1>1, <2>1, IdleRow DEF CapacityInv, CapacityTypeOK
    <2> QED
        BY <1>1, <2>2 DEF CapacityInv, CapacityTypeOK
<1>4. WorkersApart' /\ CallIsReserved' /\ CountsGrow'
    <2>1. ASSUME NEW w \in Workers, worker[w].pc # "idle"
          PROVE  job'[worker[w].job] = job[worker[w].job]
                 /\ attempt'[worker[w].job] = attempt[worker[w].job]
        <3>1. worker[w].job \in Jobs /\ worker[w].job # j
            BY <1>2, <2>1, WorkerFacts DEF CapacityInv
        <3> QED
            BY <1>1, <3>1 DEF CapacityInv, CapacityTypeOK
    <2> QED
        BY <1>1, <2>1, WorkersStay DEF CapacityInv, CountsGrow
<1>5. RoomIsKept' /\ QueueKeepsItsLimits'
    BY <1>1, <1>2, QueueMove DEF CapacityInv
<1> QED
    BY <1>3, <1>4, <1>5 DEF CapacityInv

-----------------------------------------------------------------------------
(***************************************************************************)
(* The steps of a worker.                                                  *)
(***************************************************************************)

\* Who has the policy, after a step of worker w.
LEMMA LockFits ==
    ASSUME CapacityAssumption, CapacityTypeOK, NEW w \in Workers, NEW new \in WorkerRow,
           worker' = [worker EXCEPT ![w] = new], request' = request,
           LET policy == {"reserved", "fenced", "calling"} IN
              \/ lock' = lock /\ (new.pc \in policy <=> worker[w].pc \in policy)
              \/ lock = Nobody /\ lock' = w /\ new.pc \in policy
              \/ lock = w /\ lock' = Nobody /\ new.pc \notin policy
    PROVE  /\ worker' \in [Workers -> WorkerRow] /\ request' \in [Callers -> RequestRow]
           /\ lock' \in Workers \cup Callers \cup {Nobody}
           /\ \A c \in Callers : (lock' = c) = (request'[c].op # "none")
           /\ \A v \in Workers : (lock' = v) = (worker'[v].pc \in {"reserved", "fenced", "calling"})
<1>1. /\ worker' \in [Workers -> WorkerRow] /\ worker'[w] = new
      /\ \A v \in Workers : v # w => worker'[v] = worker[v]
    BY DEF CapacityTypeOK
<1>2. /\ \A c \in Callers : (lock = c) = (request[c].op # "none")
      /\ \A v \in Workers : (lock = v) = (worker[v].pc \in {"reserved", "fenced", "calling"})
    BY DEF CapacityTypeOK
<1>3. /\ lock' \in Workers \cup Callers \cup {Nobody}
      /\ \A c \in Callers : (lock' = c) = (request'[c].op # "none")
    BY <1>2, CapacityConstants DEF CapacityTypeOK
<1>4. ASSUME NEW v \in Workers
      PROVE  (lock' = v) = (worker'[v].pc \in {"reserved", "fenced", "calling"})
    BY <1>1, <1>2, CapacityConstants
<1> QED
    BY <1>1, <1>3, <1>4 DEF CapacityTypeOK

\* The jobs of the others are not this one.
LEMMA OthersJobs ==
    ASSUME CapacityAssumption, CapacityTypeOK, WorkersApart, NEW w \in Workers,
           NEW v \in Workers \ {w}, worker[v].pc # "idle"
    PROVE  worker[v].job \in Jobs /\ worker[v].job # worker[w].job
<1>1. worker[v].job \in Jobs /\ worker[v].job # Nobody
    BY WorkerFacts, CapacityConstants
<1>2. \A u \in Workers \ {v} : worker[u].job # worker[v].job
    BY <1>1 DEF WorkersApart
<1> QED
    BY <1>1, <1>2

\* A worker lets its job go.
LEMMA EndStep ==
    ASSUME CapacityAssumption, CapacityTypeOK, WorkersApart, RoomIsKept, QueueKeepsItsLimits,
           CallIsReserved, NEW w \in Workers, worker[w].pc # "idle",
           NEW s \in {"ready", "review", "settled"}, End(w, s),
           request' = request, starts' = starts,
           \/ attempt' = attempt
           \/ attempt' = [attempt EXCEPT ![worker[w].job] = NoAttempt]
    PROVE  /\ job' \in [Jobs -> JobStatus] /\ attempt' \in [Jobs -> AttemptRow]
           /\ ungated' \subseteq Jobs /\ worker' = [worker EXCEPT ![w] = IdleWorker]
           /\ WorkersApart' /\ CallIsReserved' /\ RoomIsKept' /\ QueueKeepsItsLimits'
<1> DEFINE j == worker[w].job
<1>1. /\ job' = [job EXCEPT ![j] = s] /\ worker' = [worker EXCEPT ![w] = IdleWorker]
      /\ ungated' = IF s = "ready" THEN ungated ELSE ungated \ {j}
    BY DEF End
<1>2. j \in Jobs /\ job[j] \in {"ready", "processing"}
    BY WorkerFacts DEF WorkersApart
<1>3. attempt' = attempt \/ attempt' = [attempt EXCEPT ![j] = NoAttempt]
    OBVIOUS
<1>4. ASSUME NEW v \in Workers \ {w}, worker[v].pc # "idle"
      PROVE  worker[v].job \in Jobs /\ worker[v].job # j
    BY <1>4, OthersJobs
<1> HIDE DEF j
<1>5. s \in JobStatus
    BY DEF JobStatus
<1>6. job' \in [Jobs -> JobStatus] /\ attempt' \in [Jobs -> AttemptRow] /\ ungated' \subseteq Jobs
    BY SMTT(40), <1>1, <1>2, <1>3, <1>5, IdleRow DEF CapacityTypeOK
<1>7. WorkersApart' /\ CallIsReserved'
    <2>1. ASSUME NEW v \in Workers \ {w}, worker[v].pc # "idle"
          PROVE  job'[worker[v].job] = job[worker[v].job]
                 /\ attempt'[worker[v].job] = attempt[worker[v].job]
        BY <1>1, <1>2, <1>3, <1>4, <2>1 DEF CapacityTypeOK
    <2>2. /\ IdleWorker \in WorkerRow /\ IdleWorker.pc = "idle" /\ IdleWorker.job = Nobody
          /\ IdleWorker.pc \notin Delivering
        BY IdleRow DEF Delivering
    <2> QED
        BY <1>1, <2>1, <2>2, WorkerMoves
<1>8. \A c \in Callers : request[c].op # "none" => j \notin request[c].jobs
    BY <1>2 DEF RoomIsKept
<1>9. RoomIsKept' /\ QueueKeepsItsLimits'
    BY <1>1, <1>2, <1>8, QueueMove
<1> QED
    BY <1>1, <1>6, <1>7, <1>9

LEMMA RecoverStep ==
    ASSUME CapacityAssumption, CapacityInv, NEW j \in Jobs, RecoverStale(j)
    PROVE  CapacityInv'
<1>1. /\ job[j] = "processing" /\ \A w \in Workers : worker[w].job # j
      /\ UNCHANGED <<limit, starts, worker, request, lock, lease, spent>>
    BY DEF RecoverStale
<1>2. PICK s \in {"ready", "review"} :
          /\ job' = [job EXCEPT ![j] = s]
          /\ ungated' = IF s = "ready" THEN ungated ELSE ungated \ {j}
          /\ attempt' = attempt \/ attempt' = [attempt EXCEPT ![j] = NoAttempt]
    BY DEF RecoverStale
<1>3. s \in JobStatus
    BY DEF JobStatus
<1>4. CapacityTypeOK'
    <2>1. /\ job' \in [Jobs -> JobStatus] /\ attempt' \in [Jobs -> AttemptRow]
          /\ ungated' \subseteq Jobs
        BY SMTT(40), <1>2, <1>3, IdleRow DEF CapacityInv, CapacityTypeOK
    <2> QED
        BY <1>1, <2>1 DEF CapacityInv, CapacityTypeOK
<1>5. WorkersApart' /\ CallIsReserved' /\ CountsGrow'
    <2>1. ASSUME NEW w \in Workers, worker[w].pc # "idle"
          PROVE  job'[worker[w].job] = job[worker[w].job]
                 /\ attempt'[worker[w].job] = attempt[worker[w].job]
        <3>1. worker[w].job \in Jobs /\ worker[w].job # j
            BY <1>1, <2>1, WorkerFacts DEF CapacityInv
        <3> QED
            BY <1>2, <3>1 DEF CapacityInv, CapacityTypeOK
    <2> QED
        BY <1>1, <2>1, WorkersStay DEF CapacityInv, CountsGrow
<1>6. \A c \in Callers : request[c].op # "none" => j \notin request[c].jobs
    BY <1>1 DEF CapacityInv, RoomIsKept
<1>7. RoomIsKept' /\ QueueKeepsItsLimits'
    BY <1>1, <1>2, <1>6, QueueMove DEF CapacityInv
<1> QED
    BY <1>4, <1>5, <1>7 DEF CapacityInv

LEMMA TakeStep ==
    ASSUME CapacityAssumption, CapacityInv, NEW w \in Workers, NEW j \in Jobs, TakeLease(w, j)
    PROVE  CapacityInv'
<1> DEFINE new == [pc |-> "claiming", job |-> j, limit |-> 0, age |-> 0]
<1>1. /\ worker[w].pc = "idle" /\ job[j] = "ready" /\ ~RowLocked(j)
      /\ worker' = [worker EXCEPT ![w] = new] /\ lease' = [lease EXCEPT !.lock = w]
      /\ UNCHANGED <<limit, job, attempt, starts, request, lock, ungated, spent>>
    BY DEF TakeLease
<1>2. new \in WorkerRow /\ new.pc = "claiming" /\ new.job = j
    <2>1. 0 \in Ages
        BY CapacityConstants DEF Ages
    <2> QED
        BY <2>1 DEF WorkerRow
<1> HIDE DEF new
<1>3. \A v \in Workers : worker[v].job # j
    BY <1>1, FreeRow DEF CapacityInv
<1>4. WorkersApart' /\ CallIsReserved'
    <2>1. new.pc \notin Delivering
        BY <1>2 DEF Delivering
    <2> QED
        BY <1>1, <1>2, <1>3, <2>1, WorkerMoves, CapacityConstants DEF CapacityInv
<1>5. CapacityTypeOK'
    <2>1. lease' \in LeaseRow
        BY <1>1 DEF CapacityInv, CapacityTypeOK, LeaseRow
    <2>2. /\ worker' \in [Workers -> WorkerRow] /\ request' \in [Callers -> RequestRow]
          /\ lock' \in Workers \cup Callers \cup {Nobody}
          /\ \A c \in Callers : (lock' = c) = (request'[c].op # "none")
          /\ \A v \in Workers : (lock' = v) = (worker'[v].pc \in {"reserved", "fenced", "calling"})
        BY <1>1, <1>2, LockFits DEF CapacityInv
    <2> QED
        BY <1>1, <2>1, <2>2 DEF CapacityInv, CapacityTypeOK
<1>6. RoomIsKept' /\ QueueKeepsItsLimits' /\ CountsGrow'
    BY <1>1, QueueStays DEF CapacityInv, CountsGrow
<1> QED
    BY <1>4, <1>5, <1>6 DEF CapacityInv

\* The claim is checked and committed.
LEMMA PrecheckStep ==
    ASSUME CapacityAssumption, CapacityInv, NEW w \in Workers, Precheck(w)
    PROVE  CapacityInv'
<1> DEFINE j == worker[w].job
           new == [worker[w] EXCEPT !.pc = "claimed", !.limit = limit]
<1>1. /\ worker[w].pc = "claiming" /\ lock = Nobody /\ lease' = Claimed(w)
      /\ UNCHANGED <<limit, attempt, starts, request, lock, spent>>
    BY DEF Precheck
<1>2. /\ j \in Jobs /\ job[j] = "ready" /\ worker[w] \in WorkerRow
      /\ worker[w].pc \notin {"reserved", "fenced", "calling"}
    BY <1>1, WorkerFacts DEF CapacityInv, WorkersApart
<1>3. lease' \in LeaseRow
    BY <1>1, <1>2 DEF Claimed, WorkerRow, LeaseRow
<1>4. CountsGrow'
    BY <1>1 DEF CapacityInv, CountsGrow
<1>5. CASE /\ RoomToProcess /\ job' = [job EXCEPT ![j] = "processing"]
           /\ worker' = [worker EXCEPT ![w].pc = "claimed", ![w].limit = limit]
           /\ UNCHANGED ungated
    <2>1. new \in WorkerRow /\ new.pc = "claimed" /\ new.job = j
        BY <1>2 DEF WorkerRow, CapacityInv, CapacityTypeOK
    <2>2. worker' = [worker EXCEPT ![w] = new]
        BY <1>5 DEF CapacityInv, CapacityTypeOK
    <2>3. j # Nobody /\ \A v \in Workers \ {w} : worker[v].job # j
        BY <1>2, CapacityConstants DEF CapacityInv, WorkersApart
    <2>4. ASSUME NEW v \in Workers \ {w}, worker[v].pc # "idle"
          PROVE  worker[v].job \in Jobs /\ worker[v].job # j
        BY <2>4, OthersJobs DEF CapacityInv
    <2> HIDE DEF new, j
    <2>5. /\ job' \in [Jobs -> JobStatus] /\ job'[j] = "processing"
          /\ \A i \in Jobs : i # j => job'[i] = job[i]
        BY <1>2, <1>5 DEF CapacityInv, CapacityTypeOK, JobStatus
    <2>6. WorkersApart' /\ CallIsReserved'
        BY <1>1, <2>1, <2>2, <2>3, <2>4, <2>5, WorkerMoves DEF CapacityInv
    <2>7. /\ worker' \in [Workers -> WorkerRow] /\ request' \in [Callers -> RequestRow]
          /\ lock' \in Workers \cup Callers \cup {Nobody}
          /\ \A c \in Callers : (lock' = c) = (request'[c].op # "none")
          /\ \A v \in Workers : (lock' = v) = (worker'[v].pc \in {"reserved", "fenced", "calling"})
        BY <1>1, <1>2, <2>1, <2>2, LockFits DEF CapacityInv
    <2>8. CapacityTypeOK'
        BY <1>1, <1>3, <1>5, <2>5, <2>7 DEF CapacityInv, CapacityTypeOK
    <2>9. RoomIsKept' /\ QueueKeepsItsLimits'
        <3>1. Active' \subseteq Active /\ Ready' \ ungated' \subseteq Ready \ ungated
            BY <1>2, <1>5, <2>5 DEF Active, Ready, Having
        <3>2. Processing' = Processing \cup {j} /\ j \notin Processing
            BY <1>2, <2>5 DEF Processing, Having
        <3>3. Cardinality(Processing') <= MaxProcessing
            <4>1. IsFiniteSet(Processing) /\ Cardinality(Processing) \in Nat
                BY QueueSets, CountsOfJobs
            <4>2. Cardinality(Processing \cup {j}) = Cardinality(Processing) + 1
                BY <3>2, <4>1, FS_AddElement
            <4> QED
                BY <1>5, <3>2, <4>1, <4>2, CapacityConstants DEF RoomToProcess
        <3>4. ASSUME NEW c \in Callers, request[c].op # "none",
                     NEW i \in request[c].jobs \cup request[c].held
              PROVE  job'[i] = job[i]
            <4>1. i \in Jobs
                BY <3>4 DEF CapacityInv, CapacityTypeOK, RequestRow
            <4>2. i # j
                BY <1>2, <3>4 DEF CapacityInv, RoomIsKept
            <4> QED
                BY <2>5, <4>1, <4>2
        <3> QED
            BY <1>1, <3>1, <3>3, <3>4, QueueStep DEF CapacityInv
    <2> QED
        BY <1>4, <2>6, <2>8, <2>9 DEF CapacityInv
<1>6. ASSUME worker' = [worker EXCEPT ![w] = IdleWorker]
      PROVE  /\ worker' \in [Workers -> WorkerRow] /\ request' \in [Callers -> RequestRow]
             /\ lock' \in Workers \cup Callers \cup {Nobody}
             /\ \A c \in Callers : (lock' = c) = (request'[c].op # "none")
             /\ \A v \in Workers :
                   (lock' = v) = (worker'[v].pc \in {"reserved", "fenced", "calling"})
    BY <1>1, <1>2, <1>6, LockFits, IdleRow DEF CapacityInv
<1>7. CASE worker' = [worker EXCEPT ![w] = IdleWorker] /\ UNCHANGED <<job, ungated>>
    <2>1. WorkersApart' /\ CallIsReserved'
        BY <1>1, <1>7, WorkerMoves, IdleRow DEF CapacityInv, Delivering
    <2>2. RoomIsKept' /\ QueueKeepsItsLimits'
        BY <1>1, <1>7, QueueStays DEF CapacityInv
    <2>3. CapacityTypeOK'
        BY <1>1, <1>3, <1>6, <1>7 DEF CapacityInv, CapacityTypeOK
    <2> QED
        BY <1>4, <2>1, <2>2, <2>3 DEF CapacityInv
<1>8. CASE /\ \E s \in {"review", "settled"} : job' = [job EXCEPT ![j] = s]
           /\ ungated' = ungated \ {j} /\ worker' = [worker EXCEPT ![w] = IdleWorker]
    <2>1. PICK s \in {"review", "settled"} : job' = [job EXCEPT ![j] = s]
        BY <1>8
    <2>2. End(w, s)
        BY <1>8, <2>1 DEF End
    <2>3. /\ job' \in [Jobs -> JobStatus] /\ attempt' \in [Jobs -> AttemptRow]
          /\ ungated' \subseteq Jobs
          /\ WorkersApart' /\ CallIsReserved' /\ RoomIsKept' /\ QueueKeepsItsLimits'
        BY <1>1, <2>2, EndStep DEF CapacityInv
    <2>4. CapacityTypeOK'
        BY <1>1, <1>3, <1>6, <1>8, <2>3 DEF CapacityInv, CapacityTypeOK
    <2> QED
        BY <1>4, <2>3, <2>4 DEF CapacityInv
<1> QED
    BY <1>5, <1>7, <1>8 DEF Precheck

LEMMA PrepareStep ==
    ASSUME CapacityAssumption, CapacityInv, NEW w \in Workers, Prepare(w)
    PROVE  CapacityInv'
<1> DEFINE j == worker[w].job
           new == [worker[w] EXCEPT !.pc = "prepared"]
           row == [state |-> "prepared", age |-> 0]
<1>1. /\ worker[w].pc = "claimed" /\ worker' = [worker EXCEPT ![w] = new]
      /\ attempt' = [attempt EXCEPT ![j] = row]
      /\ UNCHANGED <<limit, job, starts, request, lock, lease, ungated, spent>>
    BY DEF Prepare, CapacityInv, CapacityTypeOK
<1>2. j \in Jobs /\ job[j] = "processing" /\ worker[w] \in WorkerRow /\ worker[w].age \in Nat
    BY <1>1, WorkerFacts DEF CapacityInv, WorkersApart, Delivering
<1>3. new \in WorkerRow /\ new.pc = "prepared" /\ new.job = j /\ new.age \in Nat
    BY <1>2 DEF WorkerRow
<1>4. row \in AttemptRow /\ row.state = "prepared" /\ row.age = 0
    <2>1. 0 \in Ages
        BY CapacityConstants DEF Ages
    <2> QED
        BY <2>1 DEF AttemptRow
<1>5. j # Nobody /\ \A v \in Workers \ {w} : worker[v].job # j
    BY <1>2, CapacityConstants DEF CapacityInv, WorkersApart
<1>6. ASSUME NEW v \in Workers \ {w}, worker[v].pc # "idle"
      PROVE  worker[v].job \in Jobs /\ worker[v].job # j
    BY <1>6, OthersJobs DEF CapacityInv
<1> HIDE DEF new, j, row
<1>7. /\ attempt' \in [Jobs -> AttemptRow] /\ attempt'[j] = row
      /\ \A i \in Jobs : i # j => attempt'[i] = attempt[i]
    BY <1>1, <1>2, <1>4 DEF CapacityInv, CapacityTypeOK
<1>8. WorkersApart' /\ CallIsReserved'
    <2>1. attempt'[j].state = "prepared" /\ attempt'[j].age <= new.age
        BY <1>3, <1>4, <1>7
    <2>2. \A v \in Workers \ {w} : worker[v].pc # "idle" =>
               job'[worker[v].job] = job[worker[v].job]
               /\ attempt'[worker[v].job] = attempt[worker[v].job]
        BY <1>1, <1>6, <1>7
    <2> QED
        BY <1>1, <1>2, <1>3, <1>5, <2>1, <2>2, WorkerMoves DEF CapacityInv
<1>9. /\ worker' \in [Workers -> WorkerRow] /\ request' \in [Callers -> RequestRow]
      /\ lock' \in Workers \cup Callers \cup {Nobody}
      /\ \A c \in Callers : (lock' = c) = (request'[c].op # "none")
      /\ \A v \in Workers : (lock' = v) = (worker'[v].pc \in {"reserved", "fenced", "calling"})
    BY <1>1, <1>3, LockFits DEF CapacityInv
<1>10. CapacityTypeOK'
    BY <1>1, <1>7, <1>9 DEF CapacityInv, CapacityTypeOK
<1>11. RoomIsKept' /\ QueueKeepsItsLimits' /\ CountsGrow'
    BY <1>1, QueueStays DEF CapacityInv, CountsGrow
<1> QED
    BY <1>8, <1>10, <1>11 DEF CapacityInv

\* The reservation counts the attempt it is made for, unless the claim is too old.
LEMMA ReservedRoom ==
    ASSUME CapacityAssumption, CapacityInv, NEW w \in Workers, worker[w].pc = "prepared",
           NEW h \in Horizons, Budget(w, h), StillValid(w)
    PROVE  starts[Window] + 1 <= worker[w].limit
<1> DEFINE j == worker[w].job
           mine == {i \in Jobs : attempt[i].state = "prepared" /\ attempt[i].age <= h}
<1>1. h \in Nat /\ h >= Window /\ h \in 0 .. Window + MaxWait /\ Window \in 0 .. Window + MaxWait
    BY CapacityConstants DEF Horizons
<1>2. /\ j \in Jobs /\ attempt[j].state = "prepared" /\ attempt[j].age <= worker[w].age
      /\ worker[w].age \in Nat /\ worker[w].limit \in Nat /\ attempt[j] \in AttemptRow
    BY WorkerFacts DEF CapacityInv, CallIsReserved, CapacityTypeOK
<1>3. attempt[j].age <= h
    <2>1. attempt[j].age \in Nat
        BY <1>2, CapacityConstants DEF AttemptRow, Ages
    <2> QED
        BY <1>1, <1>2, <2>1, CapacityConstants DEF StillValid
<1>4. Cardinality(mine) \in Nat /\ Cardinality(mine) >= 1
    <2>1. {j} \subseteq mine /\ mine \subseteq Jobs
        BY <1>2, <1>3
    <2> HIDE DEF mine, j
    <2>2. Cardinality({j}) <= Cardinality(mine) /\ Cardinality(mine) \in Nat
        BY <2>1, CountsOfJobs
    <2> QED
        BY <2>2, FS_Singleton
<1>5. Prepared(h) = Cardinality(mine)
    BY DEF Prepared
<1>6. starts[Window] <= starts[h] /\ starts[Window] \in Nat /\ starts[h] \in Nat
    BY <1>1 DEF CapacityInv, CountsGrow, CapacityTypeOK
<1> HIDE DEF mine
<1> QED
    BY <1>2, <1>4, <1>5, <1>6 DEF Budget

LEMMA ReserveStep ==
    ASSUME CapacityAssumption, CapacityInv, NEW w \in Workers, Reserve(w)
    PROVE  CapacityInv'
<1> DEFINE new == [worker[w] EXCEPT !.pc = "reserved"]
<1>1. /\ worker[w].pc = "prepared" /\ lock = Nobody
      /\ UNCHANGED <<limit, starts, request, lease, spent>>
    BY DEF Reserve
<1>2. /\ worker[w].job \in Jobs /\ job[worker[w].job] = "processing" /\ worker[w] \in WorkerRow
    BY <1>1, WorkerFacts DEF CapacityInv, WorkersApart, Delivering
<1>3. CountsGrow'
    BY <1>1 DEF CapacityInv, CountsGrow
<1>4. ASSUME NEW h \in Horizons, Budget(w, h), lock' = w,
             worker' = [worker EXCEPT ![w].pc = "reserved"], UNCHANGED <<job, attempt, ungated>>
      PROVE  CapacityInv'
    <2>1. /\ new \in WorkerRow /\ new.pc = "reserved" /\ new.job = worker[w].job
          /\ new.age = worker[w].age /\ new.limit = worker[w].limit
        BY <1>2 DEF WorkerRow
    <2>2. worker' = [worker EXCEPT ![w] = new]
        BY <1>4 DEF CapacityInv, CapacityTypeOK
    <2>3. \A v \in Workers \ {w} : worker[v].job # worker[w].job
        BY <1>2, CapacityConstants DEF CapacityInv, WorkersApart
    <2> HIDE DEF new
    <2>4. new.age < LeaseTTL => starts'[Window] + 1 <= new.limit
        BY <1>1, <1>4, <2>1, ReservedRoom DEF StillValid
    <2>5. WorkersApart' /\ CallIsReserved'
        <3>1. /\ new.job # Nobody /\ job'[new.job] = "processing" /\ new.pc # "idle"
              /\ job' = job /\ attempt' = attempt /\ starts' = starts
            BY <1>1, <1>2, <1>4, <2>1, CapacityConstants
        <3>2. new.pc # "claiming" /\ new.pc # "prepared" /\ new.pc # "fenced"
            BY <2>1
        <3>3. CapacityTypeOK /\ WorkersApart /\ CallIsReserved
            BY DEF CapacityInv
        <3> QED
            BY <2>1, <2>2, <2>3, <2>4, <3>1, <3>2, <3>3, WorkerMoves
    <2>6. /\ worker' \in [Workers -> WorkerRow] /\ request' \in [Callers -> RequestRow]
          /\ lock' \in Workers \cup Callers \cup {Nobody}
          /\ \A c \in Callers : (lock' = c) = (request'[c].op # "none")
          /\ \A v \in Workers : (lock' = v) = (worker'[v].pc \in {"reserved", "fenced", "calling"})
        BY <1>1, <1>4, <2>1, <2>2, LockFits DEF CapacityInv
    <2>7. CapacityTypeOK'
        BY <1>1, <1>4, <2>6 DEF CapacityInv, CapacityTypeOK
    <2>8. RoomIsKept' /\ QueueKeepsItsLimits'
        BY <1>1, <1>4, QueueStays DEF CapacityInv
    <2> QED
        BY <1>3, <2>5, <2>7, <2>8 DEF CapacityInv
<1>5. ASSUME attempt' = [attempt EXCEPT ![worker[w].job] = NoAttempt], End(w, "ready"),
             UNCHANGED lock
      PROVE  CapacityInv'
    <2>1. /\ job' \in [Jobs -> JobStatus] /\ attempt' \in [Jobs -> AttemptRow]
          /\ ungated' \subseteq Jobs /\ worker' = [worker EXCEPT ![w] = IdleWorker]
          /\ WorkersApart' /\ CallIsReserved' /\ RoomIsKept' /\ QueueKeepsItsLimits'
        BY <1>1, <1>5, EndStep DEF CapacityInv
    <2>2. /\ worker' \in [Workers -> WorkerRow] /\ request' \in [Callers -> RequestRow]
          /\ lock' \in Workers \cup Callers \cup {Nobody}
          /\ \A c \in Callers : (lock' = c) = (request'[c].op # "none")
          /\ \A v \in Workers : (lock' = v) = (worker'[v].pc \in {"reserved", "fenced", "calling"})
        BY <1>1, <1>5, <2>1, LockFits, IdleRow DEF CapacityInv
    <2>3. CapacityTypeOK'
        BY <1>1, <2>1, <2>2 DEF CapacityInv, CapacityTypeOK
    <2> QED
        BY <1>3, <2>1, <2>3 DEF CapacityInv
<1> QED
    BY <1>4, <1>5 DEF Reserve

LEMMA FenceStep ==
    ASSUME CapacityAssumption, CapacityInv, NEW w \in Workers, Fence(w)
    PROVE  CapacityInv'
<1> DEFINE new == [worker[w] EXCEPT !.pc = "fenced"]
<1>1. /\ worker[w].pc = "reserved" /\ lease.lock = Nobody /\ lock = w
      /\ UNCHANGED <<limit, starts, request, spent>>
    BY DEF Fence, CapacityInv, CapacityTypeOK
<1>2. /\ worker[w].job \in Jobs /\ job[worker[w].job] = "processing" /\ worker[w] \in WorkerRow
    BY <1>1, WorkerFacts DEF CapacityInv, WorkersApart, Delivering
<1>3. CountsGrow'
    BY <1>1 DEF CapacityInv, CountsGrow
<1>4. CASE StillValid(w)
    <2>1. /\ worker' = [worker EXCEPT ![w].pc = "fenced"] /\ lease' = [lease EXCEPT !.lock = w]
          /\ UNCHANGED <<job, attempt, lock, ungated>>
        BY <1>4 DEF Fence
    <2>2. /\ new \in WorkerRow /\ new.pc = "fenced" /\ new.job = worker[w].job
          /\ new.limit = worker[w].limit
        BY <1>2 DEF WorkerRow
    <2>3. worker' = [worker EXCEPT ![w] = new]
        BY <2>1 DEF CapacityInv, CapacityTypeOK
    <2>4. \A v \in Workers \ {w} : worker[v].job # worker[w].job
        BY <1>2, CapacityConstants DEF CapacityInv, WorkersApart
    <2> HIDE DEF new
    <2>5. starts'[Window] + 1 <= new.limit
        BY <1>1, <1>4, <2>2 DEF CapacityInv, CallIsReserved
    <2>6. WorkersApart' /\ CallIsReserved'
        <3>1. /\ new.job # Nobody /\ job'[new.job] = "processing" /\ new.pc # "idle"
              /\ job' = job /\ attempt' = attempt /\ starts' = starts
            BY <1>1, <1>2, <2>1, <2>2, CapacityConstants
        <3>2. new.pc # "claiming" /\ new.pc # "prepared" /\ new.pc # "reserved"
            BY <2>2
        <3>3. CapacityTypeOK /\ WorkersApart /\ CallIsReserved
            BY DEF CapacityInv
        <3> QED
            BY <2>2, <2>3, <2>4, <2>5, <3>1, <3>2, <3>3, WorkerMoves
    <2>7. /\ worker' \in [Workers -> WorkerRow] /\ request' \in [Callers -> RequestRow]
          /\ lock' \in Workers \cup Callers \cup {Nobody}
          /\ \A c \in Callers : (lock' = c) = (request'[c].op # "none")
          /\ \A v \in Workers : (lock' = v) = (worker'[v].pc \in {"reserved", "fenced", "calling"})
        BY <1>1, <2>1, <2>2, <2>3, LockFits DEF CapacityInv
    <2>8. lease' \in LeaseRow
        BY <2>1 DEF CapacityInv, CapacityTypeOK, LeaseRow
    <2>9. CapacityTypeOK'
        BY <1>1, <2>1, <2>7, <2>8 DEF CapacityInv, CapacityTypeOK
    <2>10. RoomIsKept' /\ QueueKeepsItsLimits'
        BY <1>1, <2>1, QueueStays DEF CapacityInv
    <2> QED
        BY <1>3, <2>6, <2>9, <2>10 DEF CapacityInv
<1>5. CASE ~StillValid(w)
    <2>1. /\ attempt' = [attempt EXCEPT ![worker[w].job] = NoAttempt] /\ End(w, "ready")
          /\ lock' = Nobody /\ UNCHANGED lease
        BY <1>5 DEF Fence
    <2>2. /\ job' \in [Jobs -> JobStatus] /\ attempt' \in [Jobs -> AttemptRow]
          /\ ungated' \subseteq Jobs /\ worker' = [worker EXCEPT ![w] = IdleWorker]
          /\ WorkersApart' /\ CallIsReserved' /\ RoomIsKept' /\ QueueKeepsItsLimits'
        BY <1>1, <2>1, EndStep DEF CapacityInv
    <2>3. /\ worker' \in [Workers -> WorkerRow] /\ request' \in [Callers -> RequestRow]
          /\ lock' \in Workers \cup Callers \cup {Nobody}
          /\ \A c \in Callers : (lock' = c) = (request'[c].op # "none")
          /\ \A v \in Workers : (lock' = v) = (worker'[v].pc \in {"reserved", "fenced", "calling"})
        BY <1>1, <2>1, <2>2, LockFits, IdleRow DEF CapacityInv
    <2>4. CapacityTypeOK'
        BY <1>1, <2>1, <2>2, <2>3 DEF CapacityInv, CapacityTypeOK
    <2> QED
        BY <1>3, <2>2, <2>4 DEF CapacityInv
<1> QED
    BY <1>4, <1>5

LEMMA StartStep ==
    ASSUME CapacityAssumption, CapacityInv, NEW w \in Workers, Start(w)
    PROVE  CapacityInv' /\ starts'[Window] <= worker[w].limit
<1> DEFINE j == worker[w].job
           new == [worker[w] EXCEPT !.pc = "calling"]
           row == [state |-> "started", age |-> Old]
<1>1. /\ worker[w].pc = "fenced" /\ worker' = [worker EXCEPT ![w] = new] /\ lock = w
      /\ attempt' = [attempt EXCEPT ![j] = row]
      /\ starts' = [a \in DOMAIN starts |-> starts[a] + 1]
      /\ UNCHANGED <<limit, job, request, lock, lease, ungated, spent>>
    BY DEF Start, CapacityInv, CapacityTypeOK
<1>2. /\ j \in Jobs /\ job[j] = "processing" /\ worker[w] \in WorkerRow
    BY <1>1, WorkerFacts DEF CapacityInv, WorkersApart, Delivering
<1>3. new \in WorkerRow /\ new.pc = "calling" /\ new.job = j
    BY <1>2 DEF WorkerRow
<1>4. row \in AttemptRow
    BY CapacityConstants DEF AttemptRow, Ages
<1>5. j # Nobody /\ \A v \in Workers \ {w} : worker[v].job # j
    BY <1>2, CapacityConstants DEF CapacityInv, WorkersApart
<1>6. ASSUME NEW v \in Workers \ {w}, worker[v].pc # "idle"
      PROVE  worker[v].job \in Jobs /\ worker[v].job # j
    BY <1>6, OthersJobs DEF CapacityInv
<1> HIDE DEF new, j, row
<1>7. starts' \in [0 .. Window + MaxWait -> Nat] /\ CountsGrow'
    <2>1. starts \in [0 .. Window + MaxWait -> Nat]
        BY DEF CapacityInv, CapacityTypeOK
    <2>2. /\ starts' \in [0 .. Window + MaxWait -> Nat]
          /\ \A a \in 0 .. Window + MaxWait : starts'[a] = starts[a] + 1
        BY <1>1, <2>1
    <2>3. ASSUME NEW a \in 0 .. Window + MaxWait, NEW b \in 0 .. Window + MaxWait, a <= b
          PROVE  starts'[a] <= starts'[b]
        <3>1. starts[a] \in Nat /\ starts[b] \in Nat
            BY <2>1
        <3>2. starts[a] <= starts[b]
            BY <2>3 DEF CapacityInv, CountsGrow
        <3>3. starts'[a] = starts[a] + 1 /\ starts'[b] = starts[b] + 1
            BY <2>2
        <3> QED
            BY <3>1, <3>2, <3>3
    <2> QED
        BY <2>2, <2>3 DEF CountsGrow
<1>8. starts'[Window] <= worker[w].limit
    <2>1. Window \in 0 .. Window + MaxWait
        BY CapacityConstants
    <2>2. starts[Window] + 1 <= worker[w].limit
        BY <1>1 DEF CapacityInv, CallIsReserved
    <2> QED
        BY <1>1, <2>1, <2>2 DEF CapacityInv, CapacityTypeOK
<1>9. /\ attempt' \in [Jobs -> AttemptRow]
      /\ \A i \in Jobs : i # j => attempt'[i] = attempt[i]
    BY <1>1, <1>2, <1>4 DEF CapacityInv, CapacityTypeOK
<1>10. WorkersApart' /\ CallIsReserved'
    <2>1. CapacityTypeOK /\ WorkersApart /\ CallIsReserved
        BY DEF CapacityInv
    <2>2. \A v \in Workers \ {w} : worker[v].pc \notin {"reserved", "fenced"}
        BY <1>1, <2>1, PolicyAlone
    <2>3. \A v \in Workers \ {w} : worker[v].pc # "idle" =>
               job'[worker[v].job] = job[worker[v].job]
               /\ attempt'[worker[v].job] = attempt[worker[v].job]
        BY <1>1, <1>6, <1>9
    <2>4. /\ new.pc # "idle" /\ new.pc # "claiming" /\ new.pc # "prepared"
          /\ new.pc # "reserved" /\ new.pc # "fenced" /\ job'[new.job] = "processing"
        BY <1>1, <1>2, <1>3
    <2> QED
        BY <1>1, <1>3, <1>5, <2>1, <2>2, <2>3, <2>4, WorkerMoves
<1>11. /\ worker' \in [Workers -> WorkerRow] /\ request' \in [Callers -> RequestRow]
       /\ lock' \in Workers \cup Callers \cup {Nobody}
       /\ \A c \in Callers : (lock' = c) = (request'[c].op # "none")
       /\ \A v \in Workers : (lock' = v) = (worker'[v].pc \in {"reserved", "fenced", "calling"})
    BY <1>1, <1>3, LockFits DEF CapacityInv
<1>12. CapacityTypeOK'
    BY <1>1, <1>7, <1>9, <1>11 DEF CapacityInv, CapacityTypeOK
<1>13. RoomIsKept' /\ QueueKeepsItsLimits'
    BY <1>1, QueueStays DEF CapacityInv
<1> QED
    BY <1>7, <1>8, <1>10, <1>12, <1>13 DEF CapacityInv

\* The last job of a batch makes room for one of the next.
LEMMA NextBatch ==
    ASSUME CapacityAssumption, CapacityInv, NEW w \in Workers, lock = w,
           worker[w].pc \in {"fenced", "calling"},
           NEW batch \in SUBSET Having({"held"}), ~ReadyFull(Cardinality(batch) - 1),
           job' = [i \in Jobs |-> IF i \in batch THEN "ready"
                                  ELSE IF i = worker[w].job THEN "settled" ELSE job[i]],
           attempt' = [attempt EXCEPT ![worker[w].job] = NoAttempt],
           worker' = [worker EXCEPT ![w] = IdleWorker], request' = request, starts' = starts,
           ungated' = ungated \ {worker[w].job}
    PROVE  /\ job' \in [Jobs -> JobStatus] /\ attempt' \in [Jobs -> AttemptRow]
           /\ ungated' \subseteq Jobs
           /\ WorkersApart' /\ CallIsReserved' /\ RoomIsKept' /\ QueueKeepsItsLimits'
<1> DEFINE j == worker[w].job
<1>1. j \in Jobs /\ job[j] = "processing"
    BY WorkerFacts DEF CapacityInv, WorkersApart, Delivering
<1>2. batch \subseteq Jobs /\ \A i \in batch : job[i] = "held"
    BY DEF Having
<1>3. ASSUME NEW v \in Workers \ {w}, worker[v].pc # "idle"
      PROVE  worker[v].job \in Jobs /\ worker[v].job # j /\ worker[v].job \notin batch
    <2>1. worker[v].job \in Jobs /\ worker[v].job # j
        BY <1>3, OthersJobs DEF CapacityInv
    <2>2. worker[v].pc \in Delivering \cup {"claiming"}
        BY <1>3, WorkerFacts DEF CapacityInv
    <2>3. job[worker[v].job] \in {"ready", "processing"}
        BY <2>2 DEF CapacityInv, WorkersApart
    <2> QED
        BY <1>2, <2>1, <2>3
<1>4. /\ job' = [i \in Jobs |-> IF i \in batch THEN "ready"
                               ELSE IF i = j THEN "settled" ELSE job[i]]
      /\ attempt' = [attempt EXCEPT ![j] = NoAttempt] /\ ungated' = ungated \ {j}
    OBVIOUS
<1> HIDE DEF j
<1>5. job' \in [Jobs -> JobStatus] /\ attempt' \in [Jobs -> AttemptRow] /\ ungated' \subseteq Jobs
    <2>1. job' \in [Jobs -> JobStatus]
        BY <1>4 DEF CapacityInv, CapacityTypeOK, JobStatus
    <2>2. attempt' \in [Jobs -> AttemptRow]
        <3>1. attempt \in [Jobs -> AttemptRow] /\ NoAttempt \in AttemptRow
            BY IdleRow DEF CapacityInv, CapacityTypeOK
        <3> QED
            BY <1>4, <3>1
    <2>3. ungated' \subseteq Jobs
        BY <1>4 DEF CapacityInv, CapacityTypeOK
    <2> QED
        BY <2>1, <2>2, <2>3
<1>6. WorkersApart' /\ CallIsReserved'
    <2>1. ASSUME NEW v \in Workers \ {w}, worker[v].pc # "idle"
          PROVE  job'[worker[v].job] = job[worker[v].job]
                 /\ attempt'[worker[v].job] = attempt[worker[v].job]
        <3>1. worker[v].job \in Jobs /\ worker[v].job # j /\ worker[v].job \notin batch
            BY <1>3, <2>1
        <3> QED
            BY <1>1, <1>4, <3>1 DEF CapacityInv, CapacityTypeOK
    <2>2. /\ IdleWorker \in WorkerRow /\ IdleWorker.pc = "idle" /\ IdleWorker.job = Nobody
          /\ IdleWorker.pc \notin Delivering
        BY IdleRow DEF Delivering
    <2> QED
        BY <2>1, <2>2, WorkerMoves DEF CapacityInv
<1>7. RoomIsKept'
    BY PolicyAlone DEF CapacityInv, RoomIsKept
<1>8. Cardinality(Active') <= MaxActive
    <2>1. Active' \subseteq Active /\ Active \subseteq Jobs
        BY <1>1, <1>2, <1>4, QueueSets DEF Active, Having
    <2>2. /\ Cardinality(Active') <= Cardinality(Active)
          /\ Cardinality(Active') \in Nat /\ Cardinality(Active) \in Nat
        BY <2>1, CountsOfJobs
    <2> QED
        BY <2>2, CapacityConstants DEF CapacityInv, QueueKeepsItsLimits
<1>9. Cardinality(Ready' \ ungated') <= MaxReady
    <2>1. Ready' \ ungated' \subseteq (Ready \ {j}) \cup batch /\ j \in Ready
        BY <1>1, <1>2, <1>4 DEF Ready, Having
    <2>2. Ready \subseteq Jobs /\ (Ready \ {j}) \cup batch \subseteq Jobs
        BY <1>2, QueueSets
    <2>3. Cardinality(Ready \ {j}) = Cardinality(Ready) - 1
        BY <2>1, <2>2, CountsOfOther
    <2>4. Cardinality((Ready \ {j}) \cup batch) <= Cardinality(Ready \ {j}) + Cardinality(batch)
        BY <1>2, <2>2, CountsOfUnion
    <2>5. /\ Cardinality(Ready' \ ungated') <= Cardinality((Ready \ {j}) \cup batch)
          /\ Cardinality(Ready' \ ungated') \in Nat
          /\ Cardinality((Ready \ {j}) \cup batch) \in Nat
        BY <2>1, <2>2, CountsOfJobs
    <2>6. Cardinality(Ready) \in Nat /\ Cardinality(batch) \in Nat
        BY <1>2, <2>2, CountsOfJobs
    <2>7. ~(Cardinality(Ready) + (Cardinality(batch) - 1) > MaxReady)
        BY DEF ReadyFull
    <2> QED
        BY <2>3, <2>4, <2>5, <2>6, <2>7, CapacityConstants
<1>10. Cardinality(Processing') <= MaxProcessing
    <2>1. Processing' \subseteq Processing /\ Processing \subseteq Jobs
        BY <1>4, QueueSets DEF Processing, Having
    <2>2. /\ Cardinality(Processing') <= Cardinality(Processing)
          /\ Cardinality(Processing') \in Nat /\ Cardinality(Processing) \in Nat
        BY <2>1, CountsOfJobs
    <2> QED
        BY <2>2, CapacityConstants DEF CapacityInv, QueueKeepsItsLimits
<1> QED
    BY <1>5, <1>6, <1>7, <1>8, <1>9, <1>10 DEF QueueKeepsItsLimits

LEMMA FinishStep ==
    ASSUME CapacityAssumption, CapacityInv, NEW w \in Workers,
           NEW s \in {"ready", "review", "settled"}, NEW batch \in SUBSET Having({"held"}),
           Finish(w, s, batch)
    PROVE  CapacityInv'
<1> DEFINE j == worker[w].job
<1>1. /\ worker[w].pc \in {"fenced", "calling"}
      /\ worker' = [worker EXCEPT ![w] = IdleWorker] /\ lock' = Nobody
      /\ lease' = [lease EXCEPT !.lock = Nobody]
      /\ ungated' = IF s = "ready" THEN ungated ELSE ungated \ {j}
      /\ attempt' = IF s = "review" THEN attempt ELSE [attempt EXCEPT ![j] = NoAttempt]
      /\ job' = [i \in Jobs |-> IF i \in batch THEN "ready" ELSE [job EXCEPT ![j] = s][i]]
      /\ UNCHANGED <<limit, starts, request>>
    BY DEF Finish
<1>2. lock = w /\ worker[w].pc # "idle" /\ j \in Jobs
    BY <1>1, WorkerFacts DEF CapacityInv, CapacityTypeOK
<1>3. lease' \in LeaseRow /\ spent' \in 0 .. SpendBound /\ CountsGrow'
    <2>1. lease' \in LeaseRow
        BY <1>1 DEF CapacityInv, CapacityTypeOK, LeaseRow
    <2>2. spent' = spent \/ (spent < SpendBound /\ spent' = spent + 1)
        BY DEF Finish, Spend
    <2>3. spent' \in 0 .. SpendBound
        BY <2>2, CapacityConstants DEF CapacityInv, CapacityTypeOK
    <2> QED
        BY <1>1, <2>1, <2>3 DEF CapacityInv, CountsGrow
<1>4. /\ job' \in [Jobs -> JobStatus] /\ attempt' \in [Jobs -> AttemptRow]
      /\ ungated' \subseteq Jobs
      /\ WorkersApart' /\ CallIsReserved' /\ RoomIsKept' /\ QueueKeepsItsLimits'
    <2>1. CASE batch = {}
        <3>1. job' = [job EXCEPT ![j] = s]
            BY <1>1, <2>1 DEF CapacityInv, CapacityTypeOK
        <3>2. End(w, s)
            BY <1>1, <3>1 DEF End
        <3> QED
            BY <1>1, <1>2, <3>2, EndStep DEF CapacityInv
    <2>2. CASE batch # {}
        <3>1. s = "settled" /\ ~ReadyFull(Cardinality(batch) - 1)
            BY <2>2 DEF Finish
        <3>2. job' = [i \in Jobs |-> IF i \in batch THEN "ready"
                                     ELSE IF i = worker[w].job THEN "settled" ELSE job[i]]
            BY <1>1, <1>2, <3>1 DEF CapacityInv, CapacityTypeOK
        <3> QED
            BY ZenonT(60), <1>1, <1>2, <3>1, <3>2, NextBatch
    <2> QED
        BY <2>1, <2>2
<1>5. /\ worker' \in [Workers -> WorkerRow] /\ request' \in [Callers -> RequestRow]
      /\ lock' \in Workers \cup Callers \cup {Nobody}
      /\ \A c \in Callers : (lock' = c) = (request'[c].op # "none")
      /\ \A v \in Workers : (lock' = v) = (worker'[v].pc \in {"reserved", "fenced", "calling"})
    BY <1>1, <1>2, LockFits, IdleRow DEF CapacityInv
<1>6. CapacityTypeOK'
    BY <1>1, <1>3, <1>4, <1>5 DEF CapacityInv, CapacityTypeOK
<1> QED
    BY <1>3, <1>4, <1>6 DEF CapacityInv

LEMMA CrashStep ==
    ASSUME CapacityAssumption, CapacityInv, NEW w \in Workers, Crash(w)
    PROVE  CapacityInv'
<1>1. /\ worker[w].pc # "idle" /\ worker' = [worker EXCEPT ![w] = IdleWorker]
      /\ lock' = IF lock = w THEN Nobody ELSE lock
      /\ lease' = IF lease.lock = w THEN [lease EXCEPT !.lock = Nobody] ELSE lease
      /\ spent' = spent \/ (spent < SpendBound /\ spent' = spent + 1)
      /\ UNCHANGED <<limit, job, attempt, starts, request, ungated>>
    BY DEF Crash, Spend
<1>2. WorkersApart' /\ CallIsReserved'
    <2>1. /\ IdleWorker \in WorkerRow /\ IdleWorker.pc = "idle" /\ IdleWorker.job = Nobody
          /\ IdleWorker.pc \notin Delivering
        BY IdleRow DEF Delivering
    <2> QED
        BY <1>1, <2>1, WorkerMoves DEF CapacityInv
<1>3. /\ worker' \in [Workers -> WorkerRow] /\ request' \in [Callers -> RequestRow]
      /\ lock' \in Workers \cup Callers \cup {Nobody}
      /\ \A c \in Callers : (lock' = c) = (request'[c].op # "none")
      /\ \A v \in Workers : (lock' = v) = (worker'[v].pc \in {"reserved", "fenced", "calling"})
    <2>1. (lock = w) = (worker[w].pc \in {"reserved", "fenced", "calling"})
        BY DEF CapacityInv, CapacityTypeOK
    <2>2. IdleWorker \in WorkerRow /\ IdleWorker.pc \notin {"reserved", "fenced", "calling"}
        BY IdleRow
    <2>3. CapacityTypeOK /\ worker' = [worker EXCEPT ![w] = IdleWorker] /\ request' = request
        BY <1>1 DEF CapacityInv
    <2>4. CASE lock = w
        BY <1>1, <2>2, <2>3, <2>4, LockFits
    <2>5. CASE lock # w
        BY <1>1, <2>1, <2>2, <2>3, <2>5, LockFits
    <2> QED
        BY <2>4, <2>5
<1>4. lease' \in LeaseRow /\ spent' \in 0 .. SpendBound
    <2>1. lease' \in LeaseRow
        BY <1>1 DEF CapacityInv, CapacityTypeOK, LeaseRow
    <2>2. spent' \in 0 .. SpendBound
        BY <1>1, CapacityConstants DEF CapacityInv, CapacityTypeOK
    <2> QED
        BY <2>1, <2>2
<1>5. CapacityTypeOK'
    BY <1>1, <1>3, <1>4 DEF CapacityInv, CapacityTypeOK
<1>6. RoomIsKept' /\ QueueKeepsItsLimits' /\ CountsGrow'
    BY <1>1, QueueStays DEF CapacityInv, CountsGrow
<1> QED
    BY <1>2, <1>5, <1>6 DEF CapacityInv

\* Time passes: calls leave the window, attempts and claims grow old together.
LEMMA TimeStep ==
    ASSUME CapacityAssumption, CapacityInv, Tick
    PROVE  CapacityInv'
<1>1. /\ attempt' = [j \in Jobs |-> [attempt[j] EXCEPT !.age = Older(@)]]
      /\ starts' = [a \in DOMAIN starts |-> IF a = 0 THEN 0 ELSE starts[a - 1]]
      /\ worker' = [w \in Workers |-> [worker[w] EXCEPT !.age = Older(@)]]
      /\ lease' = [lease EXCEPT !.age = Older(@)]
      /\ UNCHANGED <<limit, job, request, lock, ungated, spent>>
    BY DEF Tick
<1>2. ASSUME NEW a \in Ages
      PROVE  Older(a) \in Ages /\ a <= Older(a) /\ \A b \in Ages : a <= b => Older(a) <= Older(b)
    BY CapacityConstants DEF Ages, Older
<1>3. ASSUME NEW j \in Jobs
      PROVE  /\ attempt'[j] \in AttemptRow /\ attempt'[j].state = attempt[j].state
             /\ attempt'[j].age = Older(attempt[j].age) /\ attempt[j].age \in Ages
    <2>1. attempt[j] \in AttemptRow
        BY DEF CapacityInv, CapacityTypeOK
    <2>2. attempt[j].age \in Ages /\ Older(attempt[j].age) \in Ages
        BY <1>2, <2>1 DEF AttemptRow
    <2>3. attempt'[j] = [attempt[j] EXCEPT !.age = Older(attempt[j].age)]
        BY <1>1
    <2> QED
        BY <2>1, <2>2, <2>3 DEF AttemptRow
<1>4. ASSUME NEW w \in Workers
      PROVE  /\ worker'[w] \in WorkerRow /\ worker'[w].pc = worker[w].pc
             /\ worker'[w].job = worker[w].job /\ worker'[w].limit = worker[w].limit
             /\ worker'[w].age = Older(worker[w].age) /\ worker[w].age \in Ages
    <2>1. worker[w] \in WorkerRow
        BY DEF CapacityInv, CapacityTypeOK
    <2>2. worker[w].age \in Ages /\ Older(worker[w].age) \in Ages
        BY <1>2, <2>1 DEF WorkerRow
    <2>3. worker'[w] = [worker[w] EXCEPT !.age = Older(worker[w].age)]
        BY <1>1
    <2> QED
        BY <2>1, <2>2, <2>3 DEF WorkerRow
<1>5. starts' \in [0 .. Window + MaxWait -> Nat] /\ CountsGrow' /\ starts'[Window] <= starts[Window]
    <2>1. /\ starts \in [0 .. Window + MaxWait -> Nat]
          /\ Window \in Nat /\ Window > 0 /\ MaxWait \in Nat
        BY CapacityConstants DEF CapacityInv, CapacityTypeOK
    <2>2. /\ DOMAIN starts' = 0 .. Window + MaxWait
          /\ \A a \in 0 .. Window + MaxWait : starts'[a] = IF a = 0 THEN 0 ELSE starts[a - 1]
        BY <1>1, <2>1
    <2>3. ASSUME NEW a \in 0 .. Window + MaxWait
          PROVE  starts'[a] \in Nat /\ (a # 0 => a - 1 \in 0 .. Window + MaxWait)
        BY <2>1, <2>2
    <2>4. starts' \in [0 .. Window + MaxWait -> Nat]
        BY <1>1, <2>1, <2>2, <2>3
    <2>5. ASSUME NEW a \in 0 .. Window + MaxWait, NEW b \in 0 .. Window + MaxWait, a <= b
          PROVE  starts'[a] <= starts'[b]
        <3>1. CASE a = 0
            BY <2>2, <2>3, <3>1
        <3>2. CASE a # 0
            <4>1. /\ a - 1 \in 0 .. Window + MaxWait /\ b - 1 \in 0 .. Window + MaxWait
                  /\ a - 1 <= b - 1 /\ b # 0
                BY <2>1, <2>5, <3>2
            <4>2. starts[a - 1] <= starts[b - 1]
                BY <4>1 DEF CapacityInv, CountsGrow
            <4> QED
                BY <2>2, <3>2, <4>1, <4>2
        <3> QED
            BY <3>1, <3>2
    <2>6. starts'[Window] <= starts[Window]
        <3>1. /\ Window \in 0 .. Window + MaxWait /\ Window - 1 \in 0 .. Window + MaxWait
              /\ Window - 1 <= Window /\ Window # 0
            BY <2>1
        <3>2. starts[Window - 1] <= starts[Window]
            BY <3>1 DEF CapacityInv, CountsGrow
        <3> QED
            BY <2>2, <3>1, <3>2
    <2> QED
        BY <2>4, <2>5, <2>6 DEF CountsGrow
<1>6. CapacityTypeOK'
    <2>1. worker' \in [Workers -> WorkerRow] /\ attempt' \in [Jobs -> AttemptRow]
        BY <1>1, <1>3, <1>4
    <2>2. lease' \in LeaseRow
        <3>1. lease \in LeaseRow /\ lease.age \in Ages
            BY DEF CapacityInv, CapacityTypeOK, LeaseRow
        <3>2. Older(lease.age) \in Ages /\ lease' = [lease EXCEPT !.age = Older(lease.age)]
            BY <1>1, <1>2, <3>1
        <3> QED
            BY <3>1, <3>2 DEF LeaseRow
    <2>3. \A w \in Workers : (lock' = w) = (worker'[w].pc \in {"reserved", "fenced", "calling"})
        BY <1>1, <1>4 DEF CapacityInv, CapacityTypeOK
    <2> QED
        BY ZenonT(60), <1>1, <1>5, <2>1, <2>2, <2>3 DEF CapacityInv, CapacityTypeOK
<1>7. WorkersApart'
    <2>1. /\ \A w \in Workers : worker'[w].pc = worker[w].pc /\ worker'[w].job = worker[w].job
          /\ job' = job /\ WorkersApart
        BY <1>1, <1>4 DEF CapacityInv
    <2> QED
        BY <2>1 DEF WorkersApart
<1>8. CallIsReserved'
    <2>1. ASSUME NEW w \in Workers, worker'[w].pc = "prepared"
          PROVE  /\ attempt'[worker'[w].job].state = "prepared"
                 /\ attempt'[worker'[w].job].age <= worker'[w].age
        <3>1. worker[w].pc = "prepared" /\ worker'[w].job = worker[w].job /\ worker[w].job \in Jobs
            BY <1>4, <2>1, WorkerFacts DEF CapacityInv
        <3>2. /\ attempt[worker[w].job].state = "prepared"
              /\ attempt[worker[w].job].age <= worker[w].age
            BY <3>1 DEF CapacityInv, CallIsReserved
        <3>3. Older(attempt[worker[w].job].age) <= Older(worker[w].age)
            BY <1>2, <1>3, <1>4, <3>1, <3>2
        <3> QED
            BY <1>3, <1>4, <3>1, <3>2, <3>3
    <2>2. ASSUME NEW w \in Workers,
                 \/ worker'[w].pc = "reserved" /\ worker'[w].age < LeaseTTL
                 \/ worker'[w].pc = "fenced"
          PROVE  starts'[Window] + 1 <= worker'[w].limit
        <3>1. worker[w].age \in Nat /\ worker'[w].age \in Nat /\ worker[w].limit \in Nat
            <4>1. worker'[w].age \in Ages
                BY <1>2, <1>4
            <4> QED
                BY <4>1, WorkerFacts, CapacityConstants DEF CapacityInv, Ages
        <3>2. worker[w].age <= worker'[w].age
            BY <1>2, <1>4
        <3>3. (worker[w].pc = "reserved" /\ worker[w].age < LeaseTTL) \/ worker[w].pc = "fenced"
            BY <1>4, <2>2, <3>1, <3>2, CapacityConstants
        <3>4. starts[Window] + 1 <= worker[w].limit
            BY <3>3 DEF CapacityInv, CallIsReserved, StillValid
        <3>5. Window \in 0 .. Window + MaxWait
            BY CapacityConstants
        <3>6. starts[Window] \in Nat /\ starts'[Window] \in Nat
            BY <1>5, <3>5 DEF CapacityInv, CapacityTypeOK
        <3> QED
            BY SMTT(40), <1>4, <1>5, <3>1, <3>4, <3>6
    <2> QED
        BY <2>1, <2>2 DEF CallIsReserved, StillValid
<1>9. RoomIsKept' /\ QueueKeepsItsLimits'
    BY <1>1, QueueStays DEF CapacityInv
<1> QED
    BY <1>5, <1>6, <1>7, <1>8, <1>9 DEF CapacityInv

LEMMA InitCapacity == ASSUME CapacityAssumption, CapacityInit PROVE CapacityInv
<1>1. CapacityTypeOK
    <2>1. "absent" \in JobStatus /\ Old \in Ages
        BY CapacityConstants DEF JobStatus, Ages
    <2>2. job \in [Jobs -> JobStatus] /\ attempt \in [Jobs -> AttemptRow]
        BY <2>1, IdleRow DEF CapacityInit
    <2>3. worker \in [Workers -> WorkerRow] /\ request \in [Callers -> RequestRow]
        BY IdleRow DEF CapacityInit
    <2>4. lease \in LeaseRow
        BY <2>1 DEF CapacityInit, LeaseRow
    <2>5. starts \in [0 .. Window + MaxWait -> Nat] /\ spent \in 0 .. SpendBound
        BY CapacityConstants DEF CapacityInit
    <2>6. /\ \A c \in Callers : (lock = c) = (request[c].op # "none")
          /\ \A w \in Workers : (lock = w) = (worker[w].pc \in {"reserved", "fenced", "calling"})
        BY IdleRow, CapacityConstants DEF CapacityInit
    <2> QED
        BY <2>2, <2>3, <2>4, <2>5, <2>6 DEF CapacityInit, CapacityTypeOK
<1>2. WorkersApart /\ CallIsReserved /\ RoomIsKept
    BY IdleRow DEF CapacityInit, WorkersApart, CallIsReserved, RoomIsKept, Delivering
<1>3. CountsGrow
    BY DEF CapacityInit, CountsGrow
<1>4. QueueKeepsItsLimits
    <2>1. Active = {} /\ Ready \ ungated = {} /\ Processing = {}
        BY DEF CapacityInit, Active, Ready, Processing, Having
    <2> QED
        BY <2>1, FS_EmptySet, CapacityConstants DEF QueueKeepsItsLimits
<1> QED
    BY <1>1, <1>2, <1>3, <1>4 DEF CapacityInv

LEMMA CapacityStutter == ASSUME CapacityInv, UNCHANGED capacityVars PROVE CapacityInv'
<1>1. /\ UNCHANGED <<limit, job, attempt, starts, worker>>
      /\ UNCHANGED <<request, lock, lease, ungated, spent>>
    BY DEF capacityVars
<1>2. CapacityTypeOK' /\ CountsGrow'
    BY <1>1 DEF CapacityInv, CapacityTypeOK, CountsGrow
<1>3. WorkersApart' /\ CallIsReserved'
    BY <1>1 DEF CapacityInv, WorkersApart, CallIsReserved, StillValid
<1>4. RoomIsKept' /\ QueueKeepsItsLimits'
    BY <1>1, QueueStays DEF CapacityInv
<1> QED
    BY <1>2, <1>3, <1>4 DEF CapacityInv

\* The steps that callers and time take.
LEMMA CallersStep ==
    ASSUME CapacityAssumption, CapacityInv,
           \/ \E c \in Callers :
               \/ \E first \in SUBSET Having({"absent"}) :
                     \E rest \in SUBSET (Having({"absent"}) \ first) : AdmitRun(c, first, rest)
               \/ \E batch \in SUBSET Having({"held"}) : ReleaseBatch(c, batch)
               \/ \E j \in Jobs : RetryJob(c, j) \/ ConfirmNotSent(c, j)
               \/ CommitRequest(c) \/ RollbackRequest(c)
           \/ \E j \in Jobs : SettleJob(j) \/ RecoverStale(j)
           \/ ReturnWithheld
           \/ \E n \in StartLimits : PatchPolicy(n)
           \/ Tick
    PROVE  CapacityInv' /\ \A w \in Workers : worker'[w].pc = worker[w].pc
<1>1. CapacityInv'
    BY CreateStep, ReleaseStep, RetryStep, ConfirmStep, CommitStep, RollbackStep, SettleStep,
       RecoverStep, WithheldStep, PatchStep, TimeStep
<1>2. CASE Tick
    <2>1. worker' = [w \in Workers |-> [worker[w] EXCEPT !.age = Older(@)]]
        BY <1>2 DEF Tick
    <2>2. \A w \in Workers : worker[w] \in WorkerRow
        BY DEF CapacityInv, CapacityTypeOK
    <2> QED
        BY <1>1, <2>1, <2>2 DEF WorkerRow
<1>3. CASE worker' = worker
    BY <1>1, <1>3
<1> QED
    BY <1>2, <1>3 DEF AdmitRun, ReleaseBatch, RetryJob, ConfirmNotSent, Ask, CommitRequest,
                      RollbackRequest, SettleJob, RecoverStale, ReturnWithheld, PatchPolicy

\* The steps of a worker: none but the start of a call starts one.
LEMMA DeliveryStep ==
    ASSUME CapacityAssumption, CapacityInv, NEW w \in Workers,
           \/ \E j \in Jobs : TakeLease(w, j)
           \/ Precheck(w) \/ Prepare(w) \/ Reserve(w) \/ Fence(w) \/ Start(w) \/ Crash(w)
           \/ \E s \in {"ready", "review", "settled"}, batch \in SUBSET Having({"held"}) :
                 Finish(w, s, batch)
    PROVE  /\ CapacityInv'
           /\ \A v \in Workers : worker[v].pc = "fenced" /\ worker'[v].pc = "calling" =>
                 starts'[Window] <= worker[v].limit
<1>1. CapacityInv'
    BY TakeStep, PrecheckStep, PrepareStep, ReserveStep, FenceStep, StartStep, CrashStep, FinishStep
<1>2. worker \in [Workers -> WorkerRow]
    BY DEF CapacityInv, CapacityTypeOK
<1>3. CASE Start(w)
    <2>1. \A v \in Workers \ {w} : worker'[v] = worker[v]
        BY <1>2, <1>3 DEF Start
    <2> QED
        BY <1>1, <1>3, <2>1, StartStep
<1>4. ASSUME ~Start(w)
      PROVE  \E new : new.pc # "calling" /\ worker' = [worker EXCEPT ![w] = new]
    <2>1. CASE \E j \in Jobs : TakeLease(w, j)
        BY <2>1 DEF TakeLease
    <2>2. CASE Precheck(w)
        <3>1. IdleWorker.pc # "calling"
            BY IdleRow
        <3>2. CASE worker' = [worker EXCEPT ![w] = IdleWorker]
            BY <3>1, <3>2
        <3>3. CASE worker' = [worker EXCEPT ![w].pc = "claimed", ![w].limit = limit]
            <4> DEFINE new == [worker[w] EXCEPT !.pc = "claimed", !.limit = limit]
            <4>1. worker[w] \in WorkerRow
                BY <1>2
            <4>2. new.pc = "claimed"
                BY <4>1 DEF WorkerRow
            <4>3. worker' = [worker EXCEPT ![w] = new]
                BY <1>2, <3>3
            <4> QED
                BY <4>2, <4>3
        <3> QED
            BY <2>2, <3>2, <3>3 DEF Precheck
    <2>3. ASSUME NEW pc \in {"prepared", "reserved", "fenced"},
                 worker' = [worker EXCEPT ![w].pc = pc]
          PROVE  \E new : new.pc # "calling" /\ worker' = [worker EXCEPT ![w] = new]
        <3> DEFINE new == [worker[w] EXCEPT !.pc = pc]
        <3>1. worker[w] \in WorkerRow
            BY <1>2
        <3>2. new.pc = pc
            BY <3>1 DEF WorkerRow
        <3>3. worker' = [worker EXCEPT ![w] = new]
            BY <1>2, <2>3
        <3> QED
            BY <3>2, <3>3
    <2>4. CASE worker' = [worker EXCEPT ![w] = IdleWorker]
        BY <2>4, IdleRow
    <2>5. CASE Prepare(w)
        BY <2>3, <2>5 DEF Prepare
    <2>6. CASE Reserve(w)
        BY <2>3, <2>4, <2>6 DEF Reserve, End
    <2>7. CASE Fence(w)
        BY <2>3, <2>4, <2>7 DEF Fence, End
    <2>8. CASE Crash(w)
        BY <2>4, <2>8 DEF Crash
    <2>9. CASE \E s \in {"ready", "review", "settled"}, batch \in SUBSET Having({"held"}) :
                  Finish(w, s, batch)
        BY <2>4, <2>9 DEF Finish
    <2> QED
        BY <1>4, <2>1, <2>2, <2>5, <2>6, <2>7, <2>8, <2>9
<1>5. CASE ~Start(w)
    <2>1. PICK new : new.pc # "calling" /\ worker' = [worker EXCEPT ![w] = new]
        BY <1>4, <1>5
    <2>2. \A v \in Workers : worker'[v] = worker[v] \/ worker'[v].pc # "calling"
        BY <1>2, <2>1
    <2> QED
        BY <1>1, <2>2
<1> QED
    BY <1>3, <1>5

LEMMA CapacityStep ==
    ASSUME CapacityAssumption, CapacityInv, [CapacityNext]_capacityVars
    PROVE  /\ CapacityInv'
           /\ [\A w \in Workers : worker[w].pc = "fenced" /\ worker'[w].pc = "calling" =>
                  starts'[Window] <= worker[w].limit]_capacityVars
<1>1. CASE UNCHANGED capacityVars
    BY <1>1, CapacityStutter
<1>2. CASE \E w \in Workers :
              \/ \E j \in Jobs : TakeLease(w, j)
              \/ Precheck(w) \/ Prepare(w) \/ Reserve(w) \/ Fence(w) \/ Start(w) \/ Crash(w)
              \/ \E s \in {"ready", "review", "settled"}, batch \in SUBSET Having({"held"}) :
                    Finish(w, s, batch)
    BY <1>2, DeliveryStep
<1>3. CASE \/ \E c \in Callers :
               \/ \E first \in SUBSET Having({"absent"}) :
                     \E rest \in SUBSET (Having({"absent"}) \ first) : AdmitRun(c, first, rest)
               \/ \E batch \in SUBSET Having({"held"}) : ReleaseBatch(c, batch)
               \/ \E j \in Jobs : RetryJob(c, j) \/ ConfirmNotSent(c, j)
               \/ CommitRequest(c) \/ RollbackRequest(c)
           \/ \E j \in Jobs : SettleJob(j) \/ RecoverStale(j)
           \/ ReturnWithheld
           \/ \E n \in StartLimits : PatchPolicy(n)
           \/ Tick
    <2>1. CapacityInv' /\ \A w \in Workers : worker'[w].pc = worker[w].pc
        BY <1>3, CallersStep
    <2> QED
        BY <2>1
<1> QED
    BY <1>1, <1>2, <1>3 DEF CapacityNext

\* The conjunction that the two properties of Capacity rest on.
THEOREM CapacityInvariant == CapacitySpec => []CapacityInv
<1>1. CapacityInit => CapacityInv
    BY CapacityAssumption, InitCapacity
<1>2. CapacityInv /\ [CapacityNext]_capacityVars => CapacityInv'
    BY CapacityAssumption, CapacityStep
<1> QED
    BY <1>1, <1>2, PTL DEF CapacitySpec

\* Neither admissions nor releases nor workers side by side overbook the queue
\* (app/services/capacity.py:891).
THEOREM QueueIsKept == CapacitySpec => []QueueKeepsItsLimits
<1>1. CapacityInv => QueueKeepsItsLimits
    BY DEF CapacityInv
<1> QED
    BY <1>1, CapacityInvariant, PTL

\* No call is started that takes those of the window above the limit its worker has read
\* (app/services/capacity.py:1123).
THEOREM CallsStayInBudget == CapacitySpec => LimitKept
<1>1. CapacityInv /\ [CapacityNext]_capacityVars =>
          [\A w \in Workers : worker[w].pc = "fenced" /\ worker'[w].pc = "calling" =>
              starts'[Window] <= worker[w].limit]_capacityVars
    BY CapacityAssumption, CapacityStep
<1> QED
    BY <1>1, CapacityInvariant, PTL DEF CapacitySpec, LimitKept

=============================================================================
