-------------------------- MODULE OperationsProofs --------------------------
(***************************************************************************)
(* Proofs about controlled changes (ChangeControl) and the operational SLO *)
(* (Operations).  The two share no state; each has an inductive invariant  *)
(* of its own, stated in its module.                                       *)
(***************************************************************************)
EXTENDS ChangeControl, Operations, FiniteSetTheorems, TLAPS

(***************************************************************************)
(* Incidents and assessments.                                              *)
(***************************************************************************)

LEMMA NotActive == {"NONE", "RESOLVED", "CLOSED"} \cap Active = {}
BY DEF Active

LEMMA MovedFields ==
    ASSUME NEW row \in IncidentRow, NEW to \in Active \cup {"RESOLVED", "CLOSED"}
    PROVE  /\ Moved(row, to) \in IncidentRow
           /\ Moved(row, to).status = to
           /\ Moved(row, to).check = row.check
           /\ Moved(row, to).reopened = (row.reopened /\ to \in Active)
BY DEF Moved, IncidentRow, Active

LEMMA SyncedFields ==
    ASSUME NEW v \in Evaluation, v.at = "synced"
    PROVE  /\ v.under \in SloPolicies /\ v.quiet \in BOOLEAN /\ v.blocked \subseteq Checks
           /\ v.held \subseteq Incidents /\ v.new \subseteq Checks /\ v.ending \subseteq Incidents
BY DEF Evaluation

LEMMA MeasuredFields ==
    ASSUME NEW v \in Evaluation, v.at \in {"waiting", "measured"}
    PROVE  /\ v.under \in SloPolicies /\ v.quiet \in BOOLEAN
           /\ v.at = "measured" => v.blocked \subseteq Checks
BY DEF Evaluation

LEMMA PolicyFields ==
    ASSUME NEW p \in SloPolicies
    PROVE  /\ p.suppress \in BOOLEAN /\ p.create \in BOOLEAN /\ p.resolve \in BOOLEAN
           /\ Absent \notin Checks
BY OperationsAssumption DEF PolicyContent

\* A step in which no evaluation moves, and incidents only as WritesFit allows.
LEMMA IncidentMove ==
    ASSUME OperationsInv, UNCHANGED eval, sloPolicy' \in SloPolicies,
           assessment' \in SloPolicies \cup {Absent}, job' \in [Jobs -> JobStatus],
           NEW i \in Incidents, NEW row \in IncidentRow,
           incident' = [incident EXCEPT ![i] = row],
           \/ row.check = incident[i].check
           \/ row.check = Absent /\ ~IsActive(i)
                /\ \A e \in Evaluators : eval[e].at = "synced" => i \notin eval[e].ending,
           Held(i) => row.status \in Active,
           row.status \in Active /\ row.check # Absent =>
              row.reopened \/ (IsActive(i) /\ row.reopened = incident[i].reopened)
    PROVE  OperationsInv'
<1>1. /\ incident \in [Incidents -> IncidentRow] /\ incident' \in [Incidents -> IncidentRow]
      /\ eval \in [Evaluators -> Evaluation]
    BY DEF OperationsInv, OperationsTypeOK
<1>2. incident'[i] = row /\ \A k \in Incidents \ {i} : incident'[k] = incident[k]
    BY <1>1
<1>3. \A k \in Incidents, c \in Checks :
         k \in ActiveOf(c)' => incident'[k].reopened
                               \/ (k \in ActiveOf(c) /\ incident'[k].reopened = incident[k].reopened)
    BY <1>2, OperationsAssumption DEF ActiveOf, IsActive
<1>4. OperationsTypeOK'
    <2>1. ASSUME NEW e \in Evaluators, eval[e].at = "synced", NEW k \in eval[e].held
          PROVE  IsActive(k)'
        <3>1. IsActive(k) /\ k \in Incidents
            BY <1>1, <2>1, SyncedFields DEF OperationsInv, OperationsTypeOK
        <3>2. CASE k = i
            BY <1>2, <2>1, <3>2 DEF Held, IsActive
        <3>3. CASE k # i
            BY <1>2, <3>1, <3>3 DEF IsActive
        <3> QED
            BY <3>2, <3>3
    <2> QED
        BY <1>1, <2>1 DEF OperationsInv, OperationsTypeOK
<1>5. OneEvaluation'
    BY DEF OperationsInv, OneEvaluation
<1>6. NoCopyOfActiveIncident'
    <2> SUFFICES ASSUME NEW c \in Checks, NEW k \in ActiveOf(c)', NEW l \in ActiveOf(c)',
                        ~incident'[k].reopened, ~incident'[l].reopened
                 PROVE  k = l
        BY DEF NoCopyOfActiveIncident
    <2>1. k \in Incidents /\ l \in Incidents
        BY DEF ActiveOf
    <2>2. /\ k \in ActiveOf(c) /\ ~incident[k].reopened
          /\ l \in ActiveOf(c) /\ ~incident[l].reopened
        BY <1>3, <2>1
    <2> QED
        BY <2>2 DEF OperationsInv, NoCopyOfActiveIncident
<1>7. WritesFit'
    <2> SUFFICES ASSUME NEW e \in Evaluators, eval[e].at = "synced"
                 PROVE  LET v == eval[e] IN
                        /\ v.new \subseteq v.blocked
                        /\ \A c \in v.new : \A k \in ActiveOf(c)' : incident'[k].reopened
                        /\ v.under.create /\ ~v.quiet =>
                             \A c \in v.blocked \ v.new : v.held \cap ActiveOf(c)' # {}
                        /\ \A k \in v.ending : incident'[k].check \notin v.blocked
                        /\ \A k \in Incidents :
                             v.under.resolve /\ IsActive(k)'
                             /\ incident'[k].check \notin v.blocked \cup {Absent}
                               => k \in v.ending \/ incident'[k].reopened
        BY DEF WritesFit
    <2> DEFINE v == eval[e]
    <2>1. /\ v.new \subseteq v.blocked
          /\ \A c \in v.new : \A k \in ActiveOf(c) : incident[k].reopened
          /\ v.under.create /\ ~v.quiet =>
               \A c \in v.blocked \ v.new : v.held \cap ActiveOf(c) # {}
          /\ \A k \in v.ending : incident[k].check \notin v.blocked
          /\ \A k \in Incidents :
               v.under.resolve /\ IsActive(k) /\ incident[k].check \notin v.blocked \cup {Absent}
                 => k \in v.ending \/ incident[k].reopened
        BY DEF OperationsInv, WritesFit
    <2>2. v.new \subseteq Checks /\ v.blocked \subseteq Checks /\ v.ending \subseteq Incidents
          /\ v.held \subseteq Incidents
        BY <1>1, SyncedFields
    <2>3. \A c \in v.new : \A k \in ActiveOf(c)' : incident'[k].reopened
        <3> SUFFICES ASSUME NEW c \in v.new, NEW k \in ActiveOf(c)' PROVE incident'[k].reopened
            OBVIOUS
        <3>1. k \in Incidents /\ c \in Checks
            BY <2>2 DEF ActiveOf
        <3> QED
            BY <1>3, <2>1, <3>1
    <2>4. ASSUME v.under.create, ~v.quiet, NEW c \in v.blocked \ v.new
          PROVE  v.held \cap ActiveOf(c)' # {}
        <3>1. PICK k \in v.held : k \in ActiveOf(c)
            BY <2>1, <2>4
        <3>2. c \in Checks /\ c # Absent /\ k \in Incidents /\ Held(k)
            BY <2>2, <2>4, OperationsAssumption DEF Held
        <3>3. k \in ActiveOf(c)'
            BY <1>2, <3>1, <3>2 DEF ActiveOf, IsActive
        <3> QED
            BY <3>3
    <2>5. \A k \in v.ending : incident'[k].check \notin v.blocked
        BY <1>2, <2>1, <2>2
    <2>6. ASSUME NEW k \in Incidents, v.under.resolve, IsActive(k)',
                 incident'[k].check \notin v.blocked \cup {Absent}
          PROVE  k \in v.ending \/ incident'[k].reopened
        <3>1. PICK c \in Checks : c = incident'[k].check
            BY <1>1, <2>6 DEF IncidentRow
        <3>2. k \in ActiveOf(c)'
            BY <2>6, <3>1 DEF ActiveOf
        <3>3. CASE incident'[k].reopened
            BY <3>3
        <3>4. CASE k \in ActiveOf(c) /\ incident'[k].reopened = incident[k].reopened
            BY <2>1, <2>6, <3>1, <3>4 DEF ActiveOf
        <3> QED
            BY <1>3, <3>2, <3>3, <3>4
    <2> HIDE DEF v
    <2> QED
        BY <2>1, <2>3, <2>4, <2>5, <2>6 DEF v
<1> QED
    BY <1>4, <1>5, <1>6, <1>7 DEF OperationsInv

\* An evaluation moves to a state that holds no lock and writes nothing, or leaves one.
LEMMA EvaluationMove ==
    ASSUME OperationsInv, UNCHANGED <<sloPolicy, incident, job>>,
           assessment' \in SloPolicies \cup {Absent},
           NEW e \in Evaluators, NEW v \in Evaluation, eval' = [eval EXCEPT ![e] = v],
           v.at = "measured" => ~PolicyLocked,
           v.at # "synced"
    PROVE  OperationsInv'
<1>1. eval \in [Evaluators -> Evaluation] /\ eval' \in [Evaluators -> Evaluation]
    BY DEF OperationsInv, OperationsTypeOK
<1>2. eval'[e] = v /\ \A d \in Evaluators \ {e} : eval'[d] = eval[d]
    BY <1>1
<1>3. OperationsTypeOK'
    BY <1>1, <1>2 DEF OperationsInv, OperationsTypeOK, IsActive
<1>4. OneEvaluation'
    BY <1>2 DEF OperationsInv, OneEvaluation, PolicyLocked
<1>5. NoCopyOfActiveIncident'
    BY DEF OperationsInv, NoCopyOfActiveIncident, ActiveOf, IsActive
<1>6. WritesFit'
    BY <1>2 DEF OperationsInv, WritesFit, ActiveOf, IsActive
<1> QED
    BY <1>3, <1>4, <1>5, <1>6 DEF OperationsInv

\* What an evaluation has found when it has locked what it found.
LEMMA SyncInv ==
    ASSUME OperationsInv, NEW e \in Evaluators, Sync(e)
    PROVE  OperationsInv'
<1> DEFINE p == eval[e].under
           blocked == eval[e].blocked
           creating == IF p.create /\ ~eval[e].quiet THEN blocked ELSE {}
<1>1. /\ eval[e] \in Evaluation /\ eval[e].at = "measured"
      /\ p \in SloPolicies /\ eval[e].quiet \in BOOLEAN /\ blocked \subseteq Checks
      /\ eval \in [Evaluators -> Evaluation]
      /\ UNCHANGED <<sloPolicy, assessment, incident, job>>
    BY MeasuredFields DEF Sync, OperationsInv, OperationsTypeOK
<1>2. creating \subseteq blocked
    OBVIOUS
<1>3. PICK held \in SUBSET UNION {LockedOf(c) : c \in creating} :
         /\ \A c \in creating : LockedOf(c) # {} => Cardinality(held \cap LockedOf(c)) = 1
         /\ eval' = [eval EXCEPT ![e] =
              [at |-> "synced", under |-> p, quiet |-> eval[e].quiet, blocked |-> blocked,
               held |-> held, new |-> {c \in creating : ActiveOf(c) = {}},
               ending |-> Ending(p, blocked)]]
    BY <1>1 DEF Sync
<1> DEFINE v == [at |-> "synced", under |-> p, quiet |-> eval[e].quiet, blocked |-> blocked,
                 held |-> held, new |-> {c \in creating : ActiveOf(c) = {}},
                 ending |-> Ending(p, blocked)]
<1>4. held \subseteq Incidents /\ \A i \in held : IsActive(i)
    BY <1>3 DEF LockedOf, ActiveOf
<1>5. v \in Evaluation
    BY <1>1, <1>2, <1>4 DEF Evaluation, Ending
<1>6. eval'[e] = v /\ \A d \in Evaluators \ {e} : eval'[d] = eval[d]
    BY <1>1, <1>3
<1>7. /\ v.at = "synced" /\ v.under = p /\ v.quiet = eval[e].quiet /\ v.blocked = blocked
      /\ v.held = held /\ v.new = {c \in creating : ActiveOf(c) = {}}
      /\ v.ending = Ending(p, blocked)
    OBVIOUS
<1> HIDE DEF v
<1>8. OperationsTypeOK'
    <2>1. eval' \in [Evaluators -> Evaluation]
        BY <1>1, <1>3, <1>5 DEF v
    <2>2. \A d \in Evaluators : eval'[d].at = "synced" => \A i \in eval'[d].held : IsActive(i)'
        BY <1>1, <1>4, <1>6, <1>7 DEF OperationsInv, OperationsTypeOK, IsActive
    <2> QED
        BY <1>1, <2>1, <2>2 DEF OperationsInv, OperationsTypeOK
<1>9. OneEvaluation'
    BY <1>1, <1>6, <1>7 DEF OperationsInv, OneEvaluation
<1>10. NoCopyOfActiveIncident'
    BY <1>1 DEF OperationsInv, NoCopyOfActiveIncident, ActiveOf, IsActive
<1>11. \A c \in blocked \ v.new : p.create /\ ~eval[e].quiet => held \cap ActiveOf(c) # {}
    <2> SUFFICES ASSUME NEW c \in blocked \ v.new, p.create, ~eval[e].quiet
                 PROVE  held \cap ActiveOf(c) # {}
        OBVIOUS
    <2>1. c \in creating /\ ActiveOf(c) # {}
        BY <1>7
    <2>2. Cardinality(held \cap LockedOf(c)) = 1
        BY <1>3, <2>1 DEF LockedOf
    <2> QED
        BY <2>2, FS_EmptySet DEF LockedOf
<1>12. WritesFit'
    <2>1. ASSUME NEW d \in Evaluators, eval'[d].at = "synced" PROVE d = e
        BY <1>1, <1>6, <2>1 DEF OperationsInv, OneEvaluation
    <2>2. \A c : ActiveOf(c)' = ActiveOf(c)
        BY <1>1 DEF ActiveOf, IsActive
    <2>3. v.new \subseteq v.blocked /\ \A c \in v.new : ActiveOf(c) = {}
        BY <1>2, <1>7
    <2>4. \A i \in Ending(p, blocked) : incident[i].check \notin blocked
        BY DEF Ending
    <2>5. \A i \in Incidents :
             p.resolve /\ IsActive(i) /\ incident[i].check \notin blocked \cup {Absent}
               => i \in Ending(p, blocked)
        BY DEF Ending
    <2> HIDE DEF creating, p, blocked
    <2> QED
        BY <1>1, <1>6, <1>7, <1>11, <2>1, <2>2, <2>3, <2>4, <2>5 DEF WritesFit, IsActive
<1> QED
    BY <1>8, <1>9, <1>10, <1>12 DEF OperationsInv

\* What the writes of a commit make of each incident.
LEMMA CommitIncidents ==
    ASSUME OperationsInv, NEW e \in Evaluators, Commit(e)
    PROVE  LET v == eval[e] IN
           /\ v.at = "synced" /\ incident' \in [Incidents -> IncidentRow]
           /\ \A i \in Incidents :
                \/ /\ ~IsActive(i) /\ i \notin v.ending /\ ~incident'[i].reopened
                   /\ incident'[i].status = "OPEN" /\ incident'[i].check \in v.new
                \/ i \in v.ending /\ incident'[i].status = "RESOLVED"
                \/ i \notin v.ending /\ incident'[i] = incident[i]
           /\ \A c \in v.new : \E i \in Incidents :
                incident'[i].check = c /\ incident'[i].status = "OPEN"
           /\ \A i, k \in Incidents :
                (~IsActive(i) /\ incident'[i].status = "OPEN"
                  /\ ~IsActive(k) /\ incident'[k].status = "OPEN"
                  /\ incident'[i].check = incident'[k].check) => i = k
<1> DEFINE v == eval[e]
<1>1. /\ v \in Evaluation /\ v.at = "synced" /\ incident \in [Incidents -> IncidentRow]
    BY DEF Commit, OperationsInv, OperationsTypeOK
<1>2. v.new \subseteq Checks /\ v.ending \subseteq Incidents
    BY <1>1, SyncedFields
<1>3. PICK place \in [v.new -> Places \ v.ending] :
         /\ \A c, d \in v.new : place[c] = place[d] => c = d
         /\ incident' = [i \in Incidents |->
              IF \E c \in v.new : place[c] = i
                THEN [status |-> "OPEN", check |-> CHOOSE c \in v.new : place[c] = i,
                      reopened |-> FALSE]
                ELSE IF i \in v.ending THEN Moved(incident[i], "RESOLVED")
                                       ELSE incident[i]]
    BY DEF Commit
<1> HIDE DEF v
<1>4. ASSUME NEW c \in v.new
      PROVE  /\ place[c] \in Incidents /\ ~IsActive(place[c]) /\ place[c] \notin v.ending
             /\ incident'[place[c]] = [status |-> "OPEN", check |-> c, reopened |-> FALSE]
             /\ incident'[place[c]].check = c /\ incident'[place[c]].status = "OPEN"
    <2>1. place[c] \in Places \ v.ending
        BY <1>3
    <2>2. (CHOOSE d \in v.new : place[d] = place[c]) = c
        BY <1>3
    <2> QED
        BY <1>3, <2>1, <2>2 DEF Places
<1>5. ASSUME NEW i \in Incidents, \A c \in v.new : place[c] # i
      PROVE  /\ i \in v.ending => incident'[i] = Moved(incident[i], "RESOLVED")
             /\ i \notin v.ending => incident'[i] = incident[i]
    BY <1>3, <1>5
<1>6. ASSUME NEW i \in Incidents
      PROVE  /\ incident'[i] \in IncidentRow
             /\ \/ /\ ~IsActive(i) /\ i \notin v.ending /\ ~incident'[i].reopened
                   /\ incident'[i].status = "OPEN" /\ incident'[i].check \in v.new
                \/ i \in v.ending /\ incident'[i].status = "RESOLVED"
                \/ i \notin v.ending /\ incident'[i] = incident[i]
    <2>1. CASE \E c \in v.new : place[c] = i
        <3>1. PICK c \in v.new : place[c] = i
            BY <2>1
        <3>2. incident'[i] = [status |-> "OPEN", check |-> c, reopened |-> FALSE]
            BY <1>4, <3>1
        <3>3. c \in Checks
            BY <1>2
        <3> QED
            BY <1>4, <3>1, <3>2, <3>3 DEF IncidentRow, Active
    <2>2. CASE \A c \in v.new : place[c] # i
        <3>1. incident[i] \in IncidentRow
            BY <1>1
        <3> QED
            BY <1>5, <2>2, <3>1, MovedFields
    <2> QED
        BY <2>1, <2>2
<1>7. \A c \in v.new : \E i \in Incidents :
         incident'[i].check = c /\ incident'[i].status = "OPEN"
    BY <1>4
<1>8. ASSUME NEW i \in Incidents, NEW k \in Incidents,
             ~IsActive(i), incident'[i].status = "OPEN",
             ~IsActive(k), incident'[k].status = "OPEN",
             incident'[i].check = incident'[k].check
      PROVE  i = k
    <2>1. ASSUME NEW l \in Incidents, ~IsActive(l), incident'[l].status = "OPEN"
          PROVE  \E c \in v.new : place[c] = l /\ incident'[l].check = c
        <3>1. PICK c \in v.new : place[c] = l
            <4>1. incident[l] \in IncidentRow /\ incident[l].status # "OPEN"
                BY <1>1, <2>1 DEF IsActive, Active
            <4> QED
                BY <1>5, <2>1, <4>1, MovedFields
        <3> QED
            BY <1>4, <3>1
    <2> QED
        BY <1>8, <2>1
<1>9. incident' \in [Incidents -> IncidentRow]
    <2>1. incident' = [i \in Incidents |-> incident'[i]]
        BY <1>3
    <2> QED
        BY <1>6, <2>1
<1>10. \A i \in Incidents :
         \/ /\ ~IsActive(i) /\ i \notin v.ending /\ ~incident'[i].reopened
            /\ incident'[i].status = "OPEN" /\ incident'[i].check \in v.new
         \/ i \in v.ending /\ incident'[i].status = "RESOLVED"
         \/ i \notin v.ending /\ incident'[i] = incident[i]
    BY <1>6
<1>11. \A i, k \in Incidents :
         (~IsActive(i) /\ incident'[i].status = "OPEN"
           /\ ~IsActive(k) /\ incident'[k].status = "OPEN"
           /\ incident'[i].check = incident'[k].check) => i = k
    BY <1>8
<1> QED
    BY <1>1, <1>7, <1>9, <1>10, <1>11 DEF v

LEMMA CommitInv ==
    ASSUME OperationsInv, NEW e \in Evaluators, Commit(e)
    PROVE  OperationsInv'
<1> DEFINE v == eval[e]
<1>1. /\ v \in Evaluation /\ v.at = "synced" /\ eval \in [Evaluators -> Evaluation]
      /\ incident \in [Incidents -> IncidentRow] /\ incident' \in [Incidents -> IncidentRow]
      /\ UNCHANGED <<sloPolicy, job>>
    BY CommitIncidents DEF Commit, OperationsInv, OperationsTypeOK
<1>2. /\ v.under \in SloPolicies /\ v.new \subseteq Checks /\ v.new \subseteq v.blocked
      /\ v.ending \subseteq Incidents
      /\ \A c \in v.new : \A i \in ActiveOf(c) : incident[i].reopened
    BY <1>1, SyncedFields DEF OperationsInv, WritesFit
<1>3. /\ eval' = [eval EXCEPT ![e] = NotEvaluating]
      /\ assessment' \in SloPolicies \cup {Absent}
    BY <1>2 DEF Commit
<1>4. eval'[e] = NotEvaluating /\ \A d \in Evaluators \ {e} : eval'[d] = eval[d]
    BY <1>1, <1>3
<1>5. \A d \in Evaluators : eval'[d].at \notin {"measured", "synced"}
    BY <1>1, <1>4 DEF OperationsInv, OneEvaluation, NotEvaluating
<1>6. OperationsTypeOK'
    <2>1. NotEvaluating \in Evaluation
        BY DEF NotEvaluating, Evaluation
    <2>2. eval' \in [Evaluators -> Evaluation]
        BY <1>1, <1>3, <2>1
    <2> QED
        BY <1>1, <1>3, <1>5, <2>2 DEF OperationsInv, OperationsTypeOK
<1>7. OneEvaluation' /\ WritesFit'
    BY <1>5 DEF OneEvaluation, WritesFit
<1>8. NoCopyOfActiveIncident'
    <2> SUFFICES ASSUME NEW c \in Checks, NEW i \in ActiveOf(c)', NEW k \in ActiveOf(c)',
                        ~incident'[i].reopened, ~incident'[k].reopened
                 PROVE  i = k
        BY DEF NoCopyOfActiveIncident
    <2>1. /\ i \in Incidents /\ k \in Incidents
          /\ incident'[i].check = c /\ incident'[k].check = c
          /\ incident'[i].status # "RESOLVED" /\ incident'[k].status # "RESOLVED"
        BY DEF ActiveOf, IsActive, Active
    <2>2. ASSUME NEW l \in {i, k}
          PROVE  \/ ~IsActive(l) /\ incident'[l].status = "OPEN" /\ c \in v.new
                 \/ l \in ActiveOf(c) /\ ~incident[l].reopened
        <3>1. \/ ~IsActive(l) /\ incident'[l].status = "OPEN" /\ c \in v.new
              \/ incident'[l] = incident[l]
            BY <2>1, CommitIncidents
        <3>2. l \in ActiveOf(c)' /\ ~incident'[l].reopened
            OBVIOUS
        <3> QED
            BY <3>1, <3>2 DEF ActiveOf, IsActive
    <2>3. CASE c \in v.new
        <3>1. \A l \in ActiveOf(c) : incident[l].reopened
            BY <1>2, <2>3
        <3> QED
            BY <2>1, <2>2, <3>1, CommitIncidents
    <2>4. CASE c \notin v.new
        BY <2>2, <2>4 DEF OperationsInv, NoCopyOfActiveIncident
    <2> QED
        BY <2>3, <2>4
<1> QED
    BY <1>6, <1>7, <1>8 DEF OperationsInv

LEMMA IncidentMoves_Inv ==
    ASSUME OperationsInv, NEW i \in Incidents,
           OpenByHand(i) \/ TakeUp(i) \/ Resolve(i) \/ Close(i) \/ Reopen(i)
    PROVE  OperationsInv'
<1>1. /\ incident \in [Incidents -> IncidentRow] /\ incident[i] \in IncidentRow
      /\ sloPolicy \in SloPolicies /\ assessment \in SloPolicies \cup {Absent}
      /\ job \in [Jobs -> JobStatus]
    BY DEF OperationsInv, OperationsTypeOK
<1>2. CASE OpenByHand(i)
    <2> DEFINE row == [NoIncident EXCEPT !.status = "OPEN"]
    <2>1. row \in IncidentRow /\ row.check = Absent
        BY DEF NoIncident, IncidentRow, Active
    <2>2. ~Held(i)
        BY <1>2 DEF OpenByHand, Held, OperationsInv, OperationsTypeOK
    <2> HIDE DEF row
    <2> QED
        BY <1>1, <1>2, <2>1, <2>2, IncidentMove DEF OpenByHand, row
<1>3. ASSUME NEW from, NEW to \in Active \cup {"RESOLVED", "CLOSED"},
             Transition(i, from, to), to \in Active => IsActive(i)
      PROVE  OperationsInv'
    <2>1. /\ Moved(incident[i], to) \in IncidentRow
          /\ Moved(incident[i], to).status = to
          /\ Moved(incident[i], to).check = incident[i].check
          /\ Moved(incident[i], to).reopened = (incident[i].reopened /\ to \in Active)
        BY <1>1, MovedFields
    <2>2. incident[i].reopened \in BOOLEAN
        BY <1>1 DEF IncidentRow
    <2>3. /\ incident' = [incident EXCEPT ![i] = Moved(incident[i], to)] /\ ~Held(i)
          /\ UNCHANGED <<sloPolicy, assessment, job, eval>>
        BY <1>1, <1>3 DEF Transition
    <2>4. to \in Active => (incident[i].reopened /\ to \in Active) = incident[i].reopened
        BY <2>2
    <2> QED
        BY <1>1, <1>3, <2>1, <2>3, <2>4, IncidentMove
<1>4. CASE TakeUp(i) \/ Resolve(i) \/ Close(i)
    BY <1>3, <1>4 DEF TakeUp, Resolve, Close, Transition, Active, IsActive
<1>5. CASE Reopen(i)
    <2> DEFINE row == [incident[i] EXCEPT !.status = "OPEN",
                                          !.reopened = incident[i].check # Absent]
    <2>1. row \in IncidentRow /\ row.check = incident[i].check
          /\ row.reopened = (row.check # Absent)
        BY <1>1 DEF IncidentRow, Active
    <2>2. incident' = [incident EXCEPT ![i] = row]
        BY <1>1, <1>5 DEF Reopen
    <2> HIDE DEF row
    <2> QED
        BY <1>1, <1>5, <2>1, <2>2, IncidentMove DEF Reopen
<1> QED
    BY <1>2, <1>4, <1>5

LEMMA OperationsStep ==
    ASSUME OperationsInv, [OperationsNext]_operationsVars
    PROVE  OperationsInv'
<1>1. /\ eval \in [Evaluators -> Evaluation] /\ job \in [Jobs -> JobStatus]
      /\ sloPolicy \in SloPolicies /\ assessment \in SloPolicies \cup {Absent}
    BY DEF OperationsInv, OperationsTypeOK
<1>2. ASSUME NEW e \in Evaluators, Look(e) PROVE OperationsInv'
    <2>1. PICK maintenanceOn \in BOOLEAN :
            eval' = [eval EXCEPT ![e] =
              [at |-> "waiting", under |-> sloPolicy,
               quiet |-> maintenanceOn /\ sloPolicy.suppress]]
        BY <1>2 DEF Look
    <2>2. [at |-> "waiting", under |-> sloPolicy,
           quiet |-> maintenanceOn /\ sloPolicy.suppress] \in Evaluation
        BY <1>1 DEF Evaluation
    <2> QED
        BY <1>1, <1>2, <2>1, <2>2, EvaluationMove DEF Look
<1>3. ASSUME NEW e \in Evaluators, Measure(e) PROVE OperationsInv'
    <2>1. PICK failing \in SUBSET Metrics :
            eval' = [eval EXCEPT ![e] =
              [at |-> "measured", under |-> eval[e].under, quiet |-> eval[e].quiet,
               blocked |-> failing \cup Blocked(eval[e].under)]]
        BY <1>1, <1>3 DEF Measure
    <2>2. eval[e] \in Evaluation /\ eval[e].at = "waiting"
        BY <1>1, <1>3 DEF Measure, MayMeasure
    <2>3. failing \cup Blocked(eval[e].under) \subseteq Checks
        BY DEF Blocked, Checks
    <2>4. [at |-> "measured", under |-> eval[e].under, quiet |-> eval[e].quiet,
           blocked |-> failing \cup Blocked(eval[e].under)] \in Evaluation
        BY <2>2, <2>3, MeasuredFields DEF Evaluation
    <2> QED
        BY <1>1, <1>3, <2>1, <2>4, EvaluationMove DEF Measure, MayMeasure
<1>4. ASSUME NEW e \in Evaluators, Rollback(e) PROVE OperationsInv'
    <2>1. NotEvaluating \in Evaluation /\ NotEvaluating.at = "idle"
        BY DEF NotEvaluating, Evaluation
    <2> QED
        BY <1>1, <1>4, <2>1, EvaluationMove DEF Rollback
<1>5. ASSUME UNCHANGED <<incident, eval>>, sloPolicy' \in SloPolicies,
             assessment' \in SloPolicies \cup {Absent}, job' \in [Jobs -> JobStatus]
      PROVE  OperationsInv'
    BY <1>5
    DEF OperationsInv, OperationsTypeOK, OneEvaluation, WritesFit, NoCopyOfActiveIncident,
        ActiveOf, IsActive
<1>6. CASE JobMoves
    <2>1. PICK j \in Jobs, from \in JobStatus, to \in JobStatus : Move(j, from, to)
        BY <1>6 DEF JobMoves, Take, Withhold, Send, CancelJob, Settle, PutBack, JobStatus
    <2> QED
        BY <1>1, <1>5, <2>1 DEF Move
<1>7. CASE Expire
    BY <1>1, <1>5, <1>7 DEF Expire
<1>8. ASSUME NEW p \in SloPolicies, UpdateSloPolicy(p) PROVE OperationsInv'
    BY <1>1, <1>5, <1>8 DEF UpdateSloPolicy
<1>9. CASE UNCHANGED operationsVars
    BY <1>1, <1>5, <1>9 DEF operationsVars
<1>10. CASE IncidentMoves
    BY <1>10, IncidentMoves_Inv DEF IncidentMoves
<1>11. CASE EvaluationMoves
    BY <1>2, <1>3, <1>4, <1>11, SyncInv, CommitInv DEF EvaluationMoves
<1> QED
    BY <1>6, <1>7, <1>8, <1>9, <1>10, <1>11 DEF OperationsNext

LEMMA OperationsStart == OperationsInit => OperationsInv
<1> SUFFICES ASSUME OperationsInit PROVE OperationsInv
    OBVIOUS
<1>1. NoIncident \in IncidentRow /\ NotEvaluating \in Evaluation
    BY DEF NoIncident, IncidentRow, NotEvaluating, Evaluation
<1>2. OperationsTypeOK
    BY <1>1 DEF OperationsInit, OperationsTypeOK, JobStatus, NotEvaluating
<1>3. OneEvaluation /\ WritesFit
    BY DEF OperationsInit, OneEvaluation, WritesFit, NotEvaluating
<1>4. NoCopyOfActiveIncident
    BY DEF OperationsInit, NoCopyOfActiveIncident, ActiveOf, IsActive, NoIncident, Active
<1> QED
    BY <1>2, <1>3, <1>4 DEF OperationsInv

\* Between the moment an evaluation has listed and locked the incidents and its commit,
\* its list stays right whatever operators do.
THEOREM OperationsInvariant == OperationsSpec => []OperationsInv
BY OperationsStart, OperationsStep, PTL DEF OperationsSpec

\* A failing check gets no second active incident beside one that nobody has reopened:
\* for any evaluators, operators, checks and policies.
THEOREM OneIncidentPerCheck == OperationsSpec => []NoCopyOfActiveIncident
<1>1. OperationsInv => NoCopyOfActiveIncident
    BY DEF OperationsInv
<1> QED
    BY OperationsInvariant, <1>1, PTL

\* The incidents a committed assessment leaves are those of its blocked checks.
THEOREM IncidentsMatch == OperationsSpec => IncidentsFollowAssessment
<1>1. ASSUME OperationsInv, NEW e \in Evaluators, Commit(e)
      PROVE  LET v == eval[e] IN
             /\ v.under.create /\ ~v.quiet =>
                  \A c \in v.blocked :
                    \E i \in Incidents : incident'[i].check = c /\ incident'[i].status \in Active
             /\ \A i \in Incidents :
                  (v.under.resolve /\ incident'[i].status \in Active
                   /\ incident'[i].check \notin v.blocked \cup {Absent})
                     => incident'[i].reopened
    <2> DEFINE v == eval[e]
    <2>1. /\ v \in Evaluation /\ v.at = "synced"
        BY <1>1, CommitIncidents DEF OperationsInv, OperationsTypeOK
    <2>2. /\ v.new \subseteq v.blocked
          /\ v.under.create /\ ~v.quiet =>
               \A c \in v.blocked \ v.new : v.held \cap ActiveOf(c) # {}
          /\ \A i \in v.ending : incident[i].check \notin v.blocked
          /\ \A i \in Incidents :
               v.under.resolve /\ IsActive(i) /\ incident[i].check \notin v.blocked \cup {Absent}
                 => i \in v.ending \/ incident[i].reopened
        BY <1>1, <2>1 DEF OperationsInv, WritesFit
    <2>3. ASSUME v.under.create, ~v.quiet, NEW c \in v.blocked
          PROVE  \E i \in Incidents : incident'[i].check = c /\ incident'[i].status \in Active
        <3>1. CASE c \in v.new
            BY <1>1, <3>1, CommitIncidents DEF Active
        <3>2. CASE c \notin v.new
            <4>1. PICK i \in ActiveOf(c) : TRUE
                BY <2>2, <2>3, <3>2
            <4>2. /\ i \in Incidents /\ IsActive(i) /\ incident[i].check = c
                  /\ i \notin v.ending
                BY <2>2, <4>1 DEF ActiveOf
            <4>3. incident'[i] = incident[i]
                BY <1>1, <4>2, CommitIncidents
            <4> QED
                BY <4>2, <4>3 DEF IsActive
        <3> QED
            BY <3>1, <3>2
    <2>4. ASSUME NEW i \in Incidents, v.under.resolve, incident'[i].status \in Active,
                 incident'[i].check \notin v.blocked \cup {Absent}
          PROVE  incident'[i].reopened
        <3>1. incident'[i].check \notin v.new /\ incident'[i].status # "RESOLVED"
            BY <2>2, <2>4 DEF Active
        <3>2. i \notin v.ending /\ incident'[i] = incident[i]
            BY <1>1, <3>1, CommitIncidents
        <3> QED
            BY <2>2, <2>4, <3>2 DEF IsActive
    <2> HIDE DEF v
    <2> QED
        BY <2>3, <2>4 DEF v
<1>2. OperationsInv =>
        [\A e \in Evaluators : Commit(e) =>
           LET v == eval[e] IN
           /\ v.under.create /\ ~v.quiet =>
                \A c \in v.blocked :
                  \E i \in Incidents : incident'[i].check = c /\ incident'[i].status \in Active
           /\ \A i \in Incidents :
                (v.under.resolve /\ incident'[i].status \in Active
                 /\ incident'[i].check \notin v.blocked \cup {Absent})
                   => incident'[i].reopened]_operationsVars
    BY <1>1
<1> QED
    BY OperationsInvariant, <1>2, PTL DEF IncidentsFollowAssessment

-----------------------------------------------------------------------------
(***************************************************************************)
(* Controlled changes and the release log.                                 *)
(***************************************************************************)

LEMMA RequestFields ==
    ASSUME NEW q \in RequestType
    PROVE  /\ q.op \in {"start", "complete"} =>
                /\ q.change \in Changes /\ q.phase \in Phases
                /\ q \in [op: {"start", "complete"}, change: Changes, phase: Phases]
           /\ q.op = "append" => q.entry \in Entry
           /\ q.op \in {"idle", "start", "complete", "maintain", "resume", "append"}
BY DEF RequestType

LEMMA IdleIsIdle == Idle \in RequestType /\ Idle.op = "idle"
BY DEF Idle, RequestType

LEMMA LogFields ==
    ASSUME log \in Seq(Entry)
    PROVE  /\ DOMAIN log = 1 .. Len(log) /\ Len(log) \in Nat
           /\ \A i \in DOMAIN log : log[i] \in Entry /\ log[i].signer \in Keys
                                    /\ log[i].release \in Releases
<1>1. DOMAIN log = 1 .. Len(log) /\ Len(log) \in Nat /\ \A i \in DOMAIN log : log[i] \in Entry
    OBVIOUS
<1> QED
    BY <1>1 DEF Entry

\* Trust that is not taken away.
KeysKept == \A k \in Keys : Trusted(k) => Trusted(k)'
EvidenceKept ==
    /\ UNCHANGED <<log, policy>> /\ KeysKept
    /\ \A r \in Releases : signer[r] # None => signer'[r] = signer[r]

LEMMA SeenKept ==
    ASSUME ChangeInv, EvidenceKept, NEW c \in Changes,
           change[c].status # "NONE",
           change'[c].release = change[c].release, change'[c].assessed = change[c].assessed
    PROVE  /\ ReleaseTrusted(c) => ReleaseTrusted(c)'
           /\ ReleaseLogged(c) => ReleaseLogged(c)'
           /\ DependenciesAssured(c) => DependenciesAssured(c)'
<1>1. /\ signer \in [Releases -> Keys \cup {None}] /\ log \in Seq(Entry)
      /\ c \in Upgrades => change[c].release \in Releases /\ signer[change[c].release] # None
    BY DEF ChangeInv, ChangeTypeOK
<1>2. ReleaseTrusted(c) => ReleaseTrusted(c)'
    <2> SUFFICES ASSUME Trusted(signer[change[c].release]), c \in Upgrades
                 PROVE  Trusted(signer[change[c].release])'
        BY DEF ReleaseTrusted
    <2> QED
        BY <1>1 DEF EvidenceKept, KeysKept
<1>3. ReleaseLogged(c) => ReleaseLogged(c)'
    <2>1. ChainValid => ChainValid'
        <3>1. \A i \in DOMAIN log : log[i].signer \in Keys
            BY <1>1, LogFields
        <3> QED
            BY <3>1 DEF ChainValid, EvidenceKept, KeysKept
    <2>2. Published(change[c].release) => Published(change[c].release)'
        BY DEF EvidenceKept, Published, Events
    <2> QED
        BY <2>1, <2>2 DEF ReleaseLogged
<1>4. DependenciesAssured(c) => DependenciesAssured(c)'
    BY DEF DependenciesAssured, EvidenceKept
<1> QED
    BY <1>2, <1>3, <1>4

\* The log and its appenders, when neither the log nor an append changes.
LEMMA LogStays ==
    ASSUME ChangeInv, UNCHANGED log,
           \A u \in Users : request'[u].op = "append" => request'[u] = request[u]
    PROVE  LogIsOneHistory' /\ OneAppends' /\ HasLatest'
<1>1. \A u \in Busy({"append"})' : u \in Busy({"append"}) /\ request'[u] = request[u]
    BY DEF Busy
<1>2. \A r : Events(r)' = Events(r) /\ Published(r)' = Published(r)
    BY DEF Events, Published
<1>3. \A r, e : MayAppend(r, e)' = MayAppend(r, e)
    BY <1>2 DEF MayAppend
<1>4. LogIsOneHistory' /\ HasLatest'
    BY <1>2 DEF ChangeInv, LogIsOneHistory, HasLatest
<1>5. OneAppends'
    BY <1>1, <1>3 DEF ChangeInv, OneAppends
<1> QED
    BY <1>4, <1>5

\* A step on keys, attestations or the policy.
LEMMA EvidenceMove ==
    ASSUME ChangeInv, UNCHANGED <<change, maintenance, log, worker, request>>,
           key' \in [Keys -> KeyRow], policy' \in Policies,
           signer' \in [Releases -> Keys \cup {None}],
           \A r \in Releases : signer[r] # None => signer'[r] = signer[r],
           \A j, k \in Keys : key'[j].default /\ key'[k].default => j = k,
           \/ Disturb
           \/ moved' = moved /\ policy' = policy /\ KeysKept
    PROVE  ChangeInv'
<1>1. ChangeTypeOK'
    <2>1. moved' \subseteq Users
        BY DEF Disturb, Busy, ChangeInv, ChangeTypeOK
    <2>2. \A c \in Upgrades : change[c].status # "NONE" =>
             change[c].release \in Releases /\ signer'[change[c].release] # None
        BY DEF ChangeInv, ChangeTypeOK
    <2> QED
        BY <2>1, <2>2 DEF ChangeInv, ChangeTypeOK
<1>2. LogIsOneHistory' /\ OneAppends' /\ HasLatest'
    BY LogStays
<1>3. OneVerifies'
    BY DEF ChangeInv, OneVerifies, Busy
<1>4. Overlooked'
    BY DEF ChangeInv, Overlooked, Counted, Busy
<1>5. SeenHolds'
    <2>1. CASE Disturb
        BY <2>1 DEF SeenHolds, Disturb, Busy
    <2>2. CASE moved' = moved /\ policy' = policy /\ KeysKept
        <3>1. EvidenceKept
            BY <2>2 DEF EvidenceKept
        <3> SUFFICES ASSUME NEW u \in Busy({"start", "complete"}) \ moved
                     PROVE  LET c == request[u].change IN
                            /\ request[u].phase \in {"released", "assessed"} =>
                                  ReleaseTrusted(c)' /\ ReleaseLogged(c)'
                            /\ request[u].phase = "assessed" => DependenciesAssured(c)'
            BY <2>2 DEF SeenHolds, Busy
        <3>2. request[u].change \in Changes /\ change[request[u].change].status # "NONE"
            BY RequestFields DEF Busy, ChangeInv, ChangeTypeOK, OneVerifies
        <3> QED
            BY <3>1, <3>2, SeenKept DEF ChangeInv, SeenHolds
    <2> QED
        BY <2>1, <2>2
<1> QED
    BY <1>1, <1>2, <1>3, <1>4, <1>5 DEF ChangeInv

Working == {w \in Workers : worker[w] # "idle"}

\* A request of user u moves and with it the row of change c, which nobody else has
\* locked.
LEMMA RowMove ==
    ASSUME ChangeInv, UNCHANGED <<maintenance, key, signer, log, policy, worker>>,
           NEW u \in Users, NEW q \in RequestType, request' = [request EXCEPT ![u] = q],
           NEW c \in Changes, NEW row \in ChangeRow, change' = [change EXCEPT ![c] = row],
           moved' = moved \/ (moved' = moved \ {u} /\ q.op = "idle"),
           q.op # "append",
           \A v \in Busy({"start", "complete"}) \ {u} : request[v].change # c,
           q.op \in {"start", "complete"} => q.change = c,
           q.op = "start" => row.status = "APPROVED" /\ q.phase # "reopened",
           q.op = "complete" => row.status = "IN_PROGRESS",
           row.status \in {"APPROVED", "IN_PROGRESS", "COMPLETED", "FAILED"} =>
              row.author # row.approver /\ row.approver # None,
           c \in Upgrades /\ row.status # "NONE" =>
              row.release \in Releases /\ signer[row.release] # None,
           row.steady => maintenance,
           row.steady /\ (row.status = "IN_PROGRESS"
                            \/ (q.op = "start" /\ q.phase # "maintained"))
              => Working \subseteq row.ahead,
           q.op \in {"start", "complete"} /\ u \notin moved =>
              /\ q.phase \in {"released", "assessed"} => ReleaseTrusted(c)' /\ ReleaseLogged(c)'
              /\ q.phase = "assessed" => DependenciesAssured(c)'
    PROVE  ChangeInv'
<1>1. /\ request \in [Users -> RequestType] /\ change \in [Changes -> ChangeRow]
      /\ moved' \subseteq Users
    BY DEF ChangeInv, ChangeTypeOK
<1>2. /\ request' \in [Users -> RequestType]
      /\ request'[u] = q /\ \A v \in Users \ {u} : request'[v] = request[v]
    BY <1>1
<1>3. /\ change' \in [Changes -> ChangeRow]
      /\ change'[c] = row /\ \A d \in Changes \ {c} : change'[d] = change[d]
    BY <1>1
<1>4. ChangeTypeOK'
    <2>1. \A d \in Upgrades : d \in Changes
        BY ChangeAssumption
    <2>2. \A d \in Changes :
             change'[d].status \in {"APPROVED", "IN_PROGRESS", "COMPLETED", "FAILED"} =>
               change'[d].author # change'[d].approver /\ change'[d].approver # None
        BY <1>3 DEF ChangeInv, ChangeTypeOK
    <2>3. \A d \in Upgrades : change'[d].status # "NONE" =>
             change'[d].release \in Releases /\ signer[change'[d].release] # None
        BY <1>3, <2>1 DEF ChangeInv, ChangeTypeOK
    <2> QED
        BY <1>1, <1>2, <1>3, <2>2, <2>3 DEF ChangeInv, ChangeTypeOK
<1>5. LogIsOneHistory' /\ OneAppends' /\ HasLatest'
    BY <1>2, LogStays
<1>6. OneVerifies'
    <2>1. ASSUME NEW v \in Busy({"start", "complete"})'
          PROVE  IF request'[v].op = "start"
                   THEN change'[request'[v].change].status = "APPROVED"
                        /\ request'[v].phase # "reopened"
                   ELSE change'[request'[v].change].status = "IN_PROGRESS"
        <3>1. CASE v = u
            BY <1>2, <1>3, <2>1, <3>1 DEF Busy
        <3>2. CASE v # u
            <4>1. v \in Busy({"start", "complete"}) /\ request'[v] = request[v]
                BY <1>2, <2>1, <3>2 DEF Busy
            <4>2. request[v].change \in Changes \ {c}
                BY <1>1, <3>2, <4>1, RequestFields DEF Busy
            <4> QED
                BY <1>3, <4>1, <4>2 DEF ChangeInv, OneVerifies
        <3> QED
            BY <3>1, <3>2
    <2>2. ASSUME NEW v \in Busy({"start", "complete"})', NEW w \in Busy({"start", "complete"})',
                 request'[w].change = request'[v].change
          PROVE  v = w
        BY <1>2, <2>2 DEF Busy, ChangeInv, OneVerifies
    <2> QED
        BY <2>1, <2>2 DEF OneVerifies
<1>7. Overlooked'
    <2> SUFFICES ASSUME NEW d \in Changes, change'[d].steady
                 PROVE  maintenance /\ (Counted(d)' => Working \subseteq change'[d].ahead)
        BY DEF Overlooked, Working
    <2>1. CASE d = c
        <3>1. Counted(c)' => row.status = "IN_PROGRESS"
                             \/ (q.op = "start" /\ q.phase # "maintained")
            BY <1>2, <1>3 DEF Counted, Busy
        <3> QED
            BY <1>3, <2>1, <3>1
    <2>2. CASE d # c
        <3>1. Counted(d)' => Counted(d)
            BY <1>2, <1>3, <2>2 DEF Counted, Busy
        <3> QED
            BY <1>3, <2>2, <3>1 DEF ChangeInv, Overlooked, Working
    <2> QED
        BY <2>1, <2>2
<1>8. SeenHolds'
    <2> SUFFICES ASSUME NEW v \in Busy({"start", "complete"})', v \notin moved',
                        NEW d, d = request'[v].change
                 PROVE  /\ request'[v].phase \in {"released", "assessed"} =>
                              ReleaseTrusted(d)' /\ ReleaseLogged(d)'
                        /\ request'[v].phase = "assessed" => DependenciesAssured(d)'
        BY DEF SeenHolds
    <2>1. CASE v = u
        BY <1>2, <2>1 DEF Busy
    <2>2. CASE v # u
        <3>1. v \in Busy({"start", "complete"}) \ moved /\ request'[v] = request[v]
            BY <1>2, <2>2 DEF Busy
        <3>2. request[v].change \in Changes \ {c} /\ change[request[v].change].status # "NONE"
            BY <1>1, <2>2, <3>1, RequestFields DEF Busy, ChangeInv, OneVerifies
        <3>3. EvidenceKept
            BY DEF EvidenceKept, KeysKept, Trusted
        <3> QED
            BY <1>3, <3>1, <3>2, <3>3, SeenKept DEF ChangeInv, SeenHolds
    <2> QED
        BY <2>1, <2>2
<1> QED
    BY <1>4, <1>5, <1>6, <1>7, <1>8 DEF ChangeInv

\* A request that verifies nothing afterwards, and leaves every row alone.
LEMMA QuietRequest ==
    ASSUME ChangeInv, UNCHANGED <<change, maintenance, key, signer, log, policy, worker>>,
           NEW u \in Users, NEW q \in RequestType, request' = [request EXCEPT ![u] = q],
           moved' = moved \/ (moved' = moved \ {u} /\ q.op = "idle"),
           q.op \in {"idle", "maintain", "resume"}
    PROVE  ChangeInv'
<1>1. /\ request \in [Users -> RequestType] /\ moved' \subseteq Users
    BY DEF ChangeInv, ChangeTypeOK
<1>2. /\ request' \in [Users -> RequestType]
      /\ request'[u] = q /\ \A v \in Users \ {u} : request'[v] = request[v]
    BY <1>1
<1>3. ChangeTypeOK'
    BY <1>1, <1>2 DEF ChangeInv, ChangeTypeOK
<1>4. LogIsOneHistory' /\ OneAppends' /\ HasLatest'
    BY <1>2, LogStays
<1>5. \A v \in Busy({"start", "complete"})' :
         v \in Busy({"start", "complete"}) /\ request'[v] = request[v] /\ v # u
    BY <1>2 DEF Busy
<1>6. OneVerifies'
    BY <1>5 DEF ChangeInv, OneVerifies
<1>7. Overlooked'
    <2>1. \A d \in Changes : Counted(d)' => Counted(d)
        BY <1>2 DEF Counted, Busy
    <2> QED
        BY <2>1 DEF ChangeInv, Overlooked
<1>8. SeenHolds'
    <2> SUFFICES ASSUME NEW v \in Busy({"start", "complete"})', v \notin moved',
                        NEW d, d = request'[v].change
                 PROVE  /\ request'[v].phase \in {"released", "assessed"} =>
                              ReleaseTrusted(d)' /\ ReleaseLogged(d)'
                        /\ request'[v].phase = "assessed" => DependenciesAssured(d)'
        BY DEF SeenHolds
    <2>1. v \in Busy({"start", "complete"}) \ moved /\ request'[v] = request[v]
        BY <1>5
    <2>2. request[v].change \in Changes /\ change[request[v].change].status # "NONE"
        BY <1>1, <2>1, RequestFields DEF Busy, ChangeInv, OneVerifies
    <2>3. EvidenceKept
        BY DEF EvidenceKept, KeysKept, Trusted
    <2> QED
        BY <2>1, <2>2, <2>3, SeenKept DEF ChangeInv, SeenHolds
<1> QED
    BY <1>3, <1>4, <1>6, <1>7, <1>8 DEF ChangeInv

LEMMA TrustInv ==
    ASSUME ChangeInv, TrustMoves
    PROVE  ChangeInv'
<1>1. /\ key \in [Keys -> KeyRow] /\ signer \in [Releases -> Keys \cup {None}]
      /\ policy \in Policies
      /\ \A j, k \in Keys : key[j].default /\ key[k].default => j = k
    BY DEF ChangeInv, ChangeTypeOK
<1>2. \A k \in Keys : key[k] \in KeyRow
    BY <1>1
<1>3. ASSUME NEW k \in Keys, NEW default \in BOOLEAN, NEW trusted \in BOOLEAN,
             GenerateKey(k, default, trusted)
      PROVE  ChangeInv'
    <2>1. \A j \in Keys : key'[j] =
             IF j = k THEN [status |-> "ACTIVE", trusted |-> trusted, default |-> default]
                      ELSE [key[j] EXCEPT !.default = @ /\ ~default]
        BY <1>3 DEF GenerateKey
    <2>2. ASSUME NEW j \in Keys \ {k}
          PROVE  /\ key'[j] \in KeyRow
                 /\ key'[j].status = key[j].status /\ key'[j].trusted = key[j].trusted
                 /\ key'[j].default => key[j].default /\ ~default
        <3> DEFINE d == key[j].default /\ ~default
        <3>1. d \in BOOLEAN /\ (d => key[j].default /\ ~default)
            OBVIOUS
        <3> HIDE DEF d
        <3>2. key'[j] = [key[j] EXCEPT !.default = d]
            BY <2>1, <2>2 DEF d
        <3>3. key'[j] \in KeyRow /\ key'[j].status = key[j].status
              /\ key'[j].trusted = key[j].trusted /\ key'[j].default = d
            BY <1>2, <3>1, <3>2 DEF KeyRow
        <3> QED
            BY <3>1, <3>3
    <2>3. key'[k] \in KeyRow /\ key'[k].default = default
        <3>1. key'[k] = [status |-> "ACTIVE", trusted |-> trusted, default |-> default]
            BY <2>1
        <3>2. [status |-> "ACTIVE", trusted |-> trusted, default |-> default] \in KeyRow
            BY DEF KeyRow
        <3> QED
            BY <3>1, <3>2
    <2>4. key' \in [Keys -> KeyRow]
        BY <1>3, <2>2, <2>3 DEF GenerateKey
    <2>5. KeysKept
        <3>1. ~Trusted(k)
            BY <1>3 DEF GenerateKey, NoKey, Trusted
        <3> QED
            BY <2>2, <3>1 DEF KeysKept, Trusted
    <2>6. \A i, j \in Keys : key'[i].default /\ key'[j].default => i = j
        BY <1>1, <2>2, <2>3
    <2> QED
        BY <1>1, <1>3, <2>4, <2>5, <2>6, EvidenceMove DEF GenerateKey
<1>4. ASSUME NEW k \in Keys, SetDefaultKey(k) PROVE ChangeInv'
    <2>1. \A j \in Keys :
             /\ key'[j] \in KeyRow /\ key'[j].default = (j = k)
             /\ key'[j].status = key[j].status /\ key'[j].trusted = key[j].trusted
        BY <1>2, <1>4 DEF SetDefaultKey, KeyRow
    <2>2. key' \in [Keys -> KeyRow]
        BY <1>4, <2>1 DEF SetDefaultKey
    <2>3. KeysKept
        BY <2>1 DEF KeysKept, Trusted
    <2> QED
        BY <1>1, <1>4, <2>1, <2>2, <2>3, EvidenceMove DEF SetDefaultKey
<1>5. ASSUME NEW k \in Keys, NEW row \in KeyRow, row.default => key[k].default,
             key' = [key EXCEPT ![k] = row], Disturb,
             UNCHANGED <<change, maintenance, signer, log, policy, worker, request>>
      PROVE  ChangeInv'
    <2>1. key' \in [Keys -> KeyRow] /\ \A j, i \in Keys : key'[j].default /\ key'[i].default => j = i
        BY <1>1, <1>5
    <2> QED
        BY <1>1, <1>5, <2>1, EvidenceMove
<1>6. ASSUME NEW k \in Keys, NEW trusted \in BOOLEAN, TrustKey(k, trusted) PROVE ChangeInv'
    <2> DEFINE row == [key[k] EXCEPT !.trusted = trusted]
    <2>1. row \in KeyRow /\ row.default = key[k].default
        BY <1>2 DEF KeyRow
    <2>2. key' = [key EXCEPT ![k] = row]
        BY <1>1, <1>6 DEF TrustKey
    <2> HIDE DEF row
    <2> QED
        BY <1>5, <1>6, <2>1, <2>2 DEF TrustKey
<1>7. ASSUME NEW k \in Keys, RevokeKey(k) PROVE ChangeInv'
    <2>1. [status |-> "REVOKED", trusted |-> FALSE, default |-> FALSE] \in KeyRow
        BY DEF KeyRow
    <2> QED
        BY <1>5, <1>7, <2>1 DEF RevokeKey
<1>8. ASSUME NEW r \in Releases, NEW k \in Keys, Attest(r, k) PROVE ChangeInv'
    <2>1. KeysKept
        BY <1>8 DEF Attest, KeysKept, Trusted
    <2>2. /\ signer' \in [Releases -> Keys \cup {None}]
          /\ \A q \in Releases : signer[q] # None => signer'[q] = signer[q]
        BY <1>1, <1>8 DEF Attest
    <2> QED
        BY <1>1, <1>8, <2>1, <2>2, EvidenceMove DEF Attest
<1>9. ASSUME NEW p \in Policies, UpdatePolicy(p) PROVE ChangeInv'
    BY <1>1, <1>9, EvidenceMove DEF UpdatePolicy
<1> QED
    BY <1>3, <1>4, <1>6, <1>7, <1>8, <1>9 DEF TrustMoves

LEMMA EndedFields ==
    ASSUME change \in [Changes -> ChangeRow], NEW c \in Changes,
           NEW status \in {"NONE", "DRAFT", "APPROVED", "IN_PROGRESS"} \cup Over
    PROVE  \E row \in ChangeRow :
             /\ Ended(c, status) = [change EXCEPT ![c] = row]
             /\ row.status = status /\ ~row.steady /\ row.author = change[c].author
             /\ row.approver = change[c].approver /\ row.release = change[c].release
             /\ row.assessed = change[c].assessed
<1> DEFINE row == [change[c] EXCEPT !.status = status, !.steady = FALSE, !.ahead = {}]
<1>1. row \in ChangeRow
    BY DEF ChangeRow
<1>2. Ended(c, status) = [change EXCEPT ![c] = row]
    BY DEF Ended
<1>3. /\ row.status = status /\ ~row.steady /\ row.author = change[c].author
      /\ row.approver = change[c].approver /\ row.release = change[c].release
      /\ row.assessed = change[c].assessed
    BY DEF ChangeRow
<1> QED
    BY <1>1, <1>2, <1>3

\* The row of a change nobody has locked, or that the request of u has.
LEMMA LockFields ==
    ASSUME ChangeInv, NEW c \in Changes
    PROVE  /\ change[c] \in ChangeRow
           /\ ~Locked(c) => \A v \in Busy({"start", "complete"}) : request[v].change # c
           /\ change[c].status \in {"NONE", "DRAFT"} => ~Locked(c)
           /\ \A u \in Busy({"start", "complete"}) : request[u].change = c =>
                /\ request[u].op = "start" => change[c].status = "APPROVED"
                /\ request[u].op = "complete" => change[c].status = "IN_PROGRESS"
                /\ \A v \in Busy({"start", "complete"}) \ {u} : request[v].change # c
BY DEF ChangeInv, ChangeTypeOK, Locked, Busy, OneVerifies

LEMMA RowFacts ==
    ASSUME ChangeInv, NEW c \in Changes
    PROVE  /\ change \in [Changes -> ChangeRow] /\ change[c] \in ChangeRow
           /\ change[c].status \in {"APPROVED", "IN_PROGRESS", "COMPLETED", "FAILED"} =>
                change[c].author # change[c].approver /\ change[c].approver # None
           /\ c \in Upgrades /\ change[c].status # "NONE" =>
                change[c].release \in Releases /\ signer[change[c].release] # None
           /\ change[c].steady => maintenance
           /\ change[c].steady /\ Counted(c) => Working \subseteq change[c].ahead
           /\ request \in [Users -> RequestType] /\ maintenance \in BOOLEAN
BY DEF ChangeInv, ChangeTypeOK, Overlooked, Working

LEMMA CreateInv ==
    ASSUME ChangeInv, NEW u \in Users, NEW c \in Changes, NEW r \in Releases \cup {None},
           CreateChange(u, c, r)
    PROVE  ChangeInv'
<1> DEFINE row == [change[c] EXCEPT !.status = "DRAFT", !.author = u, !.release = r,
                                    !.assessed = policy]
<1>1. /\ row \in ChangeRow /\ row.status = "DRAFT" /\ row.release = r
      /\ row.steady = change[c].steady
    BY RowFacts DEF ChangeRow, ChangeInv, ChangeTypeOK
<1>2. change' = [change EXCEPT ![c] = row]
    BY RowFacts DEF CreateChange
<1>3. request' = [request EXCEPT ![u] = Idle] /\ request[u] = Idle
    BY RowFacts DEF CreateChange
<1>4. \A v \in Busy({"start", "complete"}) \ {u} : request[v].change # c
    BY LockFields DEF CreateChange
<1>5. c \in Upgrades => r \in Releases /\ signer[r] # None
    BY DEF CreateChange
<1>6. UNCHANGED <<maintenance, key, signer, log, policy, worker, moved>>
    BY DEF CreateChange
<1>7. row.steady => maintenance
    BY <1>1, RowFacts
<1> HIDE DEF row
<1>8. \A q : q = Idle => q.op = "idle" /\ q \in RequestType
    BY IdleIsIdle
<1> DEFINE q == Idle
<1>9. q.op = "idle" /\ q \in RequestType /\ request' = [request EXCEPT ![u] = q]
    BY <1>3, <1>8
<1> HIDE DEF q
<1> QED
    BY <1>1, <1>2, <1>4, <1>5, <1>6, <1>7, <1>9, RowMove

LEMMA StatusInv ==
    ASSUME ChangeInv, NEW u \in Users, NEW c \in Changes,
           ApproveChange(u, c) \/ CancelChange(u, c) \/ FailChange(u, c)
    PROVE  ChangeInv'
<1>1. /\ request[u] = Idle /\ request' = [request EXCEPT ![u] = Idle]
      /\ UNCHANGED <<maintenance, key, signer, log, policy, worker, moved>>
      /\ \A v \in Busy({"start", "complete"}) \ {u} : request[v].change # c
    BY RowFacts, LockFields
    DEF ApproveChange, CancelChange, FailChange, MayApprove, MayCancel
<1>2. CASE ApproveChange(u, c)
    <2> DEFINE row == [change[c] EXCEPT !.status = "APPROVED", !.approver = u]
    <2>1. /\ row \in ChangeRow /\ row.status = "APPROVED" /\ row.release = change[c].release
          /\ row.steady = change[c].steady /\ row.approver = u /\ row.author = change[c].author
        BY RowFacts DEF ChangeRow
    <2>2. change' = [change EXCEPT ![c] = row]
        BY <1>2, RowFacts DEF ApproveChange
    <2>3. change[c].author # u /\ u # None /\ change[c].status = "DRAFT"
        BY <1>2, ChangeAssumption DEF ApproveChange, MayApprove
    <2> HIDE DEF row
    <2> QED
        BY <1>1, <2>1, <2>2, <2>3, RowFacts, IdleIsIdle, RowMove
<1>3. ASSUME NEW status \in {"CANCELLED", "FAILED"}, change' = Ended(c, status),
             change[c].status # "NONE",
             status = "FAILED" => change[c].status = "IN_PROGRESS"
      PROVE  ChangeInv'
    <2>1. PICK row \in ChangeRow :
             /\ Ended(c, status) = [change EXCEPT ![c] = row]
             /\ row.status = status /\ ~row.steady /\ row.author = change[c].author
             /\ row.approver = change[c].approver /\ row.release = change[c].release
             /\ row.assessed = change[c].assessed
        <3>1. status \in {"NONE", "DRAFT", "APPROVED", "IN_PROGRESS"} \cup Over
            BY <1>3 DEF Over
        <3> QED
            BY <3>1, RowFacts, EndedFields
    <2>2. change' = [change EXCEPT ![c] = row]
        BY <1>3, <2>1
    <2>3. row.status \in {"APPROVED", "IN_PROGRESS", "COMPLETED", "FAILED"} =>
             row.author # row.approver /\ row.approver # None
        BY <1>3, <2>1, RowFacts
    <2>4. c \in Upgrades /\ row.status # "NONE" =>
             row.release \in Releases /\ signer[row.release] # None
        BY <1>3, <2>1, RowFacts
    <2> DEFINE q == Idle
    <2>5. q.op = "idle" /\ q \in RequestType /\ request' = [request EXCEPT ![u] = q]
        BY <1>1, IdleIsIdle
    <2> HIDE DEF q
    <2> QED
        BY <1>1, <2>1, <2>2, <2>3, <2>4, <2>5, RowMove
<1> QED
    BY <1>2, <1>3 DEF CancelChange, FailChange, MayCancel

LEMMA StartInv ==
    ASSUME ChangeInv, NEW u \in Users, NEW c \in Changes, StartChange(u, c) \/ CompleteChange(u, c)
    PROVE  ChangeInv'
<1>1. /\ UNCHANGED <<maintenance, key, signer, log, policy, worker, moved>>
      /\ \A v \in Busy({"start", "complete"}) \ {u} : request[v].change # c
    BY LockFields DEF StartChange, CompleteChange
<1>2. CASE StartChange(u, c)
    <2> DEFINE q == [op |-> "start", change |-> c, phase |-> "maintained"]
               row == [change[c] EXCEPT !.steady = maintenance]
    <2>1. q \in RequestType /\ q.op = "start" /\ q.change = c /\ q.phase = "maintained"
        BY DEF RequestType, Phases
    <2>2. /\ row \in ChangeRow /\ row.status = change[c].status /\ row.steady = maintenance
          /\ row.author = change[c].author /\ row.approver = change[c].approver
          /\ row.release = change[c].release
        BY RowFacts DEF ChangeRow
    <2>3. /\ request' = [request EXCEPT ![u] = q] /\ change' = [change EXCEPT ![c] = row]
          /\ change[c].status = "APPROVED"
        BY <1>2, RowFacts DEF StartChange
    <2> HIDE DEF q, row
    <2>4. row.author # row.approver /\ row.approver # None
        BY <2>2, <2>3, RowFacts
    <2>5. c \in Upgrades => row.release \in Releases /\ signer[row.release] # None
        BY <2>2, <2>3, RowFacts
    <2>6. row.steady => maintenance
        BY <2>2
    <2> QED
        BY ZenonT(60), <1>1, <2>1, <2>2, <2>3, <2>4, <2>5, <2>6, RowMove
<1>3. CASE CompleteChange(u, c)
    <2> DEFINE q == [op |-> "complete", change |-> c, phase |-> "reopened"]
    <2>1. q \in RequestType /\ q.op = "complete" /\ q.change = c /\ q.phase = "reopened"
        BY DEF RequestType, Phases
    <2>2. /\ request' = [request EXCEPT ![u] = q] /\ change' = [change EXCEPT ![c] = change[c]]
          /\ change[c].status = "IN_PROGRESS"
        BY <1>3, RowFacts DEF CompleteChange
    <2>3. change[c].steady => Working \subseteq change[c].ahead
        BY <2>2, RowFacts DEF Counted
    <2> HIDE DEF q
    <2> QED
        BY <1>1, <2>1, <2>2, <2>3, RowFacts, RowMove
<1> QED
    BY <1>2, <1>3

\* The request of u that verifies, and the row it has locked.
LEMMA VerifyingFields ==
    ASSUME ChangeInv, NEW u \in Users, request[u].op \in {"start", "complete"}
    PROVE  LET q == request[u]
               c == q.change IN
           /\ c \in Changes /\ q \in RequestType /\ q.phase \in Phases
           /\ q.op = "start" => change[c].status = "APPROVED" /\ q.phase # "reopened"
           /\ q.op = "complete" => change[c].status = "IN_PROGRESS"
           /\ \A v \in Busy({"start", "complete"}) \ {u} : request[v].change # c
           /\ change[c].steady /\ (q.op = "complete" \/ q.phase # "maintained")
                => Working \subseteq change[c].ahead
           /\ u \notin moved =>
                /\ q.phase \in {"released", "assessed"} => ReleaseTrusted(c) /\ ReleaseLogged(c)
                /\ q.phase = "assessed" => DependenciesAssured(c)
<1> DEFINE q == request[u]
           c == q.change
<1>1. q \in RequestType /\ c \in Changes /\ q.phase \in Phases /\ u \in Busy({"start", "complete"})
    BY RowFacts, RequestFields DEF ChangeInv, ChangeTypeOK, Busy
<1>2. /\ q.op = "start" => change[c].status = "APPROVED" /\ q.phase # "reopened"
      /\ q.op = "complete" => change[c].status = "IN_PROGRESS"
      /\ \A v \in Busy({"start", "complete"}) \ {u} : request[v].change # c
    BY <1>1 DEF ChangeInv, OneVerifies, Busy
<1>3. q.op = "complete" \/ q.phase # "maintained" => Counted(c)
    BY <1>1, <1>2 DEF Counted, Busy
<1>4. u \notin moved =>
                /\ q.phase \in {"released", "assessed"} => ReleaseTrusted(c) /\ ReleaseLogged(c)
                /\ q.phase = "assessed" => DependenciesAssured(c)
    BY <1>1 DEF ChangeInv, SeenHolds
<1>5. change[c].steady /\ (q.op = "complete" \/ q.phase # "maintained")
        => Working \subseteq change[c].ahead
    BY <1>1, <1>3, RowFacts
<1> HIDE DEF q, c
<1> QED
    BY <1>1, <1>2, <1>4, <1>5 DEF q, c

\* The request of u goes on to its next phase; its change keeps its row, or has the
\* sends counted.
LEMMA PhaseInv ==
    ASSUME ChangeInv, NEW u \in Users, request[u].op \in {"start", "complete"},
           NEW phase \in Phases, Enter(u, phase),
           phase # "maintained", phase # "reopened",
           UNCHANGED <<maintenance, key, signer, log, policy, worker, moved>>,
           NEW c, c = request[u].change,
           \/ change' = change /\ (request[u].op = "start" => request[u].phase # "maintained")
           \/ change' = [change EXCEPT ![c].ahead = Working],
           u \notin moved =>
             /\ phase \in {"released", "assessed"} => ReleaseTrusted(c)' /\ ReleaseLogged(c)'
             /\ phase = "assessed" => DependenciesAssured(c)'
    PROVE  ChangeInv'
<1> DEFINE q == [request[u] EXCEPT !.phase = phase]
<1>1. /\ request[u] \in [op: {"start", "complete"}, change: Changes, phase: Phases]
      /\ request \in [Users -> RequestType] /\ c \in Changes
    BY RequestFields DEF ChangeInv, ChangeTypeOK
<1>2. q \in RequestType /\ q.op = request[u].op /\ q.change = c /\ q.phase = phase
    BY <1>1 DEF RequestType
<1>3. request' = [request EXCEPT ![u] = q]
    BY <1>1 DEF Enter
<1>4. /\ q.op = "start" => change[c].status = "APPROVED"
      /\ q.op = "complete" => change[c].status = "IN_PROGRESS"
      /\ \A v \in Busy({"start", "complete"}) \ {u} : request[v].change # c
      /\ q.op = "complete" \/ request[u].phase # "maintained" =>
           (change[c].steady => Working \subseteq change[c].ahead)
    BY <1>2, VerifyingFields
<1>5. q.op \in {"start", "complete"} /\ u \notin moved =>
         /\ q.phase \in {"released", "assessed"} => ReleaseTrusted(c)' /\ ReleaseLogged(c)'
         /\ q.phase = "assessed" => DependenciesAssured(c)'
    BY <1>2
<1>6. PICK row \in ChangeRow :
         /\ change' = [change EXCEPT ![c] = row]
         /\ row.status = change[c].status /\ row.author = change[c].author
         /\ row.approver = change[c].approver /\ row.release = change[c].release
         /\ row.steady = change[c].steady
         /\ row.steady => Working \subseteq row.ahead
    <2>1. CASE change' = change /\ (request[u].op = "start" => request[u].phase # "maintained")
        <3>1. change' = [change EXCEPT ![c] = change[c]] /\ change[c] \in ChangeRow
            BY <1>1, <2>1, RowFacts
        <3>2. change[c].steady => Working \subseteq change[c].ahead
            BY <1>2, <1>4, <2>1
        <3> QED
            BY <3>1, <3>2
    <2>2. CASE change' = [change EXCEPT ![c].ahead = Working]
        <3> DEFINE row == [change[c] EXCEPT !.ahead = Working]
        <3>1. Working \in SUBSET Workers
            BY DEF Working
        <3>2. /\ row \in ChangeRow /\ row.ahead = Working
              /\ row.status = change[c].status /\ row.author = change[c].author
              /\ row.approver = change[c].approver /\ row.release = change[c].release
              /\ row.steady = change[c].steady
            BY <1>1, <3>1, RowFacts DEF ChangeRow
        <3>3. change' = [change EXCEPT ![c] = row]
            BY <1>1, <2>2, RowFacts
        <3> HIDE DEF row
        <3> QED
            BY <3>2, <3>3
    <2> QED
        BY <2>1, <2>2
<1>7. /\ row.status \in {"APPROVED", "IN_PROGRESS", "COMPLETED", "FAILED"} =>
           row.author # row.approver /\ row.approver # None
      /\ c \in Upgrades /\ row.status # "NONE" =>
           row.release \in Releases /\ signer[row.release] # None
      /\ row.steady => maintenance
    BY <1>1, <1>6, RowFacts
<1>8. /\ q.op = "start" => row.status = "APPROVED" /\ q.phase # "reopened"
      /\ q.op = "complete" => row.status = "IN_PROGRESS"
      /\ q.op # "append"
    BY <1>2, <1>4, <1>6
<1> HIDE DEF q
<1> QED
    BY ZenonT(60), <1>1, <1>2, <1>3, <1>4, <1>5, <1>6, <1>7, <1>8, RowMove

LEMMA VerifyInv ==
    ASSUME ChangeInv, NEW u \in Users, CountSends(u) \/ VerifyRelease(u) \/ VerifyDependencies(u)
    PROVE  ChangeInv'
<1>1. request[u].op \in {"start", "complete"}
    BY DEF CountSends, VerifyRelease, VerifyDependencies, InPhase
<1> SUFFICES ASSUME NEW c, c = request[u].change
             PROVE  ChangeInv'
    OBVIOUS
<1>2. u \notin moved /\ request[u].phase \in {"released", "assessed"} =>
        ReleaseTrusted(c) /\ ReleaseLogged(c)
    BY <1>1, VerifyingFields
<1>3. UNCHANGED <<maintenance, key, signer, log, policy, worker, moved>>
    BY DEF CountSends, VerifyRelease, VerifyDependencies
<1>4. CASE CountSends(u)
    <2>1. {w \in Workers : worker[w] = "checked"} = Working
        BY <1>4 DEF CountSends, NothingSent, Working, ChangeInv, ChangeTypeOK
    <2>2. change' = [change EXCEPT ![c].ahead = Working] /\ Enter(u, "counted")
        BY <1>4, <2>1 DEF CountSends
    <2> QED
        BY <1>1, <1>3, <2>2, PhaseInv DEF Phases
<1>5. UNCHANGED change =>
         /\ ReleaseTrusted(c) => ReleaseTrusted(c)'
         /\ ReleaseLogged(c) => ReleaseLogged(c)'
         /\ DependenciesAssured(c) => DependenciesAssured(c)'
    BY <1>3 DEF ReleaseTrusted, ReleaseLogged, DependenciesAssured, Trusted, ChainValid,
                Published, Events
<1>6. CASE VerifyRelease(u)
    <2>1. /\ change' = change /\ Enter(u, "released") /\ request[u].phase # "maintained"
          /\ ReleaseTrusted(c) /\ ReleaseLogged(c)
        BY <1>6 DEF VerifyRelease, InPhase
    <2> QED
        BY <1>1, <1>3, <1>5, <2>1, PhaseInv DEF Phases
<1>7. CASE VerifyDependencies(u)
    <2>1. /\ change' = change /\ Enter(u, "assessed") /\ request[u].phase = "released"
          /\ DependenciesAssured(c)
        BY <1>7 DEF VerifyDependencies, InPhase
    <2> QED
        BY <1>1, <1>2, <1>3, <1>5, <2>1, PhaseInv DEF Phases
<1> QED
    BY <1>4, <1>6, <1>7

LEMMA ProceedInv ==
    ASSUME ChangeInv, NEW u \in Users, Proceed(u)
    PROVE  ChangeInv'
<1>1. /\ request[u].op \in {"start", "complete"} /\ request[u].phase = "assessed"
      /\ UNCHANGED <<maintenance, key, signer, log, policy, worker>>
      /\ moved' = moved \ {u} /\ request' = [request EXCEPT ![u] = Idle]
    BY DEF Proceed, Verified, InPhase
<1> SUFFICES ASSUME NEW c, c = request[u].change
             PROVE  ChangeInv'
    OBVIOUS
<1>2. /\ c \in Changes
      /\ request[u].op = "start" => change[c].status = "APPROVED"
      /\ request[u].op = "complete" => change[c].status = "IN_PROGRESS"
      /\ \A v \in Busy({"start", "complete"}) \ {u} : request[v].change # c
      /\ change[c].steady => Working \subseteq change[c].ahead
    BY <1>1, VerifyingFields
<1>3. PICK row \in ChangeRow :
         /\ change' = [change EXCEPT ![c] = row]
         /\ row.author = change[c].author /\ row.approver = change[c].approver
         /\ row.release = change[c].release
         /\ row.steady => change[c].steady /\ Working \subseteq row.ahead
    <2>1. CASE request[u].op = "start"
        <3> DEFINE row == [change[c] EXCEPT !.status = "IN_PROGRESS"]
        <3>1. /\ row \in ChangeRow /\ row.ahead = change[c].ahead
              /\ row.author = change[c].author /\ row.approver = change[c].approver
              /\ row.release = change[c].release /\ row.steady = change[c].steady
            BY <1>2, RowFacts DEF ChangeRow
        <3>2. change' = [change EXCEPT ![c] = row]
            BY <1>2, <2>1, RowFacts DEF Proceed
        <3> HIDE DEF row
        <3> QED
            BY <1>2, <3>1, <3>2
    <2>2. CASE request[u].op = "complete"
        <3>1. change' = Ended(c, "COMPLETED")
            BY <2>2 DEF Proceed
        <3>2. "COMPLETED" \in {"NONE", "DRAFT", "APPROVED", "IN_PROGRESS"} \cup Over
            BY DEF Over
        <3>3. PICK row \in ChangeRow :
                 /\ Ended(c, "COMPLETED") = [change EXCEPT ![c] = row]
                 /\ row.status = "COMPLETED" /\ ~row.steady /\ row.author = change[c].author
                 /\ row.approver = change[c].approver /\ row.release = change[c].release
                 /\ row.assessed = change[c].assessed
            BY <1>2, <3>2, RowFacts, EndedFields
        <3> QED
            BY <3>1, <3>3
    <2> QED
        BY <1>1, <2>1, <2>2
<1>4. /\ change[c].status \in {"APPROVED", "IN_PROGRESS"}
      /\ row.author # row.approver /\ row.approver # None
      /\ c \in Upgrades => row.release \in Releases /\ signer[row.release] # None
      /\ row.steady => maintenance
    BY <1>1, <1>2, <1>3, RowFacts
<1> DEFINE q == Idle
<1>5. q.op = "idle" /\ q \in RequestType /\ request' = [request EXCEPT ![u] = q]
    BY <1>1, IdleIsIdle
<1> HIDE DEF q
<1> QED
    BY ZenonT(60), <1>1, <1>2, <1>3, <1>4, <1>5, RowMove

LEMMA RefuseInv ==
    ASSUME ChangeInv, NEW u \in Users, Refuse(u)
    PROVE  ChangeInv'
<1> DEFINE q == Idle
<1>1. /\ UNCHANGED <<maintenance, key, signer, log, policy, worker>> /\ moved' = moved \ {u}
      /\ q.op = "idle" /\ q \in RequestType /\ request' = [request EXCEPT ![u] = q]
    BY IdleIsIdle DEF Refuse
<1> HIDE DEF q
<1>2. CASE request[u].op # "start"
    BY <1>1, <1>2, QuietRequest DEF Refuse
<1>3. CASE request[u].op = "start"
    <2> SUFFICES ASSUME NEW c, c = request[u].change
                 PROVE  ChangeInv'
        OBVIOUS
    <2>1. /\ c \in Changes /\ change[c].status = "APPROVED"
          /\ \A v \in Busy({"start", "complete"}) \ {u} : request[v].change # c
        BY <1>3, VerifyingFields
    <2>2. change' = Ended(c, "APPROVED")
        BY <1>3, <2>1 DEF Refuse
    <2>3. PICK row \in ChangeRow :
             /\ Ended(c, "APPROVED") = [change EXCEPT ![c] = row]
             /\ row.status = "APPROVED" /\ ~row.steady /\ row.author = change[c].author
             /\ row.approver = change[c].approver /\ row.release = change[c].release
             /\ row.assessed = change[c].assessed
        <3>1. "APPROVED" \in {"NONE", "DRAFT", "APPROVED", "IN_PROGRESS"} \cup Over
            OBVIOUS
        <3> QED
            BY ZenonT(60), <2>1, <3>1, RowFacts, EndedFields
    <2>4. /\ change' = [change EXCEPT ![c] = row]
          /\ row.author # row.approver /\ row.approver # None
          /\ c \in Upgrades => row.release \in Releases /\ signer[row.release] # None
        BY <2>1, <2>2, <2>3, RowFacts
    <2> QED
        BY <1>1, <2>1, <2>3, <2>4, RowMove
<1> QED
    BY <1>2, <1>3

\* Maintenance mode is written; it leaves every row's place in it true.
LEMMA MaintenanceInv ==
    ASSUME ChangeInv, NEW u \in Users,
           StartMaintenance(u) \/ StopMaintenance(u) \/ MaintenanceCommit(u)
    PROVE  ChangeInv'
<1>1. maintenance \in BOOLEAN
    BY DEF ChangeInv, ChangeTypeOK
<1>2. CASE StartMaintenance(u)
    <2> DEFINE q == [op |-> "maintain", seen |-> maintenance]
    <2>1. q \in RequestType /\ q.op = "maintain"
        BY <1>1 DEF RequestType
    <2>2. request' = [request EXCEPT ![u] = q]
        BY <1>2 DEF StartMaintenance
    <2> HIDE DEF q
    <2> QED
        BY <1>2, <2>1, <2>2, QuietRequest DEF StartMaintenance
<1>3. CASE StopMaintenance(u)
    <2> DEFINE q == [op |-> "resume", seen |-> maintenance]
    <2>1. q \in RequestType /\ q.op = "resume"
        BY <1>1 DEF RequestType
    <2>2. request' = [request EXCEPT ![u] = q]
        BY <1>3 DEF StopMaintenance
    <2> HIDE DEF q
    <2> QED
        BY <1>3, <2>1, <2>2, QuietRequest DEF StopMaintenance
<1>4. CASE MaintenanceCommit(u)
    <2>1. /\ maintenance' \in BOOLEAN
          /\ UNCHANGED <<key, signer, log, policy, worker, moved>>
          /\ request' = [request EXCEPT ![u] = Idle]
          /\ change' = [c \in Changes |-> [change[c] EXCEPT !.steady = @ /\ maintenance']]
        BY <1>1, <1>4 DEF MaintenanceCommit
    <2>2. ASSUME NEW c \in Changes
          PROVE  /\ change'[c] \in ChangeRow /\ change'[c].status = change[c].status
                 /\ change'[c].author = change[c].author
                 /\ change'[c].approver = change[c].approver
                 /\ change'[c].release = change[c].release
                 /\ change'[c].assessed = change[c].assessed
                 /\ change'[c].ahead = change[c].ahead
                 /\ change'[c].steady => change[c].steady /\ maintenance'
        <3> DEFINE d == change[c].steady /\ maintenance'
        <3>1. d \in BOOLEAN /\ (d => change[c].steady /\ maintenance')
            OBVIOUS
        <3>2. change'[c] = [change[c] EXCEPT !.steady = d]
            BY <2>1
        <3> HIDE DEF d
        <3> QED
            BY <3>1, <3>2, RowFacts DEF ChangeRow
    <2>3. /\ request'[u] = Idle /\ request' \in [Users -> RequestType]
          /\ \A v \in Users \ {u} : request'[v] = request[v]
        BY <2>1, IdleIsIdle DEF ChangeInv, ChangeTypeOK
    <2>4. \A v \in Busy({"start", "complete"})' :
             /\ v \in Busy({"start", "complete"}) /\ request'[v] = request[v]
             /\ request[v].change \in Changes
        BY <2>3, IdleIsIdle, RequestFields DEF Busy, ChangeInv, ChangeTypeOK
    <2>5. ChangeTypeOK'
        <3>1. change' \in [Changes -> ChangeRow]
            BY <2>1, <2>2
        <3>2. \A c \in Changes :
                 change'[c].status \in {"APPROVED", "IN_PROGRESS", "COMPLETED", "FAILED"} =>
                   change'[c].author # change'[c].approver /\ change'[c].approver # None
            BY <2>2 DEF ChangeInv, ChangeTypeOK
        <3>3. \A c \in Upgrades : change'[c].status # "NONE" =>
                 change'[c].release \in Releases /\ signer[change'[c].release] # None
            BY <2>2, ChangeAssumption DEF ChangeInv, ChangeTypeOK
        <3> QED
            BY <2>1, <2>3, <3>1, <3>2, <3>3 DEF ChangeInv, ChangeTypeOK
    <2>6. LogIsOneHistory' /\ OneAppends' /\ HasLatest'
        <3>1. UNCHANGED log
            BY <1>4 DEF MaintenanceCommit
        <3>2. \A v \in Users : request'[v].op = "append" => request'[v] = request[v]
            BY <2>3, IdleIsIdle
        <3> QED
            BY <3>1, <3>2, LogStays
    <2>7. OneVerifies'
        BY <2>2, <2>4 DEF ChangeInv, OneVerifies
    <2>8. Overlooked'
        <3>1. \A c \in Changes : Counted(c)' => Counted(c)
            BY <2>2, <2>3, IdleIsIdle DEF Counted, Busy
        <3> QED
            BY <2>1, <2>2, <3>1 DEF ChangeInv, Overlooked
    <2>9. SeenHolds'
        <3> SUFFICES ASSUME NEW v \in Busy({"start", "complete"})', v \notin moved',
                            NEW d, d = request'[v].change
                     PROVE  /\ request'[v].phase \in {"released", "assessed"} =>
                                  ReleaseTrusted(d)' /\ ReleaseLogged(d)'
                            /\ request'[v].phase = "assessed" => DependenciesAssured(d)'
            BY DEF SeenHolds
        <3>1. /\ v \in Busy({"start", "complete"}) \ moved /\ request'[v] = request[v]
              /\ d \in Changes /\ change[d].status # "NONE"
            BY <2>1, <2>4 DEF ChangeInv, OneVerifies
        <3>2. EvidenceKept
            BY <2>1 DEF EvidenceKept, KeysKept, Trusted
        <3> QED
            BY <2>2, <3>1, <3>2, SeenKept DEF ChangeInv, SeenHolds
    <2> QED
        BY <2>5, <2>6, <2>7, <2>8, <2>9 DEF ChangeInv
<1> QED
    BY <1>2, <1>3, <1>4

\* The conjuncts about starts and completions, when no row, no evidence and no request
\* of theirs changes.
LEMMA VerifiersStay ==
    ASSUME ChangeInv, UNCHANGED <<change, maintenance, key, signer, policy, worker>>,
           Busy({"start", "complete"})' = Busy({"start", "complete"}),
           \A v \in Busy({"start", "complete"}) : request'[v] = request[v],
           (moved' = moved /\ UNCHANGED log) \/ Disturb
    PROVE  OneVerifies' /\ Overlooked' /\ SeenHolds'
<1>1. OneVerifies'
    BY DEF ChangeInv, OneVerifies
<1>2. Overlooked'
    <2>1. \A c : Counted(c)' => Counted(c)
        BY DEF Counted, Busy
    <2> QED
        BY <2>1 DEF ChangeInv, Overlooked
<1>3. SeenHolds'
    <2>1. CASE Disturb
        BY <2>1 DEF SeenHolds, Disturb
    <2>2. CASE moved' = moved /\ UNCHANGED log
        <3> SUFFICES ASSUME NEW v \in Busy({"start", "complete"}), v \notin moved,
                            NEW d, d = request'[v].change
                     PROVE  /\ request'[v].phase \in {"released", "assessed"} =>
                                  ReleaseTrusted(d)' /\ ReleaseLogged(d)'
                            /\ request'[v].phase = "assessed" => DependenciesAssured(d)'
            BY <2>2 DEF SeenHolds
        <3>1. d \in Changes /\ change[d].status # "NONE" /\ request'[v] = request[v]
            BY RequestFields DEF Busy, ChangeInv, ChangeTypeOK, OneVerifies
        <3>2. EvidenceKept
            BY <2>2 DEF EvidenceKept, KeysKept, Trusted
        <3> QED
            BY <3>1, <3>2, SeenKept DEF ChangeInv, SeenHolds
    <2> QED
        BY <2>1, <2>2
<1> QED
    BY <1>1, <1>2, <1>3

LEMMA AppendEventInv ==
    ASSUME ChangeInv, NEW u \in Users, NEW r \in Releases,
           NEW event \in {"PUBLISHED", "WITHDRAWN"}, AppendEvent(u, r, event)
    PROVE  ChangeInv'
<1>1. PICK k \in Keys : request' = [request EXCEPT ![u] =
         [op |-> "append",
          entry |-> [seq |-> Len(log) + 1, release |-> r, event |-> event, signer |-> k]]]
    BY DEF AppendEvent
<1>2. /\ UNCHANGED <<change, maintenance, key, signer, log, policy, worker, moved>>
      /\ request[u] = Idle /\ MayAppend(r, event) /\ Busy({"append"}) = {}
    BY DEF AppendEvent, NobodyAppends, LogLocked
<1> DEFINE e == [seq |-> Len(log) + 1, release |-> r, event |-> event, signer |-> k]
           q == [op |-> "append", entry |-> e]
<1>3. e \in Entry /\ e.seq = Len(log) + 1 /\ e.release = r /\ e.event = event
    <2>1. Len(log) + 1 \in Nat
        BY LogFields DEF ChangeInv, ChangeTypeOK
    <2> QED
        BY <2>1 DEF Entry
<1> HIDE DEF e
<1>4. q \in RequestType /\ q.op = "append" /\ q.entry = e
    BY <1>3 DEF RequestType
<1>5. request' = [request EXCEPT ![u] = q]
    BY <1>1 DEF e
<1> HIDE DEF q
<1>6. /\ request' \in [Users -> RequestType] /\ request'[u] = q
      /\ \A v \in Users \ {u} : request'[v] = request[v]
    BY <1>4, <1>5 DEF ChangeInv, ChangeTypeOK
<1>7. ChangeTypeOK'
    BY <1>2, <1>6 DEF ChangeInv, ChangeTypeOK
<1>8. LogIsOneHistory' /\ HasLatest'
    <2>1. \A s : Events(s)' = Events(s) /\ Published(s)' = Published(s)
        BY <1>2 DEF Events, Published
    <2> QED
        BY <1>2, <2>1 DEF ChangeInv, LogIsOneHistory, HasLatest
<1>9. OneAppends'
    <2>1. Busy({"append"})' = {u}
        BY <1>2, <1>4, <1>6 DEF Busy
    <2>2. MayAppend(r, event)'
        BY <1>2 DEF MayAppend, Published, Events
    <2> QED
        BY <1>2, <1>3, <1>4, <1>6, <2>1, <2>2 DEF OneAppends
<1>10. OneVerifies' /\ Overlooked' /\ SeenHolds'
    <2>1. Busy({"start", "complete"})' = Busy({"start", "complete"}) /\ u \notin Busy({"start", "complete"})
        BY <1>2, <1>4, <1>6, IdleIsIdle DEF Busy
    <2>2. \A v \in Busy({"start", "complete"}) : request'[v] = request[v]
        BY <1>6, <2>1 DEF Busy
    <2> QED
        BY <1>2, <2>1, <2>2, VerifiersStay
<1> QED
    BY <1>7, <1>8, <1>9, <1>10 DEF ChangeInv

\* What an entry that MayAppend makes of the log.
LEMMA LogGrows ==
    ASSUME log \in Seq(Entry), HasLatest, LogIsOneHistory, NEW e \in Entry,
           e.seq = Len(log) + 1, MayAppend(e.release, e.event), log' = Append(log, e)
    PROVE  log' \in Seq(Entry) /\ LogIsOneHistory' /\ HasLatest'
<1> DEFINE n == Len(log) + 1
           r == e.release
<1>1. /\ DOMAIN log = 1 .. Len(log) /\ Len(log) \in Nat
      /\ r \in Releases /\ e.event \in {"PUBLISHED", "WITHDRAWN"}
      /\ \A i \in DOMAIN log : log[i].release \in Releases
                              /\ log[i].event \in {"PUBLISHED", "WITHDRAWN"}
    BY LogFields DEF Entry
<1>2. /\ log' \in Seq(Entry) /\ DOMAIN log' = 1 .. n /\ log'[n] = e
      /\ \A i \in 1 .. Len(log) : log'[i] = log[i]
    BY <1>1
<1> SUFFICES ASSUME NEW N, N = n, NEW R, R = r
             PROVE  LogIsOneHistory' /\ HasLatest'
    BY <1>2
<1>3. N \in Nat /\ Len(log) \in Nat /\ N = Len(log) + 1 /\ DOMAIN log = 1 .. Len(log)
      /\ DOMAIN log' = 1 .. N /\ log'[N] = e /\ R = e.release /\ e.seq = N
    BY <1>1, <1>2
<1> HIDE DEF n, r
<1>4. Events(R)' = Events(R) \cup {N} /\ \A s : s # R => Events(s)' = Events(s)
    BY <1>2, <1>3 DEF Events
<1>5. \A s : Events(s) \subseteq 1 .. Len(log)
    BY <1>3 DEF Events
<1>6. \A s : s # R => Published(s)' = Published(s)
    <2> SUFFICES ASSUME NEW s, s # R PROVE Published(s)' = Published(s)
        OBVIOUS
    <2>1. Events(s)' = Events(s) /\ \A i \in Events(s) : log'[i] = log[i]
        BY <1>2, <1>4, <1>5
    <2> QED
        BY <2>1 DEF Published
<1>7. Published(R)' => e.event = "PUBLISHED"
    <2>1. Published(R)' => \E i \in Events(R)' : log'[i].event = "PUBLISHED"
                                               /\ \A j \in Events(R)' : j <= i
        BY DEF Published
    <2>2. \A i \in Events(R)' : i \in 1 .. N /\ N \in Events(R)'
        BY <1>3, <1>4, <1>5
    <2>3. \A i \in 1 .. N : N <= i => i = N
        BY <1>3
    <2> QED
        BY <1>3, <2>1, <2>2, <2>3
<1>8. \A i \in 1 .. N : log'[i].seq = i
    BY <1>2, <1>3 DEF LogIsOneHistory
<1>9. ASSUME NEW i \in 1 .. N, NEW s, s = log'[i].release,
             NEW before, before = {j \in Events(s)' : j < i}
      PROVE  (log'[i].event = "PUBLISHED") <=>
               (before = {} \/ \E j \in before : log'[j].event = "WITHDRAWN"
                                                /\ \A m \in before : m <= j)
    <2>1. CASE i # N
        <3>1. i \in 1 .. Len(log) /\ log'[i] = log[i]
            BY <1>2, <1>3, <2>1
        <3>2. before = {j \in Events(log[i].release) : j < i}
            <4>1. Events(s)' = Events(s) \/ (s = R /\ Events(s)' = Events(s) \cup {N})
                BY <1>4
            <4>2. s = log[i].release /\ ~(N < i)
                BY <1>3, <1>9, <3>1
            <4> QED
                BY <1>9, <4>1, <4>2
        <3>3. \A j \in before : log'[j] = log[j]
            BY <1>2, <1>5, <3>2
        <3> QED
            BY <1>3, <3>1, <3>2, <3>3 DEF LogIsOneHistory
    <2>2. CASE i = N
        <3>1. before = Events(R) /\ log'[i] = e /\ \A j \in before : log'[j] = log[j]
            <4>1. log'[i] = e /\ s = R
                BY <1>3, <1>9, <2>2
            <4>2. \A j \in Events(R) : j \in 1 .. Len(log) /\ j < N
                BY <1>3, <1>5
            <4>3. before = Events(R)
                BY <1>3, <1>4, <1>9, <2>2, <4>1, <4>2
            <4> QED
                BY <1>2, <4>1, <4>2, <4>3
        <3>2. CASE e.event = "PUBLISHED"
            <4>1. ~Published(R)
                BY <1>1, <1>3, <3>2 DEF MayAppend, r
            <4>2. before # {} => \E j \in before : \A m \in before : m <= j
                BY <1>1, <1>3, <3>1 DEF HasLatest, r
            <4>3. \A j \in before : log[j].event # "PUBLISHED" => log[j].event = "WITHDRAWN"
                BY <1>1, <1>3, <1>5, <3>1
            <4> QED
                BY <3>1, <3>2, <4>1, <4>2, <4>3 DEF Published
        <3>3. CASE e.event = "WITHDRAWN"
            <4>1. Published(R)
                BY <1>3, <3>3 DEF MayAppend
            <4>2. PICK j \in before : log[j].event = "PUBLISHED" /\ \A m \in before : m <= j
                BY <3>1, <4>1 DEF Published
            <4>3. \A m \in before : m \in Nat
                BY <1>3, <1>5, <3>1
            <4>4. \A m \in before : (\A o \in before : o <= m) => m = j
                BY <4>2, <4>3
            <4> QED
                BY <3>1, <3>3, <4>2, <4>4
        <3> QED
            BY <1>1, <3>2, <3>3
    <2> QED
        BY <2>1, <2>2
<1>10. \A s, t \in Releases :
          VersionOf[s] = VersionOf[t] /\ Published(s)' /\ Published(t)' => s = t
    <2>1. \A s \in Releases \ {R} : VersionOf[s] = VersionOf[R] /\ Published(R)' => ~Published(s)
        BY <1>3, <1>7 DEF MayAppend
    <2> QED
        BY <1>6, <2>1 DEF LogIsOneHistory
<1>11. LogIsOneHistory'
    <2>1. \A i \in DOMAIN log' : log'[i].seq = i
        BY <1>3, <1>8
    <2>2. \A s : Events(s)' = {k \in DOMAIN log' : log'[k].release = s}
        BY DEF Events
    <2>3. ASSUME NEW i \in DOMAIN log'
          PROVE  LET before == {j \in {k \in DOMAIN log' : log'[k].release = log'[i].release} :
                                  j < i} IN
                 (log'[i].event = "PUBLISHED") <=>
                   (before = {} \/ \E j \in before : log'[j].event = "WITHDRAWN"
                                                    /\ \A m \in before : m <= j)
        <3> DEFINE before == {j \in {k \in DOMAIN log' : log'[k].release = log'[i].release} : j < i}
        <3>1. PICK s : s = log'[i].release
            OBVIOUS
        <3>2. before = {j \in Events(s)' : j < i}
            BY <2>2, <3>1
        <3>3. i \in 1 .. N
            BY <1>3
        <3> HIDE DEF before
        <3>4. (log'[i].event = "PUBLISHED") <=>
                (before = {} \/ \E j \in before : log'[j].event = "WITHDRAWN"
                                                 /\ \A m \in before : m <= j)
            BY <1>9, <3>1, <3>2, <3>3
        <3> QED
            BY <3>4 DEF before
    <2> QED
        BY <1>10, <2>1, <2>3 DEF LogIsOneHistory, Events
<1>12. HasLatest'
    <2>1. \A j \in Events(R)' : j <= N
        BY <1>3, <1>4, <1>5
    <2> QED
        BY <1>4, <2>1 DEF HasLatest
<1> QED
    BY <1>11, <1>12

LEMMA AppendCommitInv ==
    ASSUME ChangeInv, NEW u \in Users, AppendCommit(u)
    PROVE  ChangeInv'
<1> DEFINE e == request[u].entry
<1>1. /\ UNCHANGED <<change, maintenance, key, signer, policy, worker>> /\ Disturb
      /\ log' = Append(log, e) /\ request' = [request EXCEPT ![u] = Idle]
      /\ u \in Busy({"append"}) /\ request[u].op = "append"
    BY DEF AppendCommit, Busy
<1>2. /\ e \in Entry /\ e.seq = Len(log) + 1 /\ MayAppend(e.release, e.event)
      /\ \A v \in Busy({"append"}) : v = u
    BY <1>1, RequestFields DEF ChangeInv, ChangeTypeOK, OneAppends
<1> HIDE DEF e
<1>3. log' \in Seq(Entry) /\ LogIsOneHistory' /\ HasLatest'
    BY <1>1, <1>2, LogGrows DEF ChangeInv, ChangeTypeOK
<1>4. /\ request' \in [Users -> RequestType] /\ request'[u] = Idle
      /\ \A v \in Users \ {u} : request'[v] = request[v]
    BY <1>1, IdleIsIdle DEF ChangeInv, ChangeTypeOK
<1>5. Busy({"append"})' = {}
    BY <1>2, <1>4, IdleIsIdle DEF Busy
<1>6. ChangeTypeOK'
    <2>1. moved' \subseteq Users
        BY <1>1 DEF Disturb, Busy, ChangeInv, ChangeTypeOK
    <2> QED
        BY <1>1, <1>3, <1>4, <2>1 DEF ChangeInv, ChangeTypeOK
<1>7. OneVerifies' /\ Overlooked' /\ SeenHolds'
    <2>1. Busy({"start", "complete"})' = Busy({"start", "complete"}) /\ u \notin Busy({"start", "complete"})
        BY <1>1, <1>4, IdleIsIdle DEF Busy
    <2>2. \A v \in Busy({"start", "complete"}) : request'[v] = request[v]
        BY <1>4, <2>1 DEF Busy
    <2> QED
        BY <1>1, <2>1, <2>2, VerifiersStay
<1> QED
    BY <1>3, <1>5, <1>6, <1>7 DEF ChangeInv, OneAppends

LEMMA WorkerInv ==
    ASSUME ChangeInv, NEW w \in Workers, SafetyCheck(w) \/ TakeJob(w) \/ LetGo(w)
    PROVE  ChangeInv'
<1>1. /\ UNCHANGED <<change, maintenance, key, signer, log, policy, request, moved>>
      /\ worker' \in [Workers -> {"idle", "checked", "sending"}]
      /\ \A v \in Workers : worker'[v] # "idle" => worker[v] # "idle" \/ ~maintenance
    BY DEF SafetyCheck, TakeJob, LetGo, ChangeInv, ChangeTypeOK
<1>2. ChangeTypeOK'
    BY <1>1 DEF ChangeInv, ChangeTypeOK
<1>3. LogIsOneHistory' /\ OneAppends' /\ HasLatest'
    BY <1>1, LogStays
<1>4. OneVerifies'
    BY <1>1 DEF ChangeInv, OneVerifies, Busy
<1>5. Overlooked'
    <2>1. \A c : Counted(c)' = Counted(c)
        BY SMTT(40), <1>1 DEF Counted, Busy
    <2> QED
        BY <1>1, <2>1 DEF ChangeInv, Overlooked
<1>6. SeenHolds'
    BY <1>1 DEF ChangeInv, SeenHolds, Busy, ReleaseTrusted, ReleaseLogged, DependenciesAssured,
                Trusted, ChainValid, Published, Events
<1> QED
    BY <1>2, <1>3, <1>4, <1>5, <1>6 DEF ChangeInv

LEMMA ChangeStart == ChangeInit => ChangeInv
<1> SUFFICES ASSUME ChangeInit PROVE ChangeInv
    OBVIOUS
<1>1. log = <<>> /\ DOMAIN log = {} /\ log \in Seq(Entry)
    BY DEF ChangeInit
<1>2. \A ops : "idle" \notin ops => Busy(ops) = {}
    BY IdleIsIdle DEF ChangeInit, Busy
<1>3. /\ \A k \in Keys : key[k] = NoKey /\ NoKey \in KeyRow /\ ~key[k].default
      /\ key \in [Keys -> KeyRow]
    BY DEF ChangeInit, NoKey, KeyRow
<1>4. \A c \in Changes : change[c] \in ChangeRow /\ change[c].status = "NONE" /\ ~change[c].steady
    BY DEF ChangeInit, ChangeRow
<1>5. change \in [Changes -> ChangeRow]
    BY <1>4 DEF ChangeInit
<1>6. ChangeTypeOK
    BY <1>1, <1>3, <1>4, <1>5, IdleIsIdle, ChangeAssumption DEF ChangeInit, ChangeTypeOK
<1>7. LogIsOneHistory /\ HasLatest
    <2>1. \A r : Events(r) = {} /\ ~Published(r)
        BY <1>1 DEF Events, Published
    <2> QED
        BY <1>1, <2>1 DEF LogIsOneHistory, HasLatest
<1>8. OneAppends /\ OneVerifies /\ SeenHolds
    BY <1>2 DEF OneAppends, OneVerifies, SeenHolds
<1>9. Overlooked
    BY <1>4 DEF Overlooked
<1> QED
    BY <1>6, <1>7, <1>8, <1>9 DEF ChangeInv

LEMMA ChangeStep == ChangeInv /\ [ChangeNext]_changeVars => ChangeInv'
<1> SUFFICES ASSUME ChangeInv, [ChangeNext]_changeVars PROVE ChangeInv'
    OBVIOUS
<1>1. CASE TrustMoves
    BY <1>1, TrustInv
<1>2. CASE LogMoves
    BY <1>2, AppendEventInv, AppendCommitInv DEF LogMoves
<1>3. CASE ChangeMoves
    BY <1>3, CreateInv, StatusInv, StartInv, VerifyInv, ProceedInv, RefuseInv DEF ChangeMoves
<1>4. CASE MaintenanceMoves
    BY <1>4, MaintenanceInv DEF MaintenanceMoves
<1>5. CASE WorkerMoves
    BY <1>5, WorkerInv DEF WorkerMoves
<1>6. CASE UNCHANGED changeVars
    <2>1. UNCHANGED <<change, maintenance, key, signer, log, policy, worker, request, moved>>
        BY <1>6 DEF changeVars
    <2>2. LogIsOneHistory' /\ OneAppends' /\ HasLatest'
        BY <2>1, LogStays
    <2>3. OneVerifies' /\ Overlooked' /\ SeenHolds'
        BY <2>1, VerifiersStay DEF Busy
    <2> QED
        BY <2>1, <2>2, <2>3 DEF ChangeInv, ChangeTypeOK
<1> QED
    BY <1>1, <1>2, <1>3, <1>4, <1>5, <1>6 DEF ChangeNext

\* Whatever the number of owners, workers, changes, releases and keys: the log, the
\* locks, the sends that were counted and the evidence that was seen stay as the
\* invariant says (app/services/change_management.py, supply_chain.py).
THEOREM ChangeInvariant == ChangeSpec => []ChangeInv
BY ChangeStart, ChangeStep, PTL DEF ChangeSpec

\* The release log is one history: numbered without gap or repetition, each release
\* published and withdrawn in turn, and one release published for a version
\* (app/services/supply_chain.py, append_transparency_event).
THEOREM LogOfOneHistory == ChangeSpec => []LogIsOneHistory
<1>1. ChangeInv => LogIsOneHistory
    BY DEF ChangeInv
<1> QED
    BY ChangeInvariant, <1>1, PTL

\* Under a change that needs maintenance, and while maintenance lasts, only a worker
\* that the count of the sends overlooked can be sending
\* (app/services/change_management.py, run_deployment_verification).
THEOREM CountedSendsOnly == ChangeSpec => []OnlyOverlookedSendRuns
<1>1. ChangeInv => OnlyOverlookedSendRuns
    BY ChangeAssumption DEF ChangeInv, OnlyOverlookedSendRuns, Overlooked, Counted
<1> QED
    BY ChangeInvariant, <1>1, PTL

\* Only Proceed gives a change that a request has locked another status.
LEMMA StatusKept ==
    ASSUME ChangeInv, ChangeNext, NEW u \in Busy({"start", "complete"}), ~Proceed(u),
           NEW c, c = request[u].change
    PROVE  change'[c].status = change[c].status
<1>1. /\ u \in Users /\ c \in Changes /\ Locked(c) /\ change \in [Changes -> ChangeRow]
      /\ change[c].status # "NONE"
      /\ \A v \in Busy({"start", "complete"}) : request[v].change = c => u = v
    BY RequestFields DEF Busy, Locked, ChangeInv, ChangeTypeOK, OneVerifies
<1>2. ASSUME NEW d \in Changes, d # c, NEW status PROVE Ended(d, status)[c] = change[c]
    BY <1>1, <1>2 DEF Ended
<1>3. ASSUME NEW d \in Changes PROVE Ended(d, change[d].status)[c].status = change[c].status
    BY <1>1 DEF Ended, ChangeRow
<1>4. CASE TrustMoves
    BY <1>4 DEF TrustMoves, GenerateKey, SetDefaultKey, RevokeKey, TrustKey, Attest, UpdatePolicy
<1>5. CASE LogMoves
    BY <1>5 DEF LogMoves, AppendEvent, AppendCommit
<1>6. CASE WorkerMoves
    BY <1>6 DEF WorkerMoves, SafetyCheck, TakeJob, LetGo
<1>7. CASE MaintenanceMoves
    <2>1. PICK v \in Users : StartMaintenance(v) \/ StopMaintenance(v) \/ MaintenanceCommit(v)
        BY <1>7 DEF MaintenanceMoves
    <2>2. CASE MaintenanceCommit(v)
        <3>1. change'[c] = [change[c] EXCEPT !.steady = @ /\ maintenance']
            BY <1>1, <2>2 DEF MaintenanceCommit
        <3> QED
            BY <1>1, <3>1 DEF ChangeRow
    <2> QED
        BY <2>1, <2>2 DEF StartMaintenance, StopMaintenance
<1>8. CASE ChangeMoves
    <2>1. ASSUME NEW v \in Users, NEW d \in Changes, NEW r \in Releases \cup {None},
                 CreateChange(v, d, r)
          PROVE  change'[c].status = change[c].status
        BY <1>1, <2>1 DEF CreateChange
    <2>2. ASSUME NEW v \in Users, NEW d \in Changes,
                 ApproveChange(v, d) \/ CancelChange(v, d) \/ FailChange(v, d)
          PROVE  change'[c].status = change[c].status
        <3>1. d # c
            BY <1>1, <2>2 DEF ApproveChange, MayApprove, CancelChange, MayCancel, FailChange
        <3> QED
            BY <1>1, <1>2, <2>2, <3>1 DEF ApproveChange, CancelChange, FailChange
    <2>3. ASSUME NEW v \in Users, NEW d \in Changes, StartChange(v, d) \/ CompleteChange(v, d)
          PROVE  change'[c].status = change[c].status
        BY <1>1, <2>3 DEF StartChange, CompleteChange, ChangeRow
    <2>4. ASSUME NEW v \in Users, CountSends(v) \/ VerifyRelease(v) \/ VerifyDependencies(v)
          PROVE  change'[c].status = change[c].status
        BY <1>1, <2>4 DEF CountSends, VerifyRelease, VerifyDependencies, ChangeRow
    <2>5. ASSUME NEW v \in Users, Proceed(v) PROVE change'[c].status = change[c].status
        <3>1. v \in Busy({"start", "complete"}) /\ v # u
            BY <2>5 DEF Proceed, Verified, InPhase, Busy
        <3>2. request[v].change # c /\ request[v].change \in Changes
            BY <1>1, <3>1, RequestFields DEF Busy, ChangeInv, ChangeTypeOK
        <3> QED
            BY <1>1, <1>2, <2>5, <3>2 DEF Proceed
    <2>6. ASSUME NEW v \in Users, Refuse(v) PROVE change'[c].status = change[c].status
        <3>1. request[v].op = "start" => request[v].change \in Changes
            BY RequestFields DEF ChangeInv, ChangeTypeOK
        <3> QED
            BY <1>3, <2>6, <3>1 DEF Refuse
    <2> QED
        BY <1>8, <2>1, <2>2, <2>3, <2>4, <2>5, <2>6 DEF ChangeMoves
<1> QED
    BY <1>4, <1>5, <1>6, <1>7, <1>8 DEF ChangeNext

\* An upgrade is started and completed on evidence that holds at that moment, unless
\* the evidence changed during that very request
\* (app/services/change_management.py, run_deployment_verification).
THEOREM UpgradesRestOnEvidence == ChangeSpec => ProceedsOnEvidence
<1>1. ASSUME ChangeInv, [ChangeNext]_changeVars, NEW u \in Busy({"start", "complete"}),
             NEW c, c = request[u].change, change'[c].status # change[c].status
      PROVE  Evidence(c) \/ u \in moved
    <2>1. CASE ~Proceed(u)
        BY <1>1, <2>1, StatusKept DEF changeVars
    <2>2. CASE Proceed(u)
        <3>1. request[u].op \in {"start", "complete"} /\ request[u].phase = "assessed" /\ u \in Users
            BY <2>2 DEF Proceed, Verified, InPhase, Busy
        <3> QED
            BY <1>1, <3>1, VerifyingFields DEF Evidence
    <2> QED
        BY <2>1, <2>2
<1>2. ChangeInv /\ [ChangeNext]_changeVars =>
        [\A u \in Busy({"start", "complete"}) :
           LET c == request[u].change IN
           request'[u] = Idle /\ change'[c].status # change[c].status
             => Evidence(c) \/ u \in moved]_changeVars
    BY <1>1
<1> QED
    BY ChangeInvariant, <1>2, PTL DEF ChangeSpec, ProceedsOnEvidence

=============================================================================
