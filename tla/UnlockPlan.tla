---- MODULE UnlockPlan ----
\* The plan of blocked steps of one project and environment (tool/unlock_plan.py):
\* steps and facts are documents, seeded one by one by concurrent processes that
\* may die, moved on by the command line, and read back as a report that derives
\* the readiness of every step from the facts.
EXTENDS Naturals, Sequences

CONSTANTS
    PlanSteps,       \* the default plan: sequence of [key, requires, produces]
    Facts,           \* fact keys
    Seeders,         \* processes that seed
    EvidenceRuns,    \* runs that may be cited as evidence
    NoEvidence,
    MaxSeedings, MaxUnlockEdits

ASSUME UnlockAssumption ==
    /\ \A i \in 1..Len(PlanSteps) : PlanSteps[i].requires \cup PlanSteps[i].produces \subseteq Facts
    /\ MaxSeedings \in Nat /\ MaxUnlockEdits \in Nat

VARIABLES
    unlockSteps,       \* status of each stored step, or "absent"
    unlockFacts,       \* state and evidence of each stored fact
    seeder,      \* where each seeding process is
    seedings, unlockEdits

unlockVars == <<unlockSteps, unlockFacts, seeder, seedings, unlockEdits>>

StepNumbers == 1..Len(PlanSteps)
StepStatuses == {"pending", "in_progress", "done", "abandoned"}
SettledSteps == {"done", "abandoned"}

NoFact == [state |-> "absent", evidence |-> NoEvidence, run |-> NoEvidence, manual |-> FALSE]
IdleSeeder == [at |-> 0, found |-> FALSE]

UnlockInit ==
    /\ unlockSteps = [i \in StepNumbers |-> "absent"]
    /\ unlockFacts = [f \in Facts |-> NoFact]
    /\ seeder = [d \in Seeders |-> IdleSeeder]
    /\ seedings = 0 /\ unlockEdits = 0

----
\* seed_default_plan: look a step up, insert it when it was not found; then the
\* facts. Binding a source seeds only when no step is there.

StartSeeding(d, binding) ==
    /\ seeder[d].at = 0 /\ seedings < MaxSeedings
    /\ binding => \A i \in StepNumbers : unlockSteps[i] = "absent"
    /\ seedings' = seedings + 1
    /\ seeder' = [seeder EXCEPT ![d] = [at |-> 1, found |-> FALSE]]
    /\ UNCHANGED <<unlockSteps, unlockFacts, unlockEdits>>

LookUpStep(d) ==
    /\ seeder[d].at \in StepNumbers /\ ~seeder[d].found
    /\ seeder' = [seeder EXCEPT ![d] = IF unlockSteps[seeder[d].at] = "absent" THEN [@ EXCEPT !.found = TRUE]
                                       ELSE [@ EXCEPT !.at = @ + 1]]
    /\ UNCHANGED <<unlockSteps, unlockFacts, seedings, unlockEdits>>

\* The unique index refuses a step that came into being after the look-up, which
\* ends the seeding.
InsertStepOver(d) ==
    /\ unlockSteps' = [unlockSteps EXCEPT ![seeder[d].at] = "pending"]
    /\ seeder' = [seeder EXCEPT ![d] = [at |-> @.at + 1, found |-> FALSE]]

InsertStep(d) ==
    IF unlockSteps[seeder[d].at] = "absent"
    THEN /\ unlockSteps' = [unlockSteps EXCEPT ![seeder[d].at] = "pending"]
         /\ seeder' = [seeder EXCEPT ![d] = [at |-> @.at + 1, found |-> FALSE]]
    ELSE seeder' = [seeder EXCEPT ![d] = IdleSeeder] /\ UNCHANGED unlockSteps

SeedStep(d) ==
    /\ seeder[d].at \in StepNumbers /\ seeder[d].found
    /\ InsertStep(d)
    /\ UNCHANGED <<unlockFacts, seedings, unlockEdits>>

\* The facts that are missing come last, as unknown ones.
SeedFacts(d) ==
    /\ seeder[d].at = Len(PlanSteps) + 1
    /\ unlockFacts' = [f \in Facts |-> IF unlockFacts[f].state = "absent" THEN [NoFact EXCEPT !.state = "unknown"] ELSE unlockFacts[f]]
    /\ seeder' = [seeder EXCEPT ![d] = IdleSeeder]
    /\ UNCHANGED <<unlockSteps, seedings, unlockEdits>>

SeederDies(d) ==
    /\ seeder[d].at # 0
    /\ seeder' = [seeder EXCEPT ![d] = IdleSeeder]
    /\ UNCHANGED <<unlockSteps, unlockFacts, seedings, unlockEdits>>

----
\* The commands `fact` and `step`. A fact is an upsert of everything but the run,
\* which stays unless another one is given.
RecordFact(f, state, evidence, run, manual) ==
    /\ unlockEdits < MaxUnlockEdits
    /\ state = "satisfied" => evidence # NoEvidence \/ run # NoEvidence \/ manual
    /\ unlockFacts' = [unlockFacts EXCEPT ![f] =
         [state |-> state, evidence |-> evidence,
          run |-> IF run = NoEvidence THEN unlockFacts[f].run ELSE run,
          manual |-> manual /\ state = "satisfied" /\ evidence = NoEvidence /\ run = NoEvidence]]
    /\ unlockEdits' = unlockEdits + 1
    /\ UNCHANGED <<unlockSteps, seeder, seedings>>

SetStep(i, status) ==
    /\ unlockEdits < MaxUnlockEdits /\ unlockSteps[i] # "absent"
    /\ unlockSteps' = [unlockSteps EXCEPT ![i] = status]
    /\ unlockEdits' = unlockEdits + 1
    /\ UNCHANGED <<unlockFacts, seeder, seedings>>

UnlockNext ==
    \/ \E d \in Seeders, binding \in BOOLEAN : StartSeeding(d, binding)
    \/ \E d \in Seeders : LookUpStep(d) \/ SeedStep(d) \/ SeedFacts(d) \/ SeederDies(d)
    \/ \E f \in Facts, state \in {"satisfied", "unsatisfied", "unknown"}, manual \in BOOLEAN,
          evidence \in {NoEvidence, "trace"}, run \in EvidenceRuns \cup {NoEvidence} :
            RecordFact(f, state, evidence, run, manual)
    \/ \E i \in StepNumbers, status \in StepStatuses : SetStep(i, status)

----
\* evaluate_steps over the stored steps.

MissingFacts(i) == {f \in PlanSteps[i].requires : unlockFacts[f].state # "satisfied"}

Readiness(i) ==
    IF unlockSteps[i] \in SettledSteps \cup {"in_progress"} THEN unlockSteps[i]
    ELSE IF MissingFacts(i) # {} THEN "blocked" ELSE "ready"

PreconditionLost(i) == IF unlockSteps[i] \in SettledSteps \cup {"in_progress"} THEN MissingFacts(i) ELSE {}

\* Abandoned steps that produce, first in the plan, a fact this step requires.
FirstProducer(f, j) ==
    /\ unlockSteps[j] # "absent" /\ f \in PlanSteps[j].produces
    /\ \A k \in 1..(j - 1) : unlockSteps[k] # "absent" => f \notin PlanSteps[k].produces

DeadlockedByAbandoned(i) ==
    {j \in StepNumbers : unlockSteps[j] = "abandoned" /\ \E f \in PlanSteps[i].requires : FirstProducer(f, j)}

----
\* Seeding again, also at the same time and after a crash, never takes back the
\* status a step was moved to (unlock_plan.py:338-357).
ProgressSurvivesSeeding ==
    [][\A i \in StepNumbers : (unlockSteps[i] \in StepStatuses /\ unlockSteps'[i] # unlockSteps[i]) => unlockEdits' # unlockEdits]_unlockVars

\* unlock_plan.py:161-162: a step whose producer is abandoned "can never become
\* ready".
DeadlockedIsNotReady ==
    \A i \in StepNumbers : (unlockSteps[i] # "absent" /\ DeadlockedByAbandoned(i) # {}) => Readiness(i) # "ready"

\* collection.py:2129-2131: "Each fact records the evidence that satisfied it": a
\* fact satisfied on the user's word alone names no run.
EvidenceIsCurrent ==
    \A f \in Facts : (unlockFacts[f].state = "satisfied" /\ unlockFacts[f].manual) => unlockFacts[f].run = NoEvidence
====
