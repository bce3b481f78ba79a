-------------------------- MODULE MCOffice_proofs ---------------------------
(****************************************************************************)
(* Proofs about receipts and the create transaction of the Office job store *)
(* as MCOffice puts them together. The receipts' invariants come from       *)
(* JobReceipts_proofs; CapacityState is the create transaction's.           *)
(****************************************************************************)
EXTENDS MCOffice, TLAPS

\* The create transaction. What its lock holder may be doing, and of what kind.
Tasks == {"none", "mkdir", "mkjob", "record", "journal", "identity", "publish", "mark", "stage",
          "unjournal", "undo", "unident", "next", "measure"}
Works == {"none", "create", "undo", "recover", "bundle"}
Ops == [proc : {p1, "none"}, kind : Works, on : Jobs \cup Bundles \cup {"none"}, pc : Tasks, n : Nat]
Rest == [proc |-> "none", kind |-> "none", on |-> "none", pc |-> "none", n |-> 0]

JobsTyped ==
    /\ job \in [Jobs -> {"none", "live", "quar"}]
    /\ bytes \in [Jobs -> Sizes \cup {0}] /\ pend \in [Jobs -> Sizes \cup {0}]
    /\ stage \in [Jobs -> {"none", "dir", "torn", "full"}]
    /\ jrn \in [Jobs -> {"none", "prepared", "published"}]
    /\ ident \in [Jobs -> BOOLEAN] /\ kept \in [Jobs -> BOOLEAN]
    /\ told \in [Jobs -> {"none", "ok", "error", "deleted"}]
ServerTyped ==
    /\ zip \in [Bundles -> Nat] /\ other \in Nat
    /\ up \in SUBSET {p1} /\ boot \in SUBSET {p1} /\ op \in Ops /\ faults \in 0..MaxFaults

\* What is done is of the kind that has such a step, by the process that is up.
OpOK ==
    /\ op.kind = "none" => op = Rest
    /\ op.kind # "none" => op.proc = p1 /\ p1 \in up
    /\ op.kind = "create" => /\ boot = {} /\ op.on \in Jobs
                             /\ op.pc \in {"mkdir", "mkjob", "record", "journal", "identity",
                                           "publish", "mark", "stage", "unjournal"}
    /\ op.kind = "undo" => /\ boot = {} /\ op.on \in Jobs
                           /\ op.pc \in {"undo", "unident", "unjournal"}
    /\ op.kind = "recover" => \/ op.pc = "next" /\ op.on = "none"
                              \/ /\ op.on \in Jobs
                                 /\ op.pc \in {"identity", "publish", "stage", "unjournal"}
    /\ op.kind = "bundle" => op.pc = "measure" /\ op.on \in Bundles

\* No create of a recovered server is about the job.
Settling(j) == boot = {} /\ (op.kind \in {"create", "undo"} => op.on # j)

\* What is on disk of a job agrees with what its client was told.
JobOK(j) ==
    /\ job[j] = "live" => ident[j]
    /\ ident[j] /\ job[j] = "none" => kept[j] \/ jrn[j] # "none"
    /\ jrn[j] # "none" => job[j] # "quar" /\ told[j] = "none"
    /\ told[j] = "ok" => job[j] # "none"
    /\ told[j] = "error" /\ job[j] # "none" => kept[j]
    /\ Settling(j) => /\ jrn[j] = "none"
                      /\ stage[j] # "none" => told[j] = "error" /\ job[j] = "none"

\* How far the create, its rollback or its recovery has come.
StepOK ==
    /\ op.kind \in {"create", "undo"} => told[op.on] = "none"
    /\ op.pc \in {"mkdir", "mkjob", "record", "journal"} => jrn[op.on] = "none" /\ job[op.on] = "none"
    /\ op.pc = "identity" /\ op.kind = "create" => job[op.on] = "none"
    /\ op.pc \in {"identity", "publish", "mark", "stage"} => jrn[op.on] # "none"
    /\ op.pc = "unjournal" /\ op.kind # "undo" => jrn[op.on] # "none"
    /\ op.pc = "publish" => ident[op.on]
    /\ op.pc \in {"mark", "stage"} => job[op.on] = "live"
    /\ op.pc = "unjournal" => stage[op.on] = "none" /\ (ident[op.on] => job[op.on] # "none")
    /\ op.pc = "unjournal" /\ op.kind = "create" => job[op.on] = "live"
    /\ op.pc \in {"unident", "unjournal"} /\ op.kind = "undo" =>
           job[op.on] = "none" /\ stage[op.on] = "none"
    /\ op.kind = "undo" /\ job[op.on] # "none" => jrn[op.on] # "none" /\ op.pc = "undo"

CapacityState == JobsTyped /\ ServerTyped /\ OpOK /\ (\A j \in Jobs : JobOK(j)) /\ StepOK

\* A staged job with a journal goes only when it is published, kept or rolled back.
Survives(j) == jrn[j] # "none" /\ stage[j] = "full" /\ stage[j]' # "full" =>
                   job[j]' = "live" \/ kept[j]' \/ op.kind = "undo"
CapacityStep == CapacityState' /\ \A j \in Jobs : Survives(j)

LEMMA CapacityNames ==
    Capacity!None = "none" /\ Capacity!Idle = Rest
BY DEF Capacity!None, Capacity!Idle, Rest

\* The operation that goes on, and what of it tells its kind.
LEMMA OpGoes ==
    ASSUME NEW o \in Ops, NEW l \in Tasks
    PROVE  /\ [o EXCEPT !.pc = l] \in Ops /\ [o EXCEPT !.pc = l].pc = l
           /\ [o EXCEPT !.pc = l].kind = o.kind /\ [o EXCEPT !.pc = l].on = o.on
           /\ [o EXCEPT !.pc = l].proc = o.proc /\ [o EXCEPT !.pc = l].n = o.n
BY DEF Ops

LEMMA RestFacts == Rest \in Ops /\ Rest.kind = "none" /\ Rest.pc = "none" /\ Rest.on = "none"
BY DEF Rest, Ops, Works, Tasks

LEMMA OpSteps ==
    ASSUME ServerTyped, OpOK, NEW l \in Tasks, Capacity!Goto(l)
    PROVE  op' \in Ops /\ op'.pc = l /\ op'.kind = op.kind /\ op'.on = op.on /\ op'.proc = op.proc
BY OpGoes DEF ServerTyped, Capacity!Goto

\* What a step on the disk leaves of the other jobs.
LEMMA JobElse ==
    ASSUME JobsTyped, \A j \in Jobs : JobOK(j), NEW j \in Jobs,
           job'[j] = job[j], stage'[j] = stage[j], jrn'[j] = jrn[j], ident'[j] = ident[j],
           kept'[j] = kept[j], told'[j] = told[j], Settling(j)' => Settling(j)
    PROVE  JobOK(j)' /\ Survives(j)
BY DEF JobOK, Survives

\* The steps of create.
LEMMA CapacityCreate ==
    ASSUME Capacity!CapacityAssumption, CapacityState, NEW j \in Jobs, Capacity!Create(p1, j)
    PROVE  CapacityStep
<1> USE CapacityNames
<1>1. JobsTyped /\ ServerTyped /\ OpOK /\ (\A k \in Jobs : JobOK(k)) /\ StepOK
  BY DEF CapacityState
<1>2. /\ op = Rest /\ p1 \in up /\ boot = {}
      /\ job[j] = "none" /\ told[j] = "none" /\ stage[j] = "none"
      /\ UNCHANGED <<job, bytes, pend, stage, jrn, ident, kept, zip, told, other, up, boot, faults>>
  BY <1>1 DEF Capacity!Create, Capacity!disk, ServerTyped
<1>3. op' \in Ops /\ op'.proc = p1 /\ op'.kind = "create" /\ op'.on = j /\ op'.pc = "mkdir"
  <2>1. op' = [proc |-> p1, kind |-> "create", on |-> j, pc |-> "mkdir", n |-> 0]
    BY DEF Capacity!Create, Rest
  <2>2. "create" \in Works /\ "mkdir" \in Tasks
    BY DEF Works, Tasks
  <2> QED BY <2>1, <2>2 DEF Ops
<1>4. jrn[j] = "none"
  BY <1>1, <1>2, RestFacts DEF JobOK, Settling
<1>5. JobsTyped' /\ ServerTyped' /\ OpOK'
  BY <1>1, <1>2, <1>3 DEF JobsTyped, ServerTyped, OpOK
<1>6. \A k \in Jobs : JobOK(k)' /\ Survives(k)
  <2> SUFFICES ASSUME NEW k \in Jobs PROVE JobOK(k)' /\ Survives(k)
    OBVIOUS
  <2>1. Settling(k)
    BY <1>2, RestFacts DEF Settling
  <2> QED BY <1>1, <1>2, <2>1, JobElse
<1>7. StepOK'
  BY <1>2, <1>3, <1>4 DEF StepOK
<1> QED BY <1>5, <1>6, <1>7 DEF CapacityStep, CapacityState

LEMMA CapacityStage ==
    ASSUME Capacity!CapacityAssumption, CapacityState,
           Capacity!MakeStage \/ Capacity!MakeStagedJob \/ Capacity!WriteRecord
    PROVE  CapacityStep
<1> USE CapacityNames
<1>1. JobsTyped /\ ServerTyped /\ OpOK /\ (\A k \in Jobs : JobOK(k)) /\ StepOK
  BY DEF CapacityState
<1>2. PICK l \in {"mkjob", "record", "journal"} :
         /\ op.pc \in {"mkdir", "mkjob", "record"} /\ Capacity!Goto(l)
         /\ \E s \in {"dir", "torn", "full"} : stage' = [stage EXCEPT ![op.on] = s]
         /\ UNCHANGED <<job, bytes, pend, jrn, ident, kept, told, zip, other, up, boot, faults>>
  BY DEF Capacity!MakeStage, Capacity!MakeStagedJob, Capacity!WriteRecord, Capacity!At
<1>3. PICK j \in Jobs : j = op.on /\ op.kind = "create"
  BY <1>1, <1>2 DEF OpOK, ServerTyped, Ops, Works, Rest
<1>4. op' \in Ops /\ op'.pc = l /\ op'.kind = "create" /\ op'.on = j /\ op'.proc = op.proc
  <2>1. l \in Tasks
    BY DEF Tasks
  <2> QED BY <1>1, <1>2, <1>3, <2>1, OpSteps
<1>5. /\ jrn[j] = "none" /\ job[j] = "none" /\ told[j] = "none"
  BY <1>1, <1>2, <1>3 DEF StepOK
<1>6. JobsTyped' /\ ServerTyped' /\ OpOK'
  BY <1>1, <1>2, <1>3, <1>4 DEF JobsTyped, ServerTyped, OpOK
<1>7. \A k \in Jobs : JobOK(k)' /\ Survives(k)
  <2> SUFFICES ASSUME NEW k \in Jobs PROVE JobOK(k)' /\ Survives(k)
    OBVIOUS
  <2>1. CASE k # j
    <3>1. stage'[k] = stage[k] /\ (Settling(k)' => Settling(k))
      BY <1>1, <1>2, <1>3, <1>4, <2>1 DEF JobsTyped, Settling
    <3> QED BY <1>1, <1>2, <3>1, JobElse
  <2>2. CASE k = j
    <3>1. ~Settling(k)'
      BY <1>4, <2>2 DEF Settling
    <3> QED BY <1>1, <1>2, <1>5, <2>2, <3>1 DEF JobOK, Survives
  <2> QED BY <2>1, <2>2
<1>8. StepOK'
  BY <1>2, <1>4, <1>5 DEF StepOK
<1> QED BY <1>6, <1>7, <1>8 DEF CapacityStep, CapacityState

LEMMA CapacityJournal ==
    ASSUME Capacity!CapacityAssumption, CapacityState, Capacity!WriteJournal
    PROVE  CapacityStep
<1> USE CapacityNames
<1>1. JobsTyped /\ ServerTyped /\ OpOK /\ (\A k \in Jobs : JobOK(k)) /\ StepOK
  BY DEF CapacityState
<1>2. PICK l \in {"identity", "stage"} :
         /\ op.pc = IF l = "identity" THEN "journal" ELSE "mark"
         /\ Capacity!Goto(l)
         /\ \E s \in {"prepared", "published"} : jrn' = [jrn EXCEPT ![op.on] = s]
         /\ UNCHANGED <<job, bytes, pend, stage, ident, kept, told, zip, other, up, boot, faults>>
  BY DEF Capacity!WriteJournal, Capacity!At
<1>3. PICK j \in Jobs : j = op.on /\ op.kind = "create"
  BY <1>1, <1>2 DEF OpOK, ServerTyped, Ops, Works, Rest
<1>4. op' \in Ops /\ op'.pc = l /\ op'.kind = "create" /\ op'.on = j /\ op'.proc = op.proc
  <2>1. l \in Tasks
    BY DEF Tasks
  <2> QED BY <1>1, <1>2, <1>3, <2>1, OpSteps
<1>5. /\ told[j] = "none" /\ job[j] = IF l = "identity" THEN "none" ELSE "live"
      /\ jrn'[j] # "none"
  <2>1. /\ told[j] = "none" /\ job[j] = IF l = "identity" THEN "none" ELSE "live"
    BY <1>1, <1>2, <1>3 DEF StepOK
  <2>2. jrn'[j] # "none"
    BY <1>1, <1>2, <1>3 DEF JobsTyped
  <2> QED BY <2>1, <2>2
<1>6. JobsTyped' /\ ServerTyped' /\ OpOK'
  BY <1>1, <1>2, <1>3, <1>4 DEF JobsTyped, ServerTyped, OpOK
<1>7. \A k \in Jobs : JobOK(k)' /\ Survives(k)
  <2> SUFFICES ASSUME NEW k \in Jobs PROVE JobOK(k)' /\ Survives(k)
    OBVIOUS
  <2>1. CASE k # j
    <3>1. jrn'[k] = jrn[k] /\ (Settling(k)' => Settling(k))
      BY <1>1, <1>2, <1>3, <1>4, <2>1 DEF JobsTyped, Settling
    <3> QED BY <1>1, <1>2, <3>1, JobElse
  <2>2. CASE k = j
    <3>1. ~Settling(k)'
      BY <1>4, <2>2 DEF Settling
    <3> QED BY <1>1, <1>2, <1>5, <2>2, <3>1 DEF JobOK, Survives
  <2> QED BY <2>1, <2>2
<1>8. StepOK'
  BY <1>2, <1>4, <1>5 DEF StepOK
<1> QED BY <1>6, <1>7, <1>8 DEF CapacityStep, CapacityState

\* A step at one job that leaves the others alone.
LEMMA CapacityAt ==
    ASSUME CapacityState, NEW j \in Jobs, op.kind \in {"create", "undo"} => op.on = j,
           boot' = boot,
           \A k \in Jobs \ {j} :
               /\ job'[k] = job[k] /\ stage'[k] = stage[k] /\ jrn'[k] = jrn[k]
               /\ ident'[k] = ident[k] /\ kept'[k] = kept[k] /\ told'[k] = told[k],
           JobsTyped', ServerTyped', OpOK', JobOK(j)', Survives(j), StepOK'
    PROVE  CapacityStep
<1>1. JobsTyped /\ \A k \in Jobs : JobOK(k)
  BY DEF CapacityState
<1>2. \A k \in Jobs : JobOK(k)' /\ Survives(k)
  <2> SUFFICES ASSUME NEW k \in Jobs, k # j PROVE JobOK(k)' /\ Survives(k)
    OBVIOUS
  <2>1. Settling(k)' => Settling(k)
    BY DEF Settling
  <2> QED BY <1>1, <2>1, JobElse
<1> QED BY <1>2 DEF CapacityStep, CapacityState

LEMMA CapacityIdentity ==
    ASSUME Capacity!CapacityAssumption, CapacityState, Capacity!EnsureIdentity
    PROVE  CapacityStep
<1> USE CapacityNames
<1>1. JobsTyped /\ ServerTyped /\ OpOK /\ (\A k \in Jobs : JobOK(k)) /\ StepOK
  BY DEF CapacityState
<1>2. PICK l \in {"stage", "publish"} :
         /\ op.pc = "identity" /\ Capacity!Goto(l)
         /\ l = "stage" <=> job[op.on] = "live"
         /\ ident' = [ident EXCEPT ![op.on] = TRUE]
         /\ UNCHANGED <<job, bytes, pend, stage, jrn, kept, told, zip, other, up, boot, faults>>
  BY DEF Capacity!EnsureIdentity, Capacity!At
<1>3. PICK j \in Jobs : j = op.on /\ op.kind \in {"create", "recover"}
  BY <1>1, <1>2 DEF OpOK, ServerTyped, Ops, Works, Rest
<1>4. op' \in Ops /\ op'.pc = l /\ op'.kind = op.kind /\ op'.on = j /\ op'.proc = op.proc
  <2>1. l \in Tasks
    BY DEF Tasks
  <2> QED BY <1>1, <1>2, <1>3, <2>1, OpSteps
<1>5. /\ jrn[j] # "none" /\ (op.kind = "create" => job[j] = "none" /\ told[j] = "none")
      /\ ident'[j] = TRUE
  BY <1>1, <1>2, <1>3 DEF StepOK, JobsTyped
<1>6. JobsTyped' /\ ServerTyped' /\ OpOK'
  BY <1>1, <1>2, <1>3, <1>4 DEF JobsTyped, ServerTyped, OpOK
<1>7. Settling(j)' => Settling(j)
  BY <1>2, <1>3, <1>4 DEF Settling
<1>8. JobOK(j)' /\ Survives(j)
  BY <1>1, <1>2, <1>5, <1>7 DEF JobOK, Survives
<1>9. StepOK'
  BY <1>2, <1>3, <1>4, <1>5 DEF StepOK
<1>10. \A k \in Jobs \ {j} : ident'[k] = ident[k]
  BY <1>1, <1>2, <1>3 DEF JobsTyped
<1> QED BY <1>2, <1>3, <1>6, <1>8, <1>9, <1>10, CapacityAt

LEMMA CapacityPublish ==
    ASSUME Capacity!CapacityAssumption, CapacityState, Capacity!Publish
    PROVE  CapacityStep
<1> USE CapacityNames
<1>1. JobsTyped /\ ServerTyped /\ OpOK /\ (\A k \in Jobs : JobOK(k)) /\ StepOK
  BY DEF CapacityState
<1>2. PICK l \in {"mark", "stage"} :
         /\ op.pc = "publish" /\ Capacity!Goto(l)
         /\ l = "mark" <=> op.kind = "create"
         /\ job' = [job EXCEPT ![op.on] = "live"]
         /\ stage' = [stage EXCEPT ![op.on] = "dir"]
         /\ UNCHANGED <<bytes, pend, jrn, ident, kept, told, zip, other, up, boot, faults>>
  BY DEF Capacity!Publish, Capacity!At
<1>3. PICK j \in Jobs : j = op.on /\ op.kind \in {"create", "recover"}
  BY <1>1, <1>2 DEF OpOK, ServerTyped, Ops, Works, Rest
<1>4. op' \in Ops /\ op'.pc = l /\ op'.kind = op.kind /\ op'.on = j /\ op'.proc = op.proc
  <2>1. l \in Tasks
    BY DEF Tasks
  <2> QED BY <1>1, <1>2, <1>3, <2>1, OpSteps
<1>5. /\ jrn[j] # "none" /\ ident[j] = TRUE /\ (op.kind = "create" => told[j] = "none")
      /\ job'[j] = "live" /\ stage'[j] = "dir"
  BY <1>1, <1>2, <1>3 DEF StepOK, JobsTyped
<1>6. JobsTyped' /\ ServerTyped' /\ OpOK'
  BY <1>1, <1>2, <1>3, <1>4 DEF JobsTyped, ServerTyped, OpOK
<1>7. Settling(j)' => Settling(j)
  BY <1>2, <1>3, <1>4 DEF Settling
<1>8. JobOK(j)' /\ Survives(j)
  BY <1>1, <1>2, <1>5, <1>7 DEF JobOK, Survives
<1>9. StepOK'
  BY <1>2, <1>3, <1>4, <1>5 DEF StepOK
<1>10. \A k \in Jobs \ {j} : job'[k] = job[k] /\ stage'[k] = stage[k]
  BY <1>1, <1>2, <1>3 DEF JobsTyped
<1> QED BY <1>2, <1>3, <1>6, <1>8, <1>9, <1>10, CapacityAt

LEMMA CapacityUnstage ==
    ASSUME Capacity!CapacityAssumption, CapacityState, Capacity!RemoveStage
    PROVE  CapacityStep
<1> USE CapacityNames
<1>1. JobsTyped /\ ServerTyped /\ OpOK /\ (\A k \in Jobs : JobOK(k)) /\ StepOK
  BY DEF CapacityState
<1>2. /\ op.pc = "stage" /\ Capacity!Goto("unjournal")
      /\ stage' = [stage EXCEPT ![op.on] = "none"]
      /\ UNCHANGED <<job, bytes, pend, jrn, ident, kept, told, zip, other, up, boot, faults>>
  BY DEF Capacity!RemoveStage, Capacity!At
<1>3. PICK j \in Jobs : j = op.on /\ op.kind \in {"create", "recover"}
  BY <1>1, <1>2 DEF OpOK, ServerTyped, Ops, Works, Rest
<1>4. /\ op' \in Ops /\ op'.pc = "unjournal" /\ op'.kind = op.kind
      /\ op'.on = j /\ op'.proc = op.proc
  <2>1. "unjournal" \in Tasks
    BY DEF Tasks
  <2> QED BY <1>1, <1>2, <1>3, <2>1, OpSteps
<1>5. /\ jrn[j] # "none" /\ job[j] = "live" /\ (op.kind = "create" => told[j] = "none")
      /\ stage'[j] = "none"
  BY <1>1, <1>2, <1>3 DEF StepOK, JobsTyped
<1>6. JobsTyped' /\ ServerTyped' /\ OpOK'
  BY <1>1, <1>2, <1>3, <1>4 DEF JobsTyped, ServerTyped, OpOK
<1>7. Settling(j)' => Settling(j)
  BY <1>2, <1>3, <1>4 DEF Settling
<1>8. JobOK(j)' /\ Survives(j)
  BY <1>1, <1>2, <1>5, <1>7 DEF JobOK, Survives
<1>9. StepOK'
  BY <1>2, <1>3, <1>4, <1>5 DEF StepOK
<1>10. \A k \in Jobs \ {j} : stage'[k] = stage[k]
  BY <1>1, <1>2, <1>3 DEF JobsTyped
<1> QED BY <1>2, <1>3, <1>6, <1>8, <1>9, <1>10, CapacityAt

\* An operation that ends, and a recovery that goes on to the next journal.
LEMMA OpEnds ==
    ASSUME ServerTyped, OpOK,
           \/ op' = Capacity!Idle
           \/ op.kind = "recover" /\ op' = [op EXCEPT !.on = Capacity!None, !.pc = "next"]
    PROVE  /\ op' \in Ops
           /\ op' = Rest \/ (op'.kind = "recover" /\ op'.pc = "next" /\ op'.on = "none"
                             /\ op'.proc = op.proc /\ op.kind = "recover")
           /\ op'.pc \in {"none", "next"} /\ op'.kind \in {"none", "recover"}
<1>1. CASE op' = Capacity!Idle
  BY <1>1, RestFacts, CapacityNames
<1>2. CASE op.kind = "recover" /\ op' = [op EXCEPT !.on = Capacity!None, !.pc = "next"]
  <2>1. op' = [op EXCEPT !.on = "none", !.pc = "next"] /\ "next" \in Tasks
    BY <1>2, CapacityNames DEF Tasks
  <2> QED BY <1>2, <2>1 DEF ServerTyped, Ops
<1> QED BY <1>1, <1>2

LEMMA CapacityUnjournal ==
    ASSUME Capacity!CapacityAssumption, CapacityState, Capacity!RemoveJournal
    PROVE  CapacityStep
<1> USE CapacityNames
<1>1. JobsTyped /\ ServerTyped /\ OpOK /\ (\A k \in Jobs : JobOK(k)) /\ StepOK
  BY DEF CapacityState
<1>2. /\ op.pc = "unjournal"
      /\ jrn' = [jrn EXCEPT ![op.on] = "none"]
      /\ told' = IF op.kind = "create" THEN [told EXCEPT ![op.on] = "ok"]
                 ELSE IF op.kind = "undo" THEN [told EXCEPT ![op.on] = "error"] ELSE told
      /\ op' = IF op.kind = "recover" THEN [op EXCEPT !.on = Capacity!None, !.pc = "next"] ELSE Capacity!Idle
      /\ UNCHANGED <<job, bytes, pend, stage, ident, kept, zip, other, up, boot, faults>>
  BY DEF Capacity!RemoveJournal, Capacity!At
<1>3. PICK j \in Jobs : j = op.on /\ op.kind \in {"create", "undo", "recover"}
  BY <1>1, <1>2 DEF OpOK, ServerTyped, Ops, Works, Rest
<1>4. /\ op' \in Ops
      /\ op' = Rest \/ (op'.kind = "recover" /\ op'.pc = "next" /\ op'.on = "none"
                        /\ op'.proc = op.proc /\ op.kind = "recover")
      /\ op'.pc \in {"none", "next"} /\ op'.kind \in {"none", "recover"}
  BY <1>1, <1>2, OpEnds
<1>5. /\ stage[j] = "none" /\ (ident[j] => job[j] # "none") /\ jrn'[j] = "none"
      /\ op.kind = "create" => job[j] = "live" /\ told'[j] = "ok"
      /\ op.kind = "undo" => job[j] = "none" /\ told'[j] = "error"
      /\ op.kind = "recover" => told'[j] = told[j]
  BY <1>1, <1>2, <1>3 DEF StepOK, JobsTyped
<1>6. JobsTyped'
  BY <1>1, <1>2, <1>3 DEF JobsTyped
<1>7. ServerTyped' /\ OpOK'
  BY <1>1, <1>2, <1>3, <1>4, RestFacts DEF ServerTyped, OpOK
<1>8. JobOK(j)' /\ Survives(j)
  BY <1>1, <1>2, <1>3, <1>5 DEF JobOK, Survives
<1>9. StepOK'
  BY <1>4 DEF StepOK
<1>10. \A k \in Jobs \ {j} : jrn'[k] = jrn[k] /\ told'[k] = told[k]
  BY <1>1, <1>2, <1>3 DEF JobsTyped
<1> QED BY <1>2, <1>3, <1>6, <1>7, <1>8, <1>9, <1>10, CapacityAt

\* Evidence of the job under work is put aside, and the work on it ends.
LEMMA CapacityKeeps ==
    ASSUME Capacity!CapacityAssumption, CapacityState, NEW j \in Jobs,
           op.kind \in {"create", "undo"} => op.on = j, Capacity!Preserve(j),
           UNCHANGED <<job, ident, boot>>, JobsTyped', ServerTyped', OpOK', StepOK',
           told' \in {told, [told EXCEPT ![j] = "error"]},
           told' = told => op.kind \notin {"create", "undo"},
           op.kind \in {"create", "undo"} => told[j] = "none"
    PROVE  CapacityStep
<1>1. JobsTyped /\ ServerTyped /\ OpOK /\ (\A k \in Jobs : JobOK(k)) /\ StepOK
  BY DEF CapacityState
<1>2. /\ kept' = [kept EXCEPT ![j] = TRUE]
      /\ stage' = [stage EXCEPT ![j] = "none"]
      /\ jrn' = [jrn EXCEPT ![j] = "none"]
  BY DEF Capacity!Preserve
<1>3. kept'[j] = TRUE /\ stage'[j] = "none" /\ jrn'[j] = "none"
  BY <1>1, <1>2 DEF JobsTyped
<1>4. told'[j] \in {told[j], "error"}
  BY <1>1 DEF JobsTyped
<1>5. JobOK(j)' /\ Survives(j)
  BY <1>1, <1>3, <1>4 DEF JobOK, Survives
<1>6. \A k \in Jobs \ {j} :
          kept'[k] = kept[k] /\ stage'[k] = stage[k] /\ jrn'[k] = jrn[k] /\ told'[k] = told[k]
  BY <1>1, <1>2 DEF JobsTyped
<1> QED BY <1>5, <1>6, CapacityAt

LEMMA CapacityFails ==
    ASSUME Capacity!CapacityAssumption, CapacityState, Capacity!CreateError
    PROVE  CapacityStep
<1> USE CapacityNames
<1>1. JobsTyped /\ ServerTyped /\ OpOK /\ (\A k \in Jobs : JobOK(k)) /\ StepOK
  BY DEF CapacityState
<1>2. /\ op.kind = "create" /\ faults < MaxFaults /\ faults' = faults + 1
      /\ UNCHANGED <<job, bytes, pend, ident, zip, other, up, boot>>
  BY DEF Capacity!CreateError
<1>3. PICK j \in Jobs : j = op.on
  BY <1>1, <1>2 DEF OpOK
<1>4. told[j] = "none" /\ op.proc = p1 /\ p1 \in up /\ boot = {}
  BY <1>1, <1>2, <1>3 DEF StepOK, OpOK
<1>5. faults' \in 0..MaxFaults
  BY <1>1, <1>2 DEF ServerTyped, Capacity!CapacityAssumption
<1>6. CASE /\ op.pc = "mkdir"
           /\ (\E made \in {"none", "dir"} : stage' = [stage EXCEPT ![op.on] = made])
           /\ told' = [told EXCEPT ![op.on] = "error"] /\ op' = Capacity!Idle
           /\ UNCHANGED <<jrn, kept>>
  <2>1. op' = Rest /\ Rest \in Ops /\ op'.pc = "none" /\ op'.kind = "none"
    BY <1>6, RestFacts
  <2>2. /\ jrn[j] = "none" /\ job[j] = "none" /\ told'[j] = "error"
        /\ stage'[j] \in {"none", "dir"}
    BY <1>1, <1>3, <1>6 DEF StepOK, JobsTyped
  <2>3. JobsTyped' /\ ServerTyped' /\ OpOK'
    BY <1>1, <1>2, <1>3, <1>5, <1>6, <2>1 DEF JobsTyped, ServerTyped, OpOK
  <2>4. JobOK(j)' /\ Survives(j)
    BY <1>1, <1>2, <1>4, <1>6, <2>2 DEF JobOK, Survives
  <2>5. StepOK'
    BY <2>1 DEF StepOK
  <2>6. \A k \in Jobs \ {j} : stage'[k] = stage[k] /\ told'[k] = told[k]
    BY <1>1, <1>3, <1>6 DEF JobsTyped
  <2> QED BY <1>2, <1>3, <1>6, <2>3, <2>4, <2>5, <2>6, CapacityAt
<1>7. CASE /\ op.pc \in {"mkjob", "record", "journal", "identity", "publish", "mark"}
           /\ op' = [op EXCEPT !.kind = "undo", !.pc = "undo"]
           /\ UNCHANGED <<stage, jrn, kept, told>>
  <2>1. "undo" \in Works /\ "undo" \in Tasks
    BY DEF Works, Tasks
  <2>2. op' \in Ops /\ op'.kind = "undo" /\ op'.pc = "undo" /\ op'.on = j /\ op'.proc = p1
    BY <1>1, <1>3, <1>4, <1>7, <2>1 DEF Ops, ServerTyped
  <2>3. JobsTyped' /\ ServerTyped' /\ OpOK'
    BY <1>1, <1>2, <1>3, <1>4, <1>5, <1>7, <2>2 DEF JobsTyped, ServerTyped, OpOK
  <2>4. JobOK(j)' /\ Survives(j)
    <3>1. ~Settling(j)'
      BY <2>2 DEF Settling
    <3> QED BY <1>1, <1>2, <1>7, <3>1 DEF JobOK, Survives
  <2>5. job[j] = "none" \/ jrn[j] # "none"
    BY <1>1, <1>2, <1>3, <1>7 DEF StepOK
  <2>6. StepOK'
    BY <1>2, <1>4, <1>7, <2>2, <2>5 DEF StepOK
  <2> QED BY <1>2, <1>3, <1>7, <2>3, <2>4, <2>6, CapacityAt
<1>8. CASE /\ op.pc \in {"stage", "unjournal"} /\ Capacity!Preserve(op.on)
           /\ told' = [told EXCEPT ![op.on] = "error"] /\ op' = Capacity!Idle
  <2>1. op' = Rest /\ Rest \in Ops /\ op'.pc = "none" /\ op'.kind = "none"
    BY <1>8, RestFacts
  <2>2. Capacity!Preserve(j) /\ told' = [told EXCEPT ![j] = "error"]
    BY <1>3, <1>8
  <2>3. JobsTyped'
    BY <1>1, <1>2, <2>2 DEF JobsTyped, Capacity!Preserve
  <2>4. ServerTyped' /\ OpOK'
    BY <1>1, <1>2, <1>5, <2>1 DEF ServerTyped, OpOK
  <2>5. StepOK'
    BY <2>1 DEF StepOK
  <2>6. told' # told
    BY <1>1, <1>4, <2>2 DEF JobsTyped
  <2> QED BY <1>2, <1>3, <1>4, <2>2, <2>3, <2>4, <2>5, <2>6, CapacityKeeps
<1> QED BY <1>6, <1>7, <1>8 DEF Capacity!CreateError, Capacity!At

LEMMA CapacityRollback ==
    ASSUME Capacity!CapacityAssumption, CapacityState, Capacity!Rollback
    PROVE  CapacityStep
<1> USE CapacityNames
<1>1. JobsTyped /\ ServerTyped /\ OpOK /\ (\A k \in Jobs : JobOK(k)) /\ StepOK
  BY DEF CapacityState
<1>2. op.pc = "undo" /\ UNCHANGED <<bytes, pend, ident, zip, other, up, boot, faults>>
  BY DEF Capacity!Rollback, Capacity!At
<1>3. PICK j \in Jobs : j = op.on /\ op.kind = "undo"
  BY <1>1, <1>2 DEF OpOK, ServerTyped, Ops, Works, Rest
<1>4. told[j] = "none" /\ op.proc = p1 /\ p1 \in up /\ boot = {} /\ (job[j] # "none" => jrn[j] # "none")
  BY <1>1, <1>3 DEF StepOK, OpOK
<1>5. CASE /\ Capacity!Preserve(op.on) /\ told' = [told EXCEPT ![op.on] = "error"]
           /\ op' = Capacity!Idle /\ UNCHANGED job
  <2>1. op' = Rest /\ Rest \in Ops /\ op'.pc = "none" /\ op'.kind = "none"
    BY <1>5, RestFacts
  <2>2. Capacity!Preserve(j) /\ told' = [told EXCEPT ![j] = "error"]
    BY <1>3, <1>5
  <2>3. JobsTyped'
    BY <1>1, <1>2, <1>5, <2>2 DEF JobsTyped, Capacity!Preserve
  <2>4. ServerTyped' /\ OpOK'
    BY <1>1, <1>2, <2>1 DEF ServerTyped, OpOK
  <2>5. StepOK'
    BY <2>1 DEF StepOK
  <2>6. told' # told
    BY <1>1, <1>4, <2>2 DEF JobsTyped
  <2> QED BY <1>2, <1>3, <1>4, <1>5, <2>2, <2>3, <2>4, <2>5, <2>6, CapacityKeeps
<1>6. CASE /\ job[op.on] = "live" /\ job' = [job EXCEPT ![op.on] = "none"]
           /\ UNCHANGED <<stage, jrn, kept, told, op>>
  <2>1. job'[j] = "none" /\ jrn[j] # "none"
    BY <1>1, <1>3, <1>4, <1>6 DEF JobsTyped
  <2>2. JobsTyped'
    BY <1>1, <1>2, <1>3, <1>6 DEF JobsTyped
  <2>3. ServerTyped' /\ OpOK'
    BY <1>1, <1>2, <1>6 DEF ServerTyped, OpOK
  <2>4. ~Settling(j)'
    BY <1>3, <1>6 DEF Settling
  <2>5. JobOK(j)' /\ Survives(j)
    BY <1>1, <1>2, <1>4, <1>6, <2>1, <2>4 DEF JobOK, Survives
  <2>6. StepOK'
    BY <1>1, <1>2, <1>3, <1>4, <1>6, <2>1 DEF StepOK
  <2>7. \A k \in Jobs \ {j} : job'[k] = job[k]
    BY <1>1, <1>3, <1>6 DEF JobsTyped
  <2> QED BY <1>2, <1>3, <1>6, <2>2, <2>3, <2>5, <2>6, <2>7, CapacityAt
<1>7. CASE /\ job[op.on] = "none" /\ stage' = [stage EXCEPT ![op.on] = "none"]
           /\ Capacity!Goto("unident") /\ UNCHANGED <<job, jrn, kept, told>>
  <2>1. op' \in Ops /\ op'.pc = "unident" /\ op'.kind = "undo" /\ op'.on = j /\ op'.proc = op.proc
    <3>1. "unident" \in Tasks
      BY DEF Tasks
    <3> QED BY <1>1, <1>3, <1>7, <3>1, OpSteps
  <2>2. stage'[j] = "none" /\ job[j] = "none"
    BY <1>1, <1>3, <1>7 DEF JobsTyped
  <2>3. JobsTyped' /\ ServerTyped' /\ OpOK'
    BY <1>1, <1>2, <1>3, <1>4, <1>7, <2>1 DEF JobsTyped, ServerTyped, OpOK
  <2>4. ~Settling(j)'
    BY <2>1 DEF Settling
  <2>5. JobOK(j)' /\ Survives(j)
    BY <1>1, <1>2, <1>3, <1>7, <2>4 DEF JobOK, Survives
  <2>6. StepOK'
    BY <1>4, <1>7, <2>1, <2>2 DEF StepOK
  <2>7. \A k \in Jobs \ {j} : stage'[k] = stage[k]
    BY <1>1, <1>3, <1>7 DEF JobsTyped
  <2> QED BY <1>2, <1>3, <1>7, <2>3, <2>5, <2>6, <2>7, CapacityAt
<1> QED BY <1>5, <1>6, <1>7 DEF Capacity!Rollback

LEMMA CapacityUnident ==
    ASSUME Capacity!CapacityAssumption, CapacityState, Capacity!RollbackIdentity
    PROVE  CapacityStep
<1> USE CapacityNames
<1>1. JobsTyped /\ ServerTyped /\ OpOK /\ (\A k \in Jobs : JobOK(k)) /\ StepOK
  BY DEF CapacityState
<1>2. /\ op.pc = "unident" /\ Capacity!Goto("unjournal")
      /\ ident' = [ident EXCEPT ![op.on] = @ /\ job[op.on] # "none"]
      /\ UNCHANGED <<job, bytes, pend, stage, jrn, kept, told, zip, other, up, boot, faults>>
  BY DEF Capacity!RollbackIdentity, Capacity!At
<1>3. PICK j \in Jobs : j = op.on /\ op.kind = "undo"
  BY <1>1, <1>2 DEF OpOK, ServerTyped, Ops, Works, Rest
<1>4. /\ op' \in Ops /\ op'.pc = "unjournal" /\ op'.kind = "undo"
      /\ op'.on = j /\ op'.proc = op.proc
  <2>1. "unjournal" \in Tasks
    BY DEF Tasks
  <2> QED BY <1>1, <1>2, <1>3, <2>1, OpSteps
<1>5. told[j] = "none" /\ job[j] = "none" /\ stage[j] = "none"
  BY <1>1, <1>2, <1>3 DEF StepOK
<1>6. ident' \in [Jobs -> BOOLEAN] /\ ident'[j] = FALSE /\ \A k \in Jobs \ {j} : ident'[k] = ident[k]
  BY <1>1, <1>2, <1>3, <1>5 DEF JobsTyped
<1>7. JobsTyped' /\ ServerTyped' /\ OpOK'
  BY <1>1, <1>2, <1>3, <1>4, <1>6 DEF JobsTyped, ServerTyped, OpOK
<1>8. ~Settling(j)'
  BY <1>4 DEF Settling
<1>9. JobOK(j)' /\ Survives(j)
  BY <1>1, <1>2, <1>5, <1>6, <1>8 DEF JobOK, Survives
<1>10. StepOK'
  BY <1>2, <1>4, <1>5, <1>6 DEF StepOK
<1> QED BY <1>2, <1>3, <1>6, <1>7, <1>9, <1>10, CapacityAt

LEMMA CapacityGivesUp ==
    ASSUME Capacity!CapacityAssumption, CapacityState, Capacity!UndoError
    PROVE  CapacityStep
<1> USE CapacityNames
<1>1. JobsTyped /\ ServerTyped /\ OpOK /\ (\A k \in Jobs : JobOK(k)) /\ StepOK
  BY DEF CapacityState
<1>2. /\ op.kind \in {"undo", "recover"} /\ op.on # "none"
      /\ faults < MaxFaults /\ faults' = faults + 1
      /\ Capacity!Preserve(op.on)
      /\ UNCHANGED <<job, bytes, pend, ident, zip, other, up, boot>>
      /\ IF op.kind = "undo"
         THEN told' = [told EXCEPT ![op.on] = "error"] /\ op' = Capacity!Idle
         ELSE op' = [op EXCEPT !.on = Capacity!None, !.pc = "next"] /\ UNCHANGED told
  BY DEF Capacity!UndoError
<1>3. PICK j \in Jobs : j = op.on
  BY <1>1, <1>2 DEF OpOK
<1>4. /\ op' \in Ops
      /\ op' = Rest \/ (op'.kind = "recover" /\ op'.pc = "next" /\ op'.on = "none"
                        /\ op'.proc = op.proc /\ op.kind = "recover")
      /\ op'.pc \in {"none", "next"} /\ op'.kind \in {"none", "recover"}
  BY <1>1, <1>2, OpEnds
<1>5. faults' \in 0..MaxFaults
  BY <1>1, <1>2 DEF ServerTyped, Capacity!CapacityAssumption
<1>6. Capacity!Preserve(j)
  BY <1>2, <1>3
<1>7. JobsTyped'
  BY <1>1, <1>2, <1>3, <1>6 DEF JobsTyped, Capacity!Preserve
<1>8. ServerTyped' /\ OpOK'
  BY <1>1, <1>2, <1>4, <1>5, RestFacts DEF ServerTyped, OpOK
<1>9. StepOK'
  BY <1>4 DEF StepOK
<1>10. op.kind = "undo" => told[j] = "none"
  BY <1>1, <1>3 DEF StepOK
<1>11. /\ told' \in {told, [told EXCEPT ![j] = "error"]}
       /\ told' = told => op.kind \notin {"create", "undo"}
  BY <1>1, <1>2, <1>3, <1>10 DEF JobsTyped
<1> QED BY <1>2, <1>3, <1>6, <1>7, <1>8, <1>9, <1>10, <1>11, CapacityKeeps

\* A step that leaves every job as it is.
LEMMA CapacityAside ==
    ASSUME CapacityState, UNCHANGED <<job, stage, jrn, ident, kept, told>>,
           JobsTyped', ServerTyped', OpOK', StepOK', \A j \in Jobs : Settling(j)' => Settling(j)
    PROVE  CapacityStep
<1>1. JobsTyped /\ \A k \in Jobs : JobOK(k)
  BY DEF CapacityState
<1>2. \A k \in Jobs : JobOK(k)' /\ Survives(k)
  BY <1>1, JobElse
<1> QED BY <1>2 DEF CapacityStep, CapacityState

LEMMA CapacityRecover ==
    ASSUME Capacity!CapacityAssumption, CapacityState, Capacity!Recover(p1)
    PROVE  CapacityStep
<1> USE CapacityNames
<1>1. JobsTyped /\ ServerTyped /\ OpOK /\ (\A k \in Jobs : JobOK(k)) /\ StepOK
  BY DEF CapacityState
<1>2. /\ op = Rest /\ p1 \in up /\ boot' = boot
      /\ UNCHANGED <<job, bytes, pend, stage, jrn, ident, kept, zip, told, other, up, faults>>
  BY DEF Capacity!Recover, Capacity!disk
<1>3. op' \in Ops /\ op'.proc = p1 /\ op'.kind = "recover" /\ op'.on = "none" /\ op'.pc = "next"
  <2>1. op' = [proc |-> p1, kind |-> "recover", on |-> "none", pc |-> "next", n |-> 0]
    BY DEF Capacity!Recover, Rest
  <2>2. "recover" \in Works /\ "next" \in Tasks
    BY DEF Works, Tasks
  <2> QED BY <2>1, <2>2 DEF Ops
<1>4. JobsTyped' /\ ServerTyped' /\ OpOK'
  BY <1>1, <1>2, <1>3 DEF JobsTyped, ServerTyped, OpOK
<1>5. StepOK'
  BY <1>3 DEF StepOK
<1>6. \A j \in Jobs : Settling(j)' => Settling(j)
  BY <1>2, RestFacts DEF Settling
<1> QED BY <1>2, <1>4, <1>5, <1>6, CapacityAside

LEMMA CapacityJournals ==
    ASSUME Capacity!CapacityAssumption, CapacityState, NEW j \in Jobs, Capacity!RecoverCreate(j)
    PROVE  CapacityStep
<1> USE CapacityNames
<1>1. JobsTyped /\ ServerTyped /\ OpOK /\ (\A k \in Jobs : JobOK(k)) /\ StepOK
  BY DEF CapacityState
<1>2. /\ op.pc = "next" /\ jrn[j] # "none"
      /\ UNCHANGED <<job, bytes, pend, told, zip, other, up, boot, faults>>
  BY DEF Capacity!RecoverCreate, Capacity!At
<1>3. op.kind = "recover" /\ op.on = "none" /\ op.proc = p1 /\ p1 \in up
  BY <1>1, <1>2 DEF OpOK, ServerTyped, Ops, Works, Rest
<1>4. ASSUME NEW l \in Tasks, op' = [op EXCEPT !.on = j, !.pc = l]
      PROVE  op' \in Ops /\ op'.pc = l /\ op'.kind = "recover" /\ op'.on = j /\ op'.proc = p1
  BY <1>1, <1>3, <1>4 DEF ServerTyped, Ops
<1>5. CASE /\ job[j] = "live" \/ stage[j] = "full"
           /\ op' = [op EXCEPT !.on = j, !.pc = "identity"]
           /\ UNCHANGED <<stage, jrn, kept, ident>>
  <2>1. op' \in Ops /\ op'.pc = "identity" /\ op'.kind = "recover" /\ op'.on = j /\ op'.proc = p1
    BY <1>4, <1>5 DEF Tasks
  <2>2. JobsTyped' /\ ServerTyped' /\ OpOK'
    BY <1>1, <1>2, <1>3, <1>5, <2>1 DEF JobsTyped, ServerTyped, OpOK
  <2>3. StepOK'
    BY <1>2, <1>5, <2>1 DEF StepOK
  <2>4. \A k \in Jobs : Settling(k)' => Settling(k)
    BY <1>2, <1>3 DEF Settling
  <2> QED BY <1>2, <1>5, <2>2, <2>3, <2>4, CapacityAside
<1>6. CASE /\ job[j] # "live" /\ stage[j] = "none"
           /\ ident' = [ident EXCEPT ![j] = FALSE]
           /\ op' = [op EXCEPT !.on = j, !.pc = "unjournal"]
           /\ UNCHANGED <<stage, jrn, kept>>
  <2>1. op' \in Ops /\ op'.pc = "unjournal" /\ op'.kind = "recover" /\ op'.on = j /\ op'.proc = p1
    BY <1>4, <1>6 DEF Tasks
  <2>2. ident' \in [Jobs -> BOOLEAN] /\ ident'[j] = FALSE /\ \A k \in Jobs \ {j} : ident'[k] = ident[k]
    BY <1>1, <1>6 DEF JobsTyped
  <2>3. JobsTyped' /\ ServerTyped' /\ OpOK'
    BY <1>1, <1>2, <1>3, <1>6, <2>1, <2>2 DEF JobsTyped, ServerTyped, OpOK
  <2>4. StepOK'
    BY <1>2, <1>6, <2>1, <2>2 DEF StepOK
  <2>5. Settling(j)' => Settling(j)
    BY <1>2, <1>3 DEF Settling
  <2>6. JobOK(j)' /\ Survives(j)
    BY <1>1, <1>2, <1>6, <2>2, <2>5 DEF JobOK, Survives
  <2> QED BY <1>2, <1>3, <1>6, <2>2, <2>3, <2>4, <2>6, CapacityAt
<1>7. CASE Capacity!Preserve(j) /\ UNCHANGED <<op, ident>>
  <2>1. JobsTyped'
    BY <1>1, <1>2, <1>7 DEF JobsTyped, Capacity!Preserve
  <2>2. ServerTyped' /\ OpOK'
    BY <1>1, <1>2, <1>7 DEF ServerTyped, OpOK
  <2>3. StepOK'
    BY <1>2, <1>3, <1>7 DEF StepOK
  <2> QED BY <1>2, <1>3, <1>7, <2>1, <2>2, <2>3, CapacityKeeps
<1> QED BY <1>5, <1>6, <1>7 DEF Capacity!RecoverCreate

LEMMA CapacityWrites ==
    ASSUME Capacity!CapacityAssumption, CapacityState, NEW j \in Jobs, Capacity!RecoverWrite(j)
    PROVE  CapacityStep
<1> USE CapacityNames
<1>1. JobsTyped /\ ServerTyped /\ OpOK /\ StepOK
  BY DEF CapacityState
<1>2. PICK n \in {bytes[j], pend[j]} :
         /\ bytes' = [bytes EXCEPT ![j] = IF job[j] = "live" THEN n ELSE @]
         /\ pend' = [pend EXCEPT ![j] = 0]
         /\ UNCHANGED <<job, stage, jrn, ident, kept, told, zip, other, up, boot, op, faults>>
  BY DEF Capacity!RecoverWrite
<1>3. JobsTyped'
  BY <1>1, <1>2 DEF JobsTyped
<1>4. ServerTyped' /\ OpOK' /\ StepOK'
  BY <1>1, <1>2 DEF ServerTyped, OpOK, StepOK
<1>5. \A k \in Jobs : Settling(k)' => Settling(k)
  BY <1>2 DEF Settling
<1> QED BY <1>2, <1>3, <1>4, <1>5, CapacityAside

LEMMA CapacityOrphans ==
    ASSUME Capacity!CapacityAssumption, CapacityState, NEW j \in Jobs,
           Capacity!RecoverOrphanStage(j)
    PROVE  CapacityStep
<1> USE CapacityNames
<1>1. JobsTyped /\ ServerTyped /\ OpOK /\ (\A k \in Jobs : JobOK(k)) /\ StepOK
  BY DEF CapacityState
<1>2. /\ op.pc = "next" /\ Capacity!Preserve(j)
      /\ UNCHANGED <<job, bytes, pend, ident, told, zip, other, up, boot, op, faults>>
  BY DEF Capacity!RecoverOrphanStage, Capacity!At
<1>3. op.kind = "recover"
  BY <1>1, <1>2 DEF OpOK, ServerTyped, Ops, Works, Rest
<1>4. JobsTyped'
  BY <1>1, <1>2 DEF JobsTyped, Capacity!Preserve
<1>5. ServerTyped' /\ OpOK'
  BY <1>1, <1>2 DEF ServerTyped, OpOK
<1>6. StepOK'
  BY <1>2, <1>3 DEF StepOK
<1> QED BY <1>2, <1>3, <1>4, <1>5, <1>6, CapacityKeeps

LEMMA CapacityRecovered ==
    ASSUME Capacity!CapacityAssumption, CapacityState, Capacity!RecoverDone
    PROVE  CapacityStep
<1> USE CapacityNames
<1>1. JobsTyped /\ ServerTyped /\ OpOK /\ (\A k \in Jobs : JobOK(k)) /\ StepOK
  BY DEF CapacityState
<1>2. /\ op' = Rest /\ boot' = boot \ {op.proc}
      /\ \A k \in Jobs : jrn[k] = "none" /\ stage[k] = "none"
      /\ UNCHANGED <<job, bytes, pend, stage, jrn, ident, kept, zip, told, other, up, faults>>
  BY DEF Capacity!RecoverDone, Capacity!disk
<1>3. JobsTyped' /\ ServerTyped' /\ OpOK'
  BY <1>1, <1>2, RestFacts DEF JobsTyped, ServerTyped, OpOK
<1>4. StepOK'
  BY <1>2, RestFacts DEF StepOK
<1>5. \A k \in Jobs : JobOK(k)' /\ Survives(k)
  BY <1>1, <1>2 DEF JobOK, Survives
<1> QED BY <1>3, <1>4, <1>5 DEF CapacityStep, CapacityState

\* The operations of a server that has recovered.
LEMMA CapacityServes ==
    ASSUME CapacityState, Capacity!Serving(p1)
    PROVE  op = Rest /\ p1 \in up /\ boot = {} /\ \A j \in Jobs : Settling(j) /\ jrn[j] = "none"
<1>1. op = Rest /\ p1 \in up /\ boot = {}
  BY CapacityNames DEF Capacity!Serving, CapacityState, ServerTyped
<1>2. \A j \in Jobs : Settling(j)
  BY <1>1, RestFacts DEF Settling
<1> QED BY <1>1, <1>2 DEF CapacityState, JobOK

LEMMA CapacityArtifacts ==
    ASSUME Capacity!CapacityAssumption, CapacityState, NEW j \in Jobs, NEW n \in Sizes,
           Capacity!WriteBytes(p1, j, n) \/ Capacity!WriteBytesCrash(p1, j, n)
    PROVE  CapacityStep
<1> USE CapacityNames
<1>1. JobsTyped /\ ServerTyped /\ OpOK /\ StepOK
  BY DEF CapacityState
<1>2. /\ Capacity!Serving(p1)
      /\ UNCHANGED <<job, stage, jrn, ident, kept, told, zip, other, boot, op>>
      /\ \/ bytes' = [bytes EXCEPT ![j] = n] /\ UNCHANGED <<pend, up, faults>>
         \/ /\ pend' = [pend EXCEPT ![j] = n] /\ up' = up \ {p1} /\ UNCHANGED bytes
            /\ faults < MaxFaults /\ faults' = faults + 1
  BY DEF Capacity!WriteBytes, Capacity!WriteBytesCrash
<1>3. op = Rest
  BY <1>2, CapacityServes
<1>4. JobsTyped'
  BY <1>1, <1>2 DEF JobsTyped
<1>5. ServerTyped'
  BY <1>1, <1>2 DEF ServerTyped, Capacity!CapacityAssumption
<1>6. OpOK' /\ StepOK'
  BY <1>1, <1>2, <1>3, RestFacts DEF OpOK, StepOK
<1>7. \A k \in Jobs : Settling(k)' => Settling(k)
  BY <1>2 DEF Settling
<1> QED BY <1>2, <1>4, <1>5, <1>6, <1>7, CapacityAside

LEMMA CapacityMoves ==
    ASSUME Capacity!CapacityAssumption, CapacityState, NEW j \in Jobs,
           \/ Capacity!Quarantine(p1, j) \/ Capacity!RestoreQuarantine(p1, j)
           \/ Capacity!DeleteJob(p1, j)
    PROVE  CapacityStep
<1> USE CapacityNames
<1>1. JobsTyped /\ ServerTyped /\ OpOK /\ (\A k \in Jobs : JobOK(k)) /\ StepOK
  BY DEF CapacityState
<1>2. /\ Capacity!Serving(p1)
      /\ UNCHANGED <<pend, stage, jrn, kept, zip, other, up, boot, op, faults>>
  BY DEF Capacity!Quarantine, Capacity!RestoreQuarantine, Capacity!DeleteJob
<1>3. op = Rest /\ Settling(j) /\ jrn[j] = "none"
  BY <1>2, CapacityServes
<1>4. op' \in Ops
  BY <1>1, <1>2 DEF ServerTyped
<1>5. ServerTyped' /\ OpOK' /\ StepOK'
  BY <1>1, <1>2, <1>3, RestFacts DEF ServerTyped, OpOK, StepOK
<1>6. CASE Capacity!Quarantine(p1, j)
  <2>1. /\ job[j] = "live" /\ job' = [job EXCEPT ![j] = "quar"]
        /\ UNCHANGED <<bytes, ident, told>>
    BY <1>6 DEF Capacity!Quarantine
  <2>2. /\ job' \in [Jobs -> {"none", "live", "quar"}] /\ job'[j] = "quar"
        /\ \A k \in Jobs \ {j} : job'[k] = job[k]
    BY <1>1, <2>1 DEF JobsTyped
  <2>3. JobsTyped'
    BY <1>1, <1>2, <2>1, <2>2 DEF JobsTyped
  <2>4. JobOK(j)' /\ Survives(j)
    BY <1>1, <1>2, <1>3, <2>1, <2>2 DEF JobOK, Survives
  <2> QED BY <1>2, <1>3, <1>5, <2>1, <2>2, <2>3, <2>4, RestFacts, CapacityAt
<1>7. CASE Capacity!RestoreQuarantine(p1, j)
  <2>1. /\ job[j] = "quar" /\ job' = [job EXCEPT ![j] = "live"]
        /\ ident' = [ident EXCEPT ![j] = TRUE] /\ UNCHANGED <<bytes, told>>
    BY <1>7 DEF Capacity!RestoreQuarantine
  <2>2. /\ job' \in [Jobs -> {"none", "live", "quar"}] /\ job'[j] = "live"
        /\ ident' \in [Jobs -> BOOLEAN] /\ ident'[j] = TRUE
        /\ \A k \in Jobs \ {j} : job'[k] = job[k] /\ ident'[k] = ident[k]
    BY <1>1, <2>1 DEF JobsTyped
  <2>3. JobsTyped'
    BY <1>1, <1>2, <2>1, <2>2 DEF JobsTyped
  <2>4. JobOK(j)' /\ Survives(j)
    BY <1>1, <1>2, <1>3, <2>1, <2>2 DEF JobOK, Survives
  <2> QED BY <1>2, <1>3, <1>5, <2>1, <2>2, <2>3, <2>4, RestFacts, CapacityAt
<1>8. CASE Capacity!DeleteJob(p1, j)
  <2>1. /\ job[j] = "live" /\ job' = [job EXCEPT ![j] = "none"]
        /\ bytes' = [bytes EXCEPT ![j] = 0]
        /\ ident' = [ident EXCEPT ![j] = FALSE] /\ told' = [told EXCEPT ![j] = "deleted"]
    BY <1>8 DEF Capacity!DeleteJob
  <2>2. /\ job' \in [Jobs -> {"none", "live", "quar"}] /\ job'[j] = "none"
        /\ ident' \in [Jobs -> BOOLEAN] /\ ident'[j] = FALSE
        /\ told' \in [Jobs -> {"none", "ok", "error", "deleted"}] /\ told'[j] = "deleted"
        /\ bytes' \in [Jobs -> Sizes \cup {0}]
        /\ \A k \in Jobs \ {j} : job'[k] = job[k] /\ ident'[k] = ident[k] /\ told'[k] = told[k]
    BY <1>1, <2>1 DEF JobsTyped
  <2>3. JobsTyped'
    BY <1>1, <1>2, <2>1, <2>2 DEF JobsTyped
  <2>4. JobOK(j)' /\ Survives(j)
    BY <1>1, <1>2, <1>3, <2>1, <2>2 DEF JobOK, Survives
  <2> QED BY <1>2, <1>3, <1>5, <2>2, <2>3, <2>4, RestFacts, CapacityAt
<1> QED BY <1>6, <1>7, <1>8

LEMMA SizesCount ==
    ASSUME Capacity!CapacityAssumption
    PROVE  \A n \in Sizes \cup {0} : n \in Nat
<1> SUFFICES ASSUME NEW n \in Sizes PROVE n \in Nat
  OBVIOUS
<1>1. Sizes \subseteq Nat
  BY DEF Capacity!CapacityAssumption
<1> QED BY <1>1

LEMMA CapacityBundles ==
    ASSUME Capacity!CapacityAssumption, CapacityState,
           \/ \E j \in Jobs, b \in Bundles : Capacity!CreateBundle(p1, j, b)
           \/ Capacity!PublishBundle
           \/ \E b \in Bundles : Capacity!RemoveBundle(p1, b)
           \/ Capacity!OtherUses
    PROVE  CapacityStep
<1> USE CapacityNames
<1>1. JobsTyped /\ ServerTyped /\ OpOK /\ StepOK
  BY DEF CapacityState
<1>2. UNCHANGED <<job, bytes, pend, stage, jrn, ident, kept, told, up, boot, faults>>
  BY DEF Capacity!CreateBundle, Capacity!PublishBundle, Capacity!RemoveBundle,
         Capacity!OtherUses,
         Capacity!disk
<1>3. JobsTyped'
  BY <1>1, <1>2 DEF JobsTyped
<1>4. CASE \E j \in Jobs, b \in Bundles : Capacity!CreateBundle(p1, j, b)
  <2>1. PICK j \in Jobs, b \in Bundles : Capacity!CreateBundle(p1, j, b)
    BY <1>4
  <2>2. Capacity!Serving(p1) /\ UNCHANGED <<zip, other>>
    BY <2>1 DEF Capacity!CreateBundle, Capacity!disk
  <2>3. bytes[j] \in Nat
    BY <1>1, <2>1, SizesCount DEF JobsTyped
  <2>4. PICK n \in Nat :
           op' = [proc |-> p1, kind |-> "bundle", on |-> b, pc |-> "measure", n |-> n]
    <3>1. \A n \in 1..(bytes[j] + 1) : n \in Nat
      BY <2>3
    <3> QED BY <2>1, <3>1 DEF Capacity!CreateBundle, Capacity!UpperBound
  <2>5. op' \in Ops /\ op'.kind = "bundle" /\ op'.pc = "measure" /\ op'.on = b /\ op'.proc = p1
    <3>1. "bundle" \in Works /\ "measure" \in Tasks
      BY DEF Works, Tasks
    <3> QED BY <2>4, <3>1 DEF Ops
  <2>6. op = Rest /\ p1 \in up
    BY <2>2, CapacityServes
  <2>7. ServerTyped' /\ OpOK'
    BY <1>1, <1>2, <2>2, <2>5, <2>6 DEF ServerTyped, OpOK
  <2>8. StepOK'
    BY <2>5 DEF StepOK
  <2>9. \A k \in Jobs : Settling(k)' => Settling(k)
    BY <1>2, <2>6, RestFacts DEF Settling
  <2> QED BY <1>2, <1>3, <2>7, <2>8, <2>9, CapacityAside
<1>5. CASE Capacity!PublishBundle
  <2>1. /\ op.pc = "measure" /\ op' = Rest /\ UNCHANGED other
        /\ \E n \in {op.n, 0} : zip' = [zip EXCEPT ![op.on] = n]
    BY <1>5 DEF Capacity!PublishBundle, Capacity!At
  <2>2. op.kind = "bundle" /\ op.on \in Bundles /\ op.n \in Nat
    BY <1>1, <2>1 DEF OpOK, ServerTyped, Ops, Works, Rest
  <2>3. zip' \in [Bundles -> Nat]
    BY <1>1, <2>1, <2>2 DEF ServerTyped
  <2>4. ServerTyped' /\ OpOK'
    BY <1>1, <1>2, <2>1, <2>3, RestFacts DEF ServerTyped, OpOK
  <2>5. StepOK'
    BY <2>1, RestFacts DEF StepOK
  <2>6. \A k \in Jobs : Settling(k)' => Settling(k)
    BY <1>2, <2>2 DEF Settling
  <2> QED BY <1>2, <1>3, <2>4, <2>5, <2>6, CapacityAside
<1>6. CASE (\E b \in Bundles : Capacity!RemoveBundle(p1, b)) \/ Capacity!OtherUses
  <2>1. /\ UNCHANGED op
        /\ zip' \in [Bundles -> Nat] /\ other' \in Nat
    <3>1. CASE \E b \in Bundles : Capacity!RemoveBundle(p1, b)
      BY <1>1, <3>1 DEF Capacity!RemoveBundle, ServerTyped
    <3>2. CASE Capacity!OtherUses
      BY <1>1, <3>2 DEF Capacity!OtherUses, Capacity!disk, ServerTyped
    <3> QED BY <1>6, <3>1, <3>2
  <2>2. ServerTyped' /\ OpOK' /\ StepOK'
    BY <1>1, <1>2, <2>1 DEF ServerTyped, OpOK, StepOK
  <2>3. \A k \in Jobs : Settling(k)' => Settling(k)
    BY <1>2, <2>1 DEF Settling
  <2> QED BY <1>2, <1>3, <2>2, <2>3, CapacityAside
<1> QED BY <1>4, <1>5, <1>6

LEMMA CapacityRestarts ==
    ASSUME Capacity!CapacityAssumption, CapacityState,
           Capacity!Crash(p1) \/ Capacity!Restart(p1)
    PROVE  CapacityStep
<1> USE CapacityNames
<1>1. JobsTyped /\ ServerTyped /\ OpOK /\ (\A k \in Jobs : JobOK(k)) /\ StepOK
  BY DEF CapacityState
<1>2. /\ boot' = boot \cup {p1}
      /\ UNCHANGED <<job, bytes, pend, stage, jrn, ident, kept, zip, told, other>>
  BY DEF Capacity!Crash, Capacity!Restart, Capacity!disk
<1>3. op' = Rest
  <2>1. CASE Capacity!Crash(p1)
    BY <1>1, <2>1 DEF Capacity!Crash, OpOK
  <2>2. CASE Capacity!Restart(p1)
    BY <1>1, <2>2 DEF Capacity!Restart, OpOK
  <2> QED BY <2>1, <2>2
<1>4. up' \in SUBSET {p1} /\ boot' \in SUBSET {p1} /\ faults' \in 0..MaxFaults
  BY <1>1, <1>2 DEF Capacity!Crash, Capacity!Restart, ServerTyped, Capacity!CapacityAssumption
<1>5. JobsTyped' /\ ServerTyped' /\ OpOK'
  BY <1>1, <1>2, <1>3, <1>4, RestFacts DEF JobsTyped, ServerTyped, OpOK
<1>6. StepOK'
  BY <1>3, RestFacts DEF StepOK
<1>7. \A k \in Jobs : Settling(k)' => Settling(k)
  BY <1>2 DEF Settling
<1> QED BY <1>2, <1>5, <1>6, <1>7, CapacityAside

\* The create transaction keeps its invariant in every step, and ends well.
LEMMA CapacityInit ==
    ASSUME Capacity!CapacityAssumption, Capacity!Init
    PROVE  CapacityState
<1>1. /\ job = [j \in Jobs |-> "none"] /\ bytes = [j \in Jobs |-> 0]
      /\ pend = [j \in Jobs |-> 0]
      /\ stage = [j \in Jobs |-> "none"] /\ jrn = [j \in Jobs |-> "none"]
      /\ ident = [j \in Jobs |-> FALSE] /\ kept = [j \in Jobs |-> FALSE]
      /\ told = [j \in Jobs |-> "none"] /\ zip = [b \in Bundles |-> 0] /\ other = 0
      /\ up = {p1} /\ boot = {p1} /\ op = Rest /\ faults = 0
  BY CapacityNames DEF Capacity!Init
<1>2. JobsTyped
  BY <1>1 DEF JobsTyped
<1>3. ServerTyped /\ OpOK
  BY <1>1, RestFacts DEF ServerTyped, OpOK, Capacity!CapacityAssumption
<1>4. \A j \in Jobs : JobOK(j)
  BY <1>1 DEF JobOK
<1>5. StepOK
  BY <1>1, RestFacts DEF StepOK
<1> QED BY <1>2, <1>3, <1>4, <1>5 DEF CapacityState

LEMMA CapacityNext ==
    ASSUME Capacity!CapacityAssumption, CapacityState, [Capacity!Next]_(Capacity!vars)
    PROVE  CapacityStep
<1>1. CASE UNCHANGED Capacity!vars
  <2>1. UNCHANGED <<job, bytes, pend, stage, jrn, ident, kept, told, zip, other, up, boot, op, faults>>
    BY <1>1 DEF Capacity!vars
  <2>2. /\ JobsTyped' /\ ServerTyped' /\ OpOK' /\ StepOK'
        /\ \A j \in Jobs : Settling(j)' => Settling(j)
    BY <2>1 DEF CapacityState, JobsTyped, ServerTyped, OpOK, StepOK, Settling
  <2> QED BY <2>1, <2>2, CapacityAside
<1>2. CASE Capacity!Step
  BY <1>2, CapacityStage, CapacityJournal, CapacityIdentity, CapacityPublish, CapacityUnstage,
     CapacityUnjournal, CapacityFails, CapacityRollback, CapacityUnident, CapacityGivesUp,
     CapacityBundles, CapacityRecovered, CapacityJournals, CapacityWrites, CapacityOrphans
  DEF Capacity!Step
<1>3. CASE Capacity!Next
  BY <1>2, <1>3, CapacityBundles, CapacityRecover, CapacityRestarts, CapacityCreate,
     CapacityMoves, CapacityArtifacts
  DEF Capacity!Next
<1> QED BY <1>1, <1>3

\* The invariant gives what the run checks.
LEMMA CapacityGives ==
    ASSUME CapacityState
    PROVE  Capacity!TypeOK /\ Capacity!CreateResolved /\ Capacity!CreatedStays
<1>1. Capacity!TypeOK
  BY DEF CapacityState, JobsTyped, ServerTyped, Capacity!TypeOK
<1>2. Capacity!CreateResolved
  <2> SUFFICES ASSUME op = Rest, boot = {}, NEW j \in Jobs
               PROVE  /\ jrn[j] = "none" /\ (stage[j] # "none" => told[j] = "error")
                      /\ ident[j] => job[j] # "none" \/ kept[j]
                      /\ job[j] = "live" => ident[j]
    BY CapacityNames DEF Capacity!CreateResolved
  <2>1. Settling(j)
    BY RestFacts DEF Settling
  <2> QED BY <2>1 DEF CapacityState, JobOK
<1>3. Capacity!CreatedStays
  BY DEF CapacityState, JobOK, Capacity!CreatedStays
<1> QED BY <1>1, <1>2, <1>3

LEMMA CapacityGivesStep ==
    ASSUME CapacityStep
    PROVE  Capacity!StagedSurvives
BY DEF CapacityStep, Survives, Capacity!StagedSurvives

------------------------------------------------------------------------------
\* What holds of the part that a behaviour is about.
OfficeInv ==
    /\ part = "alone" => Alone!LoneState(p1)
    /\ part = "together" => Together!ReceiptState
    /\ part = "capacity" => CapacityState

\* A step of the store is a step of the part that the behaviour is about.
LEMMA PartStep ==
    ASSUME [Next]_vars
    PROVE  /\ part' = part
           /\ part = "alone" => [Alone!Next]_(Alone!vars)
           /\ part = "together" => [Together!Next]_(Together!vars)
           /\ part = "capacity" => [Capacity!Next]_(Capacity!vars)
<1>1. CASE UNCHANGED vars
  BY <1>1 DEF vars, Alone!vars, Together!vars, Capacity!vars
<1>2. CASE Next
  <2>1. part' = part
    BY <1>2 DEF Next, NotJobReceipts, NotJobCapacity
  <2> QED BY <1>2, <2>1 DEF Next
<1> QED BY <1>1, <1>2

\* Every step keeps it: the steps of receipts by the lemmas about JobReceipts.
LEMMA OfficeStep ==
    ASSUME OfficeInv, [Next]_vars
    PROVE  OfficeInv'
<1>1. CASE part = "alone"
  BY <1>1, PartStep, OfficeAssumption, Alone!LoneNext DEF OfficeInv
<1>2. CASE part = "together"
  BY <1>2, PartStep, OfficeAssumption, Together!ReceiptNext DEF OfficeInv
<1>3. CASE part = "capacity"
  BY <1>3, PartStep, OfficeAssumption, CapacityNext DEF OfficeInv, CapacityStep
<1> QED BY <1>1, <1>2, <1>3, PartStep DEF OfficeInv

\* It holds in the initial state of every part.
LEMMA OfficeInit == Init => OfficeInv
<1> SUFFICES ASSUME Init PROVE OfficeInv
  OBVIOUS
<1>1. CASE part = "alone"
  <2>1. Alone!Init
    BY <1>1 DEF Init
  <2> QED BY <1>1, <2>1, OfficeAssumption, Alone!LoneInit DEF OfficeInv
<1>2. CASE part = "together"
  <2>1. Together!Init
    BY <1>2 DEF Init
  <2> QED BY <1>2, <2>1, OfficeAssumption, Together!ReceiptInit DEF OfficeInv
<1>3. CASE part = "capacity"
  <2>1. Capacity!Init
    BY <1>3 DEF Init
  <2> QED BY <1>3, <2>1, OfficeAssumption, CapacityInit DEF OfficeInv
<1> QED BY <1>1, <1>2, <1>3 DEF Init

\* The invariant of the store.
LEMMA OfficeInvariant == Spec => []OfficeInv
BY OfficeInit, OfficeStep, PTL DEF Spec

\* For any set of receipts, kinds, chunked results and processes, and any number of
\* crashes and failed writes. With one request at a time every receipt can be read and
\* no row says of an entry what did not happen to it; with requests that replay each
\* other's receipts, whatever was done is told by a row or by a receipt, which goes only
\* after intent and result are committed (_reconcile_pending_result_audit,
\* acknowledge_pending_result).
THEOREM OfficeAuditHonest == Spec => AuditHonest
<1>1. OfficeInv => (part = "alone" => /\ Alone!TypeOK
                                      /\ Alone!ReceiptsReadable
                                      /\ Alone!AuditTellsEffect)
  <2> SUFFICES ASSUME OfficeInv, part = "alone"
               PROVE  Alone!TypeOK /\ Alone!ReceiptsReadable /\ Alone!AuditTellsEffect
    OBVIOUS
  <2>1. Alone!LoneState(p1) /\ Alone!ReceiptState
    BY DEF OfficeInv, Alone!LoneState
  <2> QED BY <2>1, OfficeAssumption, Alone!ReceiptGivesType, Alone!LoneGivesReadable,
             Alone!LoneGivesTrue
<1>2. OfficeInv => (part = "together" => Together!TypeOK /\ Together!EffectHasReceipt)
  BY OfficeAssumption, Together!ReceiptGivesType, Together!ReceiptGivesTold DEF OfficeInv
<1>3. OfficeInv /\ [Next]_vars => [part = "together" => Together!AckedMeansAudited]_vars
  BY PartStep, OfficeAssumption, Together!ReceiptNext, Together!ReceiptGivesAudited
     DEF OfficeInv
<1> QED BY <1>1, <1>2, <1>3, OfficeInvariant, PTL DEF Spec, AuditHonest

\* For any receipts and processes: a replay removes only the entry its receipt is about,
\* and with one request at a time a receipt is given up only when the removal is on disk
\* (_replay_entry_matches_identity, _replay_pending_durability_evidence).
THEOREM OfficeRemovalBound == Spec => RemovalBound
<1>1. OfficeInv /\ [Next]_vars => [part = "together" => Together!EvidenceBound]_vars
  BY PartStep, OfficeAssumption, Together!ReceiptGivesBound DEF OfficeInv
<1>2. OfficeInv /\ [Next]_vars => [part = "alone" => Alone!SyncedBeforeAck]_vars
  BY PartStep, OfficeAssumption, Alone!LoneNext, Alone!LoneGivesSynced DEF OfficeInv
<1> QED BY <1>1, <1>2, OfficeInvariant, PTL DEF Spec, RemovalBound

\* For any set of jobs and bundles, any limits and any number of failed writes and
\* crashes: a create is finished, undone or kept as evidence when nothing is under way,
\* a job whose creation was reported stays, and recovery never drops a fully staged job
\* (create, _rollback_create_transaction, _recover_create_transaction).
THEOREM OfficeCreateAtomic == Spec => CreateAtomic
<1>1. OfficeInv => (part = "capacity" => /\ Capacity!TypeOK
                                         /\ Capacity!CreateResolved
                                         /\ Capacity!CreatedStays)
  BY CapacityGives DEF OfficeInv
<1>2. OfficeInv /\ [Next]_vars => [part = "capacity" => Capacity!StagedSurvives]_vars
  BY PartStep, OfficeAssumption, CapacityNext, CapacityGivesStep DEF OfficeInv
<1> QED BY <1>1, <1>2, OfficeInvariant, PTL DEF Spec, CreateAtomic
==============================================================================
