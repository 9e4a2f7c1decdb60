--------------------------- MODULE ParameterArchive ---------------------------
(***************************************************************************)
(* How captured values become facts.  apiAnalysis/db/save.py: an import    *)
(* stores request samples, takes them apart into parameter documents (an   *)
(* OpenAPI document brings them without samples) and aggregates those      *)
(* into parameter_data, whose rows get ids from a shared counter.          *)
(*  apiAnalysis/rule/profile_parameter_archive.py: an operator    *)
(* plans the archive of one profile revision from the samples of its       *)
(* account, reviews the plan and applies it; apply plans again, compares   *)
(* the hashes, and then checks and saves one row at a time.  A plan stands *)
(* for its own hash, a parameter's name for its identity.                  *)
(***************************************************************************)
EXTENDS Integers, Sequences, FiniteSets, SequencesExt

CONSTANTS
    Captures,          \* samples that may be imported: account, endpoint, found
    Exported,          \* requests of Postman collections: samples of no account
    Described,         \* operations of OpenAPI documents: endpoint, params, schemas
    ParamNames,        \* names in the order of their identities
    ContextNames,      \* names of sessions, tokens and other dynamic values
    AccountRefs,       \* the account of the profile revision
    Imports,           \* imports, one capture each
    Operators,         \* people who run build_profile_parameter_archive.py
    MaxArchiveValues,  \* max_values_per_archive (100)
    MaxApplies         \* bound on the commands of the operators

\* ParamNames are all the names there are; a sample has finitely many values.
ASSUME ArchiveAssumption ==
    /\ IsFiniteSet(ParamNames) /\ ParamNames \subseteq Nat
    /\ \A c \in Captures \cup Exported :
          IsFiniteSet(c.found) /\ c.found \subseteq {"request", "response"} \X ParamNames \X Nat
    /\ MaxArchiveValues \in Nat \ {0}
    /\ \A op \in Described : /\ op.params \subseteq ParamNames
                             /\ \A d \in {"request", "response"} : op.schemas[d].fields \subseteq ParamNames

VARIABLES
    importJobs, \* [pc, capture, names, ids] of an import
    sampleRows, \* request_sample, in the order of their ids
    documents,  \* req_data and res_data: <<endpoint, direction, name>>
    counter,    \* Counter of parameter_data
    paramRows,  \* parameter_data: name -> [id, paths], id 0 while there is none
    archiveRows, \* parameter_archive of the revision
    operators,  \* [pc, plan, todo, wrote, alone, seen, left] of an operator
    applies     \* commands so far

archiveVars == <<importJobs, sampleRows, documents, counter, paramRows, archiveRows, operators, applies>>
importRest  == <<archiveRows, operators, applies>>
archiveRest == <<importJobs, sampleRows, documents, counter, paramRows>>

Directions == {"request", "response"}
RangeOf(s) == {s[i] : i \in DOMAIN s}

-----------------------------------------------------------------------------
(* The import.                                                             *)

ImportGo(i, r) == importJobs' = [importJobs EXCEPT ![i] = r]

\* save_request_sample: a sample with the same signature is only touched.
StoreSample(i, c) ==
    /\ importJobs[i].pc = "start"
    /\ sampleRows' = IF c \in RangeOf(sampleRows) THEN sampleRows ELSE Append(sampleRows, c)
    /\ ImportGo(i, [pc |-> "disassemble", capture |-> c])
    /\ UNCHANGED <<documents, counter, paramRows, importRest>>

\* data_generate_mongodb of a HAR or mitmproxy capture.
ImportCapture(i) == \E c \in Captures : StoreSample(i, c)

\* data_generate_postman: requests with a method and a URL become assets, told
\* apart like captured ones, with a sample of the request alone.
ImportPostman(i) == \E c \in Exported : StoreSample(i, c)

\* _flatten_schema: the fields of a body. _resolve_ref starts below "components"
\* and looks "components" up there again, so a body that is a reference has none.
FlattenSchema(schema) == IF schema.reference THEN {} ELSE schema.fields

\* data_generate_openapi: an asset of its own, and a document without values
\* for every parameter and every field of a body that has none yet.
ImportOpenApi(i) ==
    /\ importJobs[i].pc = "start"
    /\ \E op \in Described :
          /\ documents' = documents \cup {<<op.endpoint, "request", n>> : n \in op.params}
                 \cup UNION {{<<op.endpoint, d, n>> : n \in FlattenSchema(op.schemas[d])} : d \in Directions}
          /\ ImportGo(i, [pc |-> "aggregate", path |-> op.endpoint])
    /\ UNCHANGED <<sampleRows, counter, paramRows, importRest>>

\* parameter_disassemble_mongodb: one document per parameter of the asset,
\* created or extended.

RequestDocuments(c) == {<<c.endpoint, "request", f[2]>> : f \in {f \in c.found : f[1] = "request"}}
ResponseDocuments(c) == {<<c.endpoint, "response", f[2]>> : f \in {f \in c.found : f[1] = "response"}}

Disassemble(i) ==
    /\ importJobs[i].pc = "disassemble"
    /\ LET c == importJobs[i].capture IN
          /\ documents' = documents \cup RequestDocuments(c) \cup ResponseDocuments(c)
          /\ ImportGo(i, [pc |-> "aggregate", path |-> c.endpoint])
    /\ UNCHANGED <<sampleRows, counter, paramRows, importRest>>

\* parameter_date_mongodb: the names in the asset's documents, and which of
\* them have no row yet ...
Aggregate(i) ==
    /\ importJobs[i].pc = "aggregate"
    /\ LET path == importJobs[i].path
           names == {d[3] : d \in {d \in documents : d[1] = path}} IN
          ImportGo(i, [pc |-> "allocate", path |-> path, names |-> names,
                       missing |-> {n \in names : paramRows[n].id = 0}])
    /\ UNCHANGED <<sampleRows, documents, counter, paramRows, importRest>>

\* Mutant: the range starts at what was allocated, and is not reserved.
AllocateUnreserved(i) ==
    /\ importJobs[i].pc = "allocate"
    /\ LET m == importJobs[i]
           missing == m.missing IN
          /\ ImportGo(i, [pc |-> "upsert", path |-> m.path, names |-> m.names,
                ids |-> [n \in missing |-> counter + Cardinality({k \in missing : k <= n})]])
          /\ UNCHANGED counter
    /\ UNCHANGED <<sampleRows, documents, paramRows, importRest>>

\* ... allocate_sequence_range ...
Allocate(i) ==
    /\ importJobs[i].pc = "allocate"
    /\ LET m == importJobs[i]
           missing == m.missing IN
          /\ ImportGo(i, [pc |-> "upsert", path |-> m.path, names |-> m.names,
                ids |-> [n \in missing |-> counter + Cardinality({k \in missing : k <= n})]])
          /\ counter' = counter + Cardinality(missing)
    /\ UNCHANGED <<sampleRows, documents, paramRows, importRest>>

\* ... and the upserts in one bulk write; the id only on insert.
Upsert(i) ==
    /\ importJobs[i].pc = "upsert"
    /\ LET m == importJobs[i] IN
          paramRows' = [n \in ParamNames |->
             IF n \notin m.names THEN paramRows[n]
             ELSE [id |-> IF paramRows[n].id = 0 THEN m.ids[n] ELSE paramRows[n].id,
                   paths |-> paramRows[n].paths \cup {m.path}]]
    /\ ImportGo(i, [pc |-> "end"])
    /\ UNCHANGED <<sampleRows, documents, counter, importRest>>

-----------------------------------------------------------------------------
(* build_profile_archive_plan                                              *)

\* The samples of the revision's account, with their ids.
Eligible == {<<i, sampleRows[i]>> : i \in {i \in DOMAIN sampleRows : sampleRows[i].account \in AccountRefs}}

\* What a plan is made from besides the rows of the archive.
ArchiveInput == [samples |-> Eligible, documents |-> documents, params |-> paramRows]

\* _extract_values of a document: what the sample has at its place.
Extracted(in, c, d, n) ==
    IF <<c.endpoint, d, n>> \in in.documents /\ n \notin ContextNames
    THEN {f[3] : f \in {f \in c.found : f[1] = d /\ f[2] = n}} ELSE {}

\* A set of pairs of numbers, in their order.
PairLess(a, b) == a[1] < b[1] \/ (a[1] = b[1] /\ a[2] < b[2])
InOrder(S) ==
    [k \in 1..Cardinality(S) |-> CHOOSE a \in S : Cardinality({b \in S : PairLess(b, a)}) = k - 1]

\* The values of a name in the order of the samples, and where they were.
FoundValues(in, d, n) == UNION {{<<e[1], v>> : v \in Extracted(in, e[2], d, n)} : e \in in.samples}
GroupValues(in, d, n) ==
    LET found == InOrder(FoundValues(in, d, n)) IN [k \in DOMAIN found |-> found[k][2]]

GroupPaths(in, d, n) == {e[2].endpoint : e \in {e \in in.samples : Extracted(in, e[2], d, n) # {}}}

Grouped(in) == {n \in ParamNames : \E d \in Directions : GroupPaths(in, d, n) # {}}

Fewer(m, n) == IF m < n THEN m ELSE n

\* Mutant: a value that is there already is added again.
MergeAgain(old, new) ==
    LET all == old \o new IN [k \in 1..Fewer(Len(all), MaxArchiveValues) |-> all[k]]

\* _merge_values: the first of each, the stored ones first, up to the limit.
Merge(old, new) ==
    LET all == old \o new
        firsts == InOrder({<<i, all[i]>> : i \in {i \in DOMAIN all : \A j \in 1..(i - 1) : all[j] # all[i]}})
    IN  [k \in 1..Fewer(Len(firsts), MaxArchiveValues) |-> firsts[k][2]]

RowsOf(n) == {k \in DOMAIN archiveRows : archiveRows[k].name = n}

NoArchiveRow == [ids |-> {}, paths |-> [d \in Directions |-> {}], vals |-> [d \in Directions |-> <<>>]]

\* parameter_ids_by_identity: the row of the name that knows one of its endpoints.
MetadataIds(in, n) ==
    IF in.params[n].paths \cap UNION {GroupPaths(in, d, n) : d \in Directions} = {} THEN {}
    ELSE {in.params[n].id}

\* after_state: what the row becomes, with the watermark of the samples.
After(in, n, old) ==
    [name |-> n, ids |-> old.ids \cup MetadataIds(in, n),
     paths |-> [d \in Directions |-> old.paths[d] \cup GroupPaths(in, d, n)],
     vals |-> [d \in Directions |-> Merge(old.vals[d], GroupValues(in, d, n))],
     mark |-> in.samples]

Planned(in, n) ==
    LET k == IF RowsOf(n) = {} THEN 0 ELSE CHOOSE k \in RowsOf(n) : TRUE
        old == IF k = 0 THEN NoArchiveRow ELSE archiveRows[k]
        after == After(in, n, old)
    IN  [name |-> n, row |-> k, before |-> old, after |-> after,
         action |-> IF k = 0 THEN "create" ELSE IF old = after THEN "unchanged" ELSE "update"]

\* "duplicate profile archive identity detected"
Plannable == \A n \in ParamNames : Cardinality(RowsOf(n)) <= 1

\* One operation for each name, to be done in the order of the identities.
ArchivePlan ==
    [mark |-> Eligible, operations |-> [n \in Grouped(ArchiveInput) |-> Planned(ArchiveInput, n)]]

-----------------------------------------------------------------------------
(* apply_profile_archive_plan                                              *)

OperatorGo(o, r) == operators' = [operators EXCEPT ![o] = r]

\* The report names the reason, and no writes.
Refuse(o, wrote) == OperatorGo(o, [pc |-> "blocked", wrote |-> wrote])

Resting == {"start", "reviewed", "blocked", "done"}

\* The dry run: the operator keeps the hash.
DryRun(o) ==
    /\ operators[o].pc \in Resting /\ applies < MaxApplies
    /\ IF Plannable THEN OperatorGo(o, [pc |-> "reviewed", plan |-> ArchivePlan])
       ELSE Refuse(o, 0)
    /\ applies' = applies + 1
    /\ UNCHANGED <<archiveRest, archiveRows>>

\* --apply with the reviewed hash.
Apply(o) ==
    /\ operators[o].pc = "reviewed"
    /\ LET plan == operators[o].plan IN
       IF ~Plannable THEN Refuse(o, 0)
       ELSE IF DOMAIN plan.operations = {} \/ ArchivePlan # plan THEN Refuse(o, 0)
       ELSE OperatorGo(o, [pc |-> "check", plan |-> plan, todo |-> DOMAIN plan.operations, wrote |-> 0,
                            alone |-> TRUE, seen |-> ArchiveInput])
    /\ UNCHANGED <<archiveRest, archiveRows, applies>>

\* The identity an operator is at.
At(p) == CHOOSE n \in p.todo : \A m \in p.todo : n <= m

\* The row of one operation is compared with the plan.
CheckRow(o) ==
    LET p == operators[o]
        op == p.plan.operations[At(p)]
    IN  /\ p.pc = "check" /\ p.todo # {}
        /\ OperatorGo(o,
             IF op.action = "unchanged" THEN [p EXCEPT !.todo = @ \ {At(p)}]
             ELSE IF \/ op.action = "create" /\ RowsOf(op.name) # {}
                     \/ op.action = "update" /\ archiveRows[op.row] # op.before
             THEN [pc |-> "blocked", wrote |-> p.wrote]
             ELSE [p EXCEPT !.pc = "save"])
        /\ UNCHANGED <<archiveRest, archiveRows, applies>>

\* It is saved; nothing holds the row since it was compared.
SaveRow(o) ==
    LET p == operators[o]
        op == p.plan.operations[At(p)]
    IN  /\ p.pc = "save"
        /\ archiveRows' = IF op.action = "create" THEN Append(archiveRows, op.after)
                          ELSE [archiveRows EXCEPT ![op.row] = op.after]
        /\ operators' = [q \in Operators |->
              IF q = o THEN [p EXCEPT !.pc = "check", !.todo = @ \ {At(p)}, !.wrote = @ + 1]
              ELSE IF operators[q].pc \in {"check", "save"} THEN [operators[q] EXCEPT !.alone = FALSE]
              ELSE operators[q]]
        /\ UNCHANGED <<archiveRest, applies>>

FinishApply(o) ==
    LET p == operators[o] IN
    /\ p.pc = "check" /\ p.todo = {}
    /\ OperatorGo(o, [pc |-> "done", plan |-> p.plan, alone |-> p.alone, seen |-> p.seen, left |-> archiveRows])
    /\ UNCHANGED <<archiveRest, archiveRows, applies>>

\* The command is killed.
ApplyDies(o) ==
    /\ operators[o].pc \in {"check", "save"}
    /\ OperatorGo(o, [pc |-> "start"])
    /\ UNCHANGED <<archiveRest, archiveRows, applies>>

-----------------------------------------------------------------------------
ArchiveInit ==
    /\ importJobs = [i \in Imports |-> [pc |-> "start"]]
    /\ sampleRows = <<>> /\ documents = {}
    /\ counter = 0 /\ paramRows = [n \in ParamNames |-> [id |-> 0, paths |-> {}]]
    /\ archiveRows = <<>>
    /\ operators = [o \in Operators |-> [pc |-> "start"]]
    /\ applies = 0

ArchiveNext ==
    \/ \E i \in Imports : \/ ImportCapture(i) \/ ImportPostman(i) \/ ImportOpenApi(i)
                          \/ Disassemble(i)
                          \/ Aggregate(i) \/ Allocate(i) \/ Upsert(i)
    \/ \E o \in Operators : \/ DryRun(o) \/ Apply(o) \/ CheckRow(o) \/ SaveRow(o)
                            \/ FinishApply(o) \/ ApplyDies(o)

-----------------------------------------------------------------------------
(* Properties.                                                             *)

\* What the archive of a revision holds was sent or received by its account,
\* under that name and in that direction, and is no session or dynamic value.
ArchivedIsOwn ==
    \A k \in DOMAIN archiveRows : \A d \in Directions : \A v \in RangeOf(archiveRows[k].vals[d]) :
        /\ archiveRows[k].name \notin ContextNames
        /\ \E c \in RangeOf(sampleRows) : /\ c.account \in AccountRefs
                                          /\ <<d, archiveRows[k].name, v>> \in c.found

\* A plan that was applied without interference, through values at their
\* limit and rows left by killed commands, has nothing left to change as long
\* as no capture is added.
ApplySettles ==
    \A o \in Operators :
        LET p == operators[o] IN
        IF p.pc = "done"
        THEN (p.alone /\ p.left = archiveRows /\ p.seen = ArchiveInput) =>
                \A op \in RangeOf(ArchivePlan.operations) : op.action = "unchanged"
        ELSE TRUE

\* The archive of a revision holds what its account exchanged, and applying a
\* reviewed plan brings it there once and for all.
ArchiveIsFaithful == ArchivedIsOwn /\ ApplySettles

\* Two imports never give two names one id.
ParameterIdsDiffer ==
    \A m, n \in ParamNames : (m # n /\ paramRows[m].id # 0) => paramRows[m].id # paramRows[n].id

\* profile_parameter_archive.py: "Apply an exact reviewed plan; fail closed if
\* any input row changed", so an identity has one row.
OneRowPerIdentity == Plannable

\* build_profile_parameter_archive.py reports database_writes 0 when blocked.
BlockedWroteNothing == \A o \in Operators : operators[o].pc = "blocked" => operators[o].wrote = 0
=============================================================================
