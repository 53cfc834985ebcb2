# A TLA+ verification of RF-NIDS

RF-NIDS is a network intrusion detection system around a random forest: it
captures packets, turns them into flow records, has an API classify each flow
as `Normal`, `DDoS` or `PortScan`, stores flows, predictions and alerts in
PostgreSQL and shows them in a Streamlit dashboard. A second part of the
repository is a scientific one: scripts that train the forests, compare them and
evaluate them once on test data that is frozen beforehand.

This directory holds TLA+ models of the parts of the system in which order,
failure and concurrency matter, the TLC configurations that check them on small
instances, and theorems that TLAPS proves for all instances. `PROJECT.json`
maps each definition to the lines it models, lists the hazards of the code, and
names, for every property, a plausible bug (a *deviation*, defined in the
modules beside the action it deviates from) under which TLC finds the property
violated.

    tlc -workers 2 -config MCLiveSession.cfg MCLiveSession    # one run
    tlapm DeliveryProofs.tla                                  # one module's proofs

## 1. Inventory

### Components, their state and operations

| Component | Source (under `src/`) | State | Operations |
|---|---|---|---|
| Batch sender | `src/ingestion/api_sender.py` | attempt counter | `send`: POST a batch, retry every failed attempt with exponential pauses |
| Detection API | `src/api/main.py`, `service.py`, `models.py`, `database.py` | tables `traffic_flows`, `predictions`, `alerts`; one transaction per request | `predict`, `predict_batch` (`persist_predictions`), `dashboard_summary`, lists, exports |
| Live session | `src/ingestion/live_capture.py` | report, deduplicator, open batch, prediction ids, summary before | `preflight`, segment loop, `submit_batch`, `finalize_report`, Ctrl+C |
| Segment capture | same file | a `tcpdump` process group, its PCAP file | `capture_segment`, `stop_process_group`, `validate_pcap`, extractor container |
| Offline validation | `src/ingestion/offline_validation.py`, `scripts/run_offline_pcap_validation.py` | report, open batch, prediction ids | `validate_flow_csv` |
| Runner | `src/ingestion/runner.py`, `capture.py` | open batch, fingerprints, counters, exit status | `run`, `main` |
| Feature mapping | `feature_adapter.py`, `cicflowmeter_mapping.py`, `cicflowmeter_v3_adapter.py`, `flow_extractor.py` | none | row of a flow CSV to the 78 model features, or a rejection |
| Sessions and alerts | `src/api/auth.py`, `main.py` | `auth_sessions` in the process's memory; `users.is_active`; alert status | `login`, `logout`, `get_current_user`, `acknowledge_alert` |
| Dashboard | `dashboard/app.py`, `auth.py`, `api_client.py`, `pages/` | the browser's session state (token, notice) | a script run per click or refresh: health, `require_login`, `model_info`, page |
| Model registry | `src/api/service.py`, `main.py` | table `models` | `sync_active_model` at start, `active_model`, `register_inactive_model` |
| Evidence sync | `src/application/evidence_sync.py` | tables of experiments, metrics, sources | `synchronize_evidence` (one transaction, `--dry-run`) |
| Inference | `src/inference/predictor.py` | the loaded pipeline | load with hash and feature checks, `predict_one`, `predict_batch` |
| Experiment D | `scripts/*experiment_d*.py`, `train_rf_v2_d4.py`, `src/experiment_d/` | files: model, freeze, captures, manifests, audits, reports | D0-D3 adaptation set, D4 training, freeze, capture, extract, prepare, audit, seal, D6 one-shot evaluation |
| Experiment C | `scripts/run_experiment_c_*.py`, `src/experiment_c/` | files, as above | an earlier evaluation of the same pattern |
| Training, comparison | `src/training/`, `src/evaluation/` | model, metrics and metadata files | train, compare, publish the active model |
| Data, preprocessing, schemas, exports, migrations, common | `src/data/`, `src/preprocessing/`, `src/api/schemas.py`, `exports.py`, `migrations/`, `src/common/` | none of their own | table transformations, request validation, DDL, hashing |

### How they interact

* Live session, offline validation and runner call `ApiSender.send` with one
  batch at a time; it speaks HTTP to `predict_batch`. The API may go on with a
  request the sender has given up, so several attempts of one batch can be at
  work at once.
* Live session and offline validation read the API's counters before and after
  (`DashboardApiVerifier`), while other clients use the same API.
* The live session and `tcpdump` interact by signals and a file; the terminal's
  Ctrl+C reaches only the session, because `tcpdump` has a process group of its own.
* Browsers share the API's session table and the alert rows. A browser's script
  runs one call after the other and stops or reruns where a call fails.
* API processes and the evidence sync share the table `models`.
* Trainings, `compare_models`, the inference engine of the API and of Experiment C's
  scripts, and the evidence sync meet in files that are rewritten in place.
* The scripts of Experiment D share files and nothing else; each refuses to
  overwrite, and later ones compare hashes. RF-v1, their other model, is the file that
  `compare_models` publishes over.
* The collectors' row adapter, the experiments' table adapter and the API's checks
  have to agree about the same features.

### What is hard in it, and what makes each component correct

* **Delivery**: a POST that is not idempotent is retried after a timeout.
  Correct: what is reported delivered is stored, and no more copies than attempts,
  late ones included.
* **Live session, offline validation, runner**: failures, Ctrl+C and foreign
  rows at any point. Correct: counters agree with each other and the store;
  `verified` and `completed` mean what they say, the alerts claimed included; exit
  status 0 loses nothing; the session ends with a report unless docker or sudo keep it.
* **Segment capture**: signals race with the exit of the process. Correct: a file that
  SIGTERM, SIGKILL or an error cut off is not extracted, no process is left behind
  unnoticed, a Ctrl+C is not lost, the capture ends.
* **Sessions, alerts, dashboard**: tokens outlive what they stand for, handlers
  overlap, answers are lost. Correct: a dead token stays dead, an acknowledgment is
  not replaced by a later one, stale pages are left.
* **Feature mapping**: the same mapping is written several times, cells are parsed
  by two libraries. Correct: a header that is let through loses no row for its
  columns, the API does not refuse a batch for features the adapter accepted, and the
  collectors feed the model what the experiments fed it.
* **Model registry**: transactions interleave under READ COMMITTED. Correct: the
  served version stays active and is the one reported.
* **Evidence sync**: two syncs with different selections, conflicts, dry runs and kills,
  and files rewritten between two reads. Correct: a group of evidence is there as a
  whole or not at all and is never changed, and there is one dataset row.
* **Training, comparison, inference, Experiment C**: processes beside each other,
  files torn or of different models. Correct: a loaded model is the declared one, a
  publication that ends, with no other beside it, has left model and metadata that belong
  together, evidence that is accepted has the counts of the model it names.
* **Experiment D**: scripts overlap, die and are repeated. Correct: RF-v2 is fitted on
  the audited plan; each model predicts the final test once, RF-v2 with the pinned bytes
  and after the freeze, RF-v1 with the pinned bytes where the execution comes to its
  conclusion, and a PASS vouches for one whole execution.

The hazards, each at its line, are in `PROJECT.json`.

## 2. Modules

    Delivery ─────────── DeliveryProofs        DeliveryContract (abstract, refined)
      ├─ LiveSession ──────── LiveSessionProofs
      │    SegmentCapture (one segment of it) ──┘
      ├─ OfflineValidation ── OfflineValidationProofs
      └─ IngestionRunner ──── IngestionRunnerProofs
           └─ FeatureMapping

    ModelRegistry
      └─ EvidenceSync ─────── ServerProofs     EvidenceSnapshot (abstract, refined)
    AdminSessions ──────────────┘
    Adaptation (D0-D4) ────── AdaptationProofs
    ExperimentD (D4-D6) ───── ExperimentDProofs
    Publication ───────────── PublicationProofs

`LiveSession`, `OfflineValidation` and `IngestionRunner` extend `Delivery` and
compose their own steps with its actions, `EvidenceSync` does so with `ModelRegistry`.
Each `MC*` module gives the constants of one of them small values and bounds its
environment. The proof modules of the three collectors extend `DeliveryProofs`;
`SegmentCapture` and `AdminSessions` prefix the names of their state and specification
(`SegmentSpec`, `AdminSpec`), since their proofs share a module with another component's.

**Delivery.** `BeginSend`, `Post`, `Receive`, `RetryLater`, `GiveUp` and
`InterruptSend` are the paths through `ApiSender.send`; every attempt is a
record in `reqs` that the API may `Commit` or `Drop` at any later time,
also after the sender timed out (`RetryLater` is enabled whatever became of the
attempt). `Commit` is the whole handler: classification, flows, predictions,
alerts, one commit. `OtherClient` is another user of the same API. A flow is a
model value with a label; confidence, probabilities and addresses are left out.

**DeliveryContract** is what delivery promises a collector: a batch told
`delivered` has been stored, and no batch is stored more often than
`MaxAttempts`. `Delivery` maps `outcome` and the number of committed attempts of each
submission to it (`Contract`); `AtLeastOnce` is the refinement.

**LiveSession** follows `run_live_capture` from the first summary to
`finalize_report`: each `phase` is a place in the function, each action a path
of it to the next. The two statements of a summary are two steps, since each
sees its own snapshot. A summary holds counts in the code; here it holds the set
of rows counted, and the actions only use its cardinality, so that properties can
say what the numbers stood for. `CaptureSegment` and `CaptureFails` stand for
what SegmentCapture models in detail: its result `csv`, with `interrupted`, and
everything it may raise. The deduplicator is a bounded queue of fingerprints;
equal flows have equal fingerprints.
The history variable `start` remembers where among the submitted flows a batch began,
so that `Place` can say which of them a stored row is.

**SegmentCapture** has `tcpdump` as an environment that writes, ignores, obeys or
dies of signals (`Writes`, `ExitsClean`, `IsKilled`, `ExitsWithError`: external,
modelled from how the code treats its exit status and file), and the steps of
`capture_segment` and `stop_process_group`. It may die of SIGINT too, before its handler
is installed; the code accepts that status (`Accepted`: 0, 130 and -SIGINT), and the file
is then whatever had been written. `sudo` and `tcpdump` are one process, as one signal
reaches both.

**OfflineValidation** is `validate_flow_csv`, with an answer of the API that lacks the
fields of a stored row (`AnswerIncomplete`) beside the failed send. **IngestionRunner** is `run` and
`main`; `Flush` may come before the batch is full, since `flush_seconds` can
have passed, and is only looked at after an accepted row. A CSV has one of `Headers`, and
each row is a function from its distinct column names to cells.

**FeatureMapping** has no state: `Compatible` is the header check, `Structured` and
`Adapts` what `FeatureAdapter.adapt` accepts, `Adapt` and `Fingerprint` what it returns,
`V3Accepts` and `AdaptV3` the experiments' table adapter, `Prepares` and `Servable` what
the API and the predictor ask of a row. A cell is what its text is to a parser: a
number, one too large for a float32, an infinity, NaN, blank, `NA` (no number for
Python's `float`, a missing one for pandas) or other text. Names and mapping tables are
parameters with the shape the source's tables have (`MappingAssumption`).

**AdminSessions** has browsers whose script run is a sequence of calls
(`health`, `verify`, `model`, `page`, then `ack` or `logout`) and an API that may
stop, start, expire a session, or refuse it. What the user does between two runs is
`Rerun` (with another page or auto refresh switched off or on), `ClickLogout`, and
`ClickAcknowledge`, which like `Refresh` reruns the page's fragment only, without health,
`require_login` and `model_info`. A refusal clears the token and shows the login form
(`CallRefused`), but on the page Models, which catches it (`RefusalSwallowed`). An
acknowledgment is a handler of its own with a read and a write step; the browser may stop
waiting for it. `Answer` and `AckLost` decide what the user is told. Only the role ADMIN
exists, so the 403 branch is unreachable and left out; a second click that interrupts a
running script is not modelled. The pages other than Models are one page: the first call
of each of them lets a refusal through.

**ModelRegistry** has the transactions of `sync_active_model` (SELECT, UPDATE of
the others, INSERT or UPDATE at the commit), `register_inactive_model`, and the steps of
the evidence sync's `_link_model`; ids are drawn at the INSERT, and all that is kept of
them is which of two rows has the greater one (`order`). The row a transaction
found is remembered as the ORM remembers it: a value that does not change is not
written.

**EvidenceSync** extends it: `Load`, one step per document (`SelectSource`,
`InsertSource`), the dataset, one step per experiment (`Import`, with the link of the
model in the experiment that has it), `CommitSync` and `RollbackSync`, which is the dry
run, every refusal and every crash. The content of a document is its digest; since files
may be rewritten at any time, a sync may find any digest, chosen where it is first
used. The catalogue is a constant: `DocsOf` gives each group its documents, `DATASET` is
the group that comes before the selected experiments, and a sync's place is the pair of
its group and its document.

**EvidenceSnapshot** is what readers are promised: groups of documents appear as a whole
and are never changed; `ImplementsSnapshot` is the refinement.

**Publication** has the files that trainings, `compare_models` and the three scripts of
Experiment C leave, as pairs of fits (the model a file is of, or the hash it declares
and the model its numbers are of), and their processes with their reads in the code's
order. Writing is `Open` (the file is torn from then on) and `Close`. Any number of
`compare_models` (`Publisher`) may be at work at once, and where two processes may have a
file open together a mixture may be left of it (`Contended`); of each other script one
process runs at a time. A loader is at `verify`, `load`, then at work; `c_final` also reads
the counts an earlier inference left; the sync reads metadata, report and table at
different moments and accepts what passes `_cross_validate`, which compares counts
(`Tally`): different models may have equal ones (`Counts`). The outputs of Experiment C
are never deleted.

**Adaptation** is D0 to D4 up to the fit. Its first half is the split as operators on
rows `<<session, index>>` with a feature vector each: validation rows, `Clean` (no
vector of the validation, no duplicate within a class), `Cap` by rank, the policies, and
`Named`, which finds rows again by file hash and index as D4 does; the rows of CICIDS2017,
from which two set differences are taken, are left out. Its second half are the phases that hand each other files: extraction, audit,
plan, dry run and load, each killable, with an operator who deletes the files of whole
phases or the captures while no script is at work, a replaced RF-v1 and a final test captured
too early. `ExperimentD` goes on from the fit.

**ExperimentD** has a file per output that another script reads, with the
identity of its bytes as content: `pinned` for those whose hash the source names,
`other` otherwise. A script with several outputs checks once, then writes them one
by one, and may be killed in between (`Abort`); `Clean` is the operator deleting the
outputs of a phase to run it again, which is how the scripts' messages tell one
to repeat a phase. Freeze, audit and seal write one file and are one step; two of
them at once (the check and the write are apart) are not modelled. RF-v1 lies outside the
phases: it is `pinned` until `ReplaceRf1`, which is `compare_models` or the operator who
puts the pinned files back, and it is verified when D4 starts and audits, in the audit, by
the gate and by `post_integrity`, but loaded between the last two.
`prepare_experiment_d_d5.py` always ends in `Abort` after its outputs, since its
own leakage audit loads the adaptation manifest under a schema it does not have;
`audit_experiment_d_final_test.py` writes that audit instead.

## 3. Runs

| Run | Bounds | What it shows |
|---|---|---|
| `live_session` | 2 flows, 3 rows, 2 segments, batches of 2, deduplicator of 1, 1 retry, 1 foreign request | `VerifiedIsExact`, `VerifiedHasNoDuplicate`, `VerifiedCountsAlerts`, `CompletedIsComplete`, `SessionEnds` |
| `segment` | 2 presses of Ctrl+C | `CutOffIsRefused`, `NoOrphan`, `InterruptHeard`, `CaptureEnds` |
| `offline` | 4 rows, batches of 2, 1 retry, 1 foreign request | `CompletedIsExact`; `AtLeastOnce`, the refinement of the delivery contract |
| `runner` | 5 headers, 6 kinds of row each, 3 rows, batches of 2, 1 retry | `SuccessIsComplete`, `OnlyRetriesDuplicate`; of the mapping `HeaderVerdictHolds`, `AcceptedIsPrepared`, `AdaptersAgree` |
| `admin` | 1 browser, 2 users, 2 tokens, 1 alert, 2 clicks, 1 timeout | `DroppedStaysDead`, `SettledIsFinal`, `StalePageLeaves` |
| `evidence` | 2 syncs, an experiment of one and one of two documents, the dataset of one, 2 digests, 1 API with 2 versions | `SnapshotIsWhole`, `ServedIsActive`, `ReportedIsServedOrNewer`; `ImplementsSnapshot`, the refinement of the snapshot store |
| `publication` | 2 publishers, 3 fits (pairwise alike in some counts), 4 processes, 2 at once | `LoadedIsDeclared`, `PublishedIsWhole`, `AcceptedIsNamed` |
| `adaptation` | 7 sessions of 1 or 2 rows over 4 vectors in 288 combinations, 2 extractions, 2 deletions, a session cap of 1 | `StrategiesNested`, `FitIsAuditedPlan` |
| `experiment_d` | 2 executions of D6, 2 deletions | `OneShot`, `PassIsWhole`, `PredictsPinned`, `OneSwapIsNoticed`, `PassIsFrozenFirst` |
| `live_unauthorised` | a verifier without a token | violates `CaptureRunsUntilStopped` |
| `admin_ack_race` | 2 overlapping acknowledgments | violates `FirstAckStands` |
| `admin_logout` | a logout while the API is down | violates `LogoutClears` |

Most runs also check the type invariant of their module. The properties of `Delivery`
and of `FeatureMapping` are checked where a collector uses them, so that what is sent,
retried or given up is what the code sends.

**Why the bounds are enough to be of interest.** One retry is the smallest number
for which an abandoned attempt and its successor are at the API together. Two batches
let a late commit of the first fall into the second. Three rows over two segments
with batches of two give a full batch, a flush at a segment's end and a batch
dropped by a failure; a deduplicator of one evicts. One foreign request is enough to
move a count between two reads, or to compensate a missing row. The headers of the
runner are a complete one, one that has the reproduced feature itself, one with a
missing, one with a doubled and one with a twice aliased column; the rows differ from a
plain one by every kind of cell that some check treats differently. One browser's calls
overlap because it gives up on one and clicks again; the second user comes with a
relogin, for which there is a second token. Two
syncs of an experiment each, or of both, meet in the dataset and in the model row, and two
digests differ. Three fits and four processes are a training after a publication, two
publications that overlap, or a loader or the sync beside either; more than two at once
(three publications, a loader between two of them) are left to the proof, which has no
bound. Of the three models the first and second agree on Normal and PortScan, the second
and third on DDoS, so a table of rows of two models may count like a third's. Four vectors over seven sessions let a vector occur in
training and validation, in two labels, in both parts of CICIDS2017, and make flow
files equal. Two executions of D6 overlap or follow one another after a crash; two deletions
let a phase be repeated and then the final evaluation reopened. RF-v1 is replaced and put
back without a bound.
`MaxOther`, `MaxRows`, `MaxTimeouts`, `MaxAcks`, `MaxInterrupts`, `MaxFits`, `MaxRuns`,
`MaxBusy`, `MaxExtractions` and `MaxCleans` bound only the environment; everything else is
a parameter of the code.

**Deadlock** is not checked: sessions, segments, commands and executions end, and
the system may be left alone.

### Fairness

* `Delivery`: a sender in `send` makes its next step (`requests.post` has a timeout,
  the loop a bound). The API and other clients get none.
* `LiveSession`: weak fairness of the one thread wherever its calls end by a timeout or
  the end of a file. The preflight and the capture of a segment (`Waiting`) get none:
  they call `sudo` and `docker` without a timeout (`live_capture.py:171-179`, `288-308`).
  So `SessionEnds` says that the session ends or waits for one of these for ever. Ctrl+C
  is never assumed.
* `OfflineValidation`, `IngestionRunner`: weak fairness of the one thread, on which no
  property rests.
* `SegmentCapture`: weak fairness of `capture_segment`, whose loop has a deadline and whose
  waits have timeouts, the last of which raises; none of `tcpdump`, and none of `Extract`,
  a `docker compose run` without a timeout. `CaptureEnds` therefore ends at the extractor.
* `AdminSessions`: script runs and handlers go on; auto refresh reruns an open page while
  it is switched on. Crashes, expiry, deactivation and the user get none, so
  `StalePageLeaves` excepts an API that is down, auto refresh switched off, and the page
  Models.
* `EvidenceSync`, `Publication`, `Adaptation`, `ExperimentD`: none. These are commands an
  operator starts or not, and nothing retries them.

### Findings

* **Unauthorised verifier** (`live_unauthorised`). `DashboardApiVerifier` sends no
  token; `dashboard_summary` requires one. Against the API of this commit a live
  session or an offline validation therefore ends at its first summary. The other
  runs of these modules assume an API that answers (the parameter `verifier`
  can be replaced by a caller, as the unit tests do), because the logic
  behind it is what a fixed verifier will rely on; `OpenFails` remains possible.
* **Acknowledgment race** (`admin_ack_race`). Two overlapping calls both see `ACTIVE`;
  the second commit replaces the user and time of the first. What the code does
  keep is `SettledIsFinal`: once no call is left that read the alert while it was active,
  nobody replaces its acknowledgment.
* **Logout with the API down** (`admin_logout`). The health check of the script run
  comes first and stops it, so the local token is not cleared.

Seen while modelling, without a run of their own:

* `model_info.render` takes every error of its call for a missing model, so a token the API
  has just refused stays in the browser, and with it the page Models, until a rerun of the
  whole script (`model_info.py:17`); `docs/phase_6_authentication_ux.md:52` promises the
  login form. `StalePageLeaves` excepts this page.
* A capture failure after successful segments is in the report's failures but leaves the
  status `completed` (`live_capture.py:346`).
* The evidence sync can insert an active row newer than the served one, which the Models
  page then reports (`evidence_sync.py:607`); `ReportedIsServedOrNewer` says exactly when.
* A training writes its model first and its metrics last, and nothing ties the two: a
  publication beside a training, or after one that was killed, may copy one model with
  the metrics of another (`train_tuned.py:223`). `PublishedIsWhole` therefore promises
  the metrics only where no training has been at work; the hash always fits.
* Two `compare_models` at once may leave the model of one beside the metadata of the other
  (`compare_models.py:137`, `:138`, `:177`); `PublishedIsWhole` promises nothing of them. The
  loader's hash check finds it (`LoadedIsDeclared`).
* D6 loads RF-v1 by name after its gate and verifies it again at the end: one replaced and
  put back within the run is not noticed (`evaluate_experiment_d_final.py:252`).
  `OneSwapIsNoticed` says that this is the only way.
* tcpdump that dies of SIGINT itself counts as a clean exit (`live_capture.py:247`), and its
  file is extracted as far as it was written.
* `InferenceEngine` hashes a file and then opens it again (`predictor.py:60` and `:63`);
  `LoadedIsDeclared` excepts the instant in between.
* `run_experiment_c_final.py:143` does not look at the model of the counts it takes over.
  What saves the evidence is that the sync compares the table with the report: it may be
  of two models, but then its counts are those of the one that is named.
* A feature vector may stay under two labels in the training of RF-v2: duplicates are
  removed within a class only (`prepare_experiment_d_d3.py:202`).

## 4. Proofs

`DeliveryProofs` proves of every run of the delivery (`DeliveryRun`, which `DeliverySpec`
adds fairness to, and to which each collector adds its own steps), for every set of flows, labelling, number of
retries, batch limit, number of submissions and of other clients:

* `DeliveryTypes`: `TypeOK`, which is inductive as it stands: it also says that there
  is a submission while one is being sent, that `current` names an existing request
  while its answer is awaited, and that each row belongs to an existing request.
* `DeliveryKeepsContract`: the refinement, `DeliveryRun => AtLeastOnce`. Initial states
  map to the empty store, and each step to `Accept`, `Store`, `Tell` or a stutter
  (`ContractStep`): a send begins with a new submission; a commit adds one to the copies
  of its submission, also of one that was given up long ago; and an outcome is told only
  to the one at work, delivered only after a commit (`Traced`). That a store stays
  within `MaxAttempts` rests on `Bounded`: a submission has no more attempts than
  retries and one, and the one at work as many as its counter says. The attempts of a
  submission are a finite set of indices that a step enlarges by at most one
  (`AttemptsStep`), and the committed ones are among them.

The inductive invariant is `DeliveryInv`: types, what each request has stored and which
alerts lie beside it (facts of `Commit` that the collectors' proofs build on, no results of
their own), `Traced` and `Bounded`. The only assumption used is `RetryAssumption`: retries are a natural number, of which
not even the size matters. Each theorem is initiation, preservation by every step
(`TypeStep`, `StoreStep`: a step leaves the store alone or commits one whole request),
and the temporal rule for invariants. For the collectors that extend `Delivery` it also
shows `Traced` (a request of a submission carries that submission's flows, one that is
delivered was committed, and only the one at work is pending) and `OutcomeStays` (an
outcome, once told, is final).

`LiveSessionProofs` proves of `LiveSession`, for every batch size, retry bound,
capacity of the deduplicator and number of segments, `SessionTypes` (`SessionTypeOK`),
`VerifiedSound` (`VerifiedIsExact`), `CompletedSound` (`CompletedIsComplete`),
`VerifiedUnrepeated` (`VerifiedHasNoDuplicate`), `VerifiedAlerted` (`VerifiedCountsAlerts`)
and `SessionDelivers`: a session keeps the contract of send. The verdict compares
numbers, the properties speak of rows; the invariant has to carry what makes the one
decide the other:

* `Control`: which phases have a sender at work or an open batch, and that only
  `finalize_report` gives a verdict;
* `Told`: the rows of the first summary are foreign, the ids are rows of delivered
  submissions, one attempt each, and as many as `n.successful` says; the last summary,
  being read after both, includes them. Then "the count grew by as much as I was told"
  is equality of two finite sets one of which includes the other (`ExactByCount`), and
  nothing else was stored in between, not even a late attempt of the session's own;
* `Alerted`: the alerts of the first summary, counted after its rows, are foreign ones; the
  attacks counted among the predictions told of are as many as these rows have, and the
  alerts of the last summary include an alert of each. So the difference the report
  claims is never less than its attacks, whatever was stored between two statements;
* `Counted`: each row read is counted once, and a unique one is stored or in the
  batch unless a fault has been noted; that is `CompletedIsComplete`;
* `Laid` and `Spread`: the submissions lie one after the other among the unique rows,
  and equal flows lie further apart than the deduplicator remembers, because what it
  remembers is the tail of just these rows. With `Told`, two stored rows of the same flow
  within its capacity cannot both have been told of.

The end of the module proves of `SegmentCapture`, for every number of presses of
Ctrl+C, `SegmentTypes` (`SegmentTypeOK`), `ExtractionSafety` (`CutOffIsRefused`),
`OrphanFreedom` (`NoOrphan`) and `InterruptIsHeard` (`InterruptHeard`). None of the four
is inductive alone; the invariant adds

* where signals may be (`SignalsInOrder`): none before the first `stop_process_group`,
  and in `signal` there is still one to send, so what has been sent is always a prefix
  of SIGINT, SIGTERM, SIGKILL (lemmas `PrefixLength` and `NextSignal`);
* what the checks have established (`ChecksHold`): a clean exit has closed the file,
  `check` and `extract` are only reached after the exit, and after `check` exit and file
  are ones the code accepts;
* what is known of Ctrl+C (`PressesHeard`): until a KeyboardInterrupt every press was
  in the polling loop, which set `interrupted`; behind one there is a press more than
  the loop caught.

`OrphanFreedom` says what the code keeps, no more: it leaves tcpdump running after an
error it raises (a signal that cannot be sent, a process that outlives SIGKILL), or after
a Ctrl+C that the polling loop did not catch, which may be the first one if the
deadline has stopped the loop.

The only assumption is `InterruptAssumption`: the bound is a natural number.

`OfflineValidationProofs` proves of `OfflineValidation`, for every batch size, retry bound
and set of flows, `ValidationDelivers` (it keeps the types and the contract of send) and
`CompletedExact` (`CompletedIsExact`). As in a live session the verdict compares numbers
and the property speaks of rows, but without a deduplicator the same flow may occur many
times, so the invariant counts. `Told`: the predictions told of lie in the last summary,
and not in the first; `Kept`: unless a row has failed, each flow is among the rows told of
and in the batch together as often as it was read. A step that moves a batch from the one
to the other keeps that sum because a request's rows are its positions (`Places`), one
each. So `completed`, where the batch is empty and the summaries differ by as much as was
told, says that each flow is stored exactly as often as it is in the CSV.

`IngestionRunnerProofs` proves of `FeatureMapping` and `IngestionRunner`, for every model,
mapping table, header and row, batch size and retry bound, `RunnerDelivers`,
`SuccessCompletes` (`SuccessIsComplete`), `RetriesDuplicate` (`OnlyRetriesDuplicate`),
`HeaderDecides` (`HeaderVerdictHolds`), `AcceptedPrepared` (`AcceptedIsPrepared`) and
`AdaptersMakeTheSame` (`AdaptersAgree`). The first two are about the end of a run; while
it goes on

* `Counted`: what was accepted is in the batch or was sent, and so is every fingerprint
  seen; each row is in one of three counters. Exit status 0 leaves the batch empty;
* `Distinct`: a fingerprint is at one place of one submission, or of the batch before it
  is one. So two stored rows with the same fingerprint are of one submission
  (`OwnRequests`: there is no other client here), hence of two of its attempts.

Of the mapping, `CompatibleStructured` says that what the check of a header establishes
holds of each row under it, `AdaptTyped` that what `adapt` returns is a flow `send` can be
called with, and `SameCell` that the two adapters take a feature from the same column.
Two assumptions say what the tables are: `RowAssumption`, that rows are made of cells and
flows by `adapt`, and `TableAssumption`, that the collectors' alias table and
`MAPPING_RULES`, written apart from each other, name the same column for each feature. The
latter is true of the 78 features of the source's tables under the default policy,
CICIDS2017_DATASET_ARTIFACT_REPRODUCTION, and only under it: STRICT_SEMANTIC wants an
independent source for `cwe_flag_count` and `fwd_header_length.1`.

`ExperimentDProofs` proves of `ExperimentD`, for any set of executions of D6 and any
number of deletions, `OnePrediction` (`OneShot`) and `PassVouches` (`PassIsWhole`). The
invariant adds `Owns`: an execution that is past an output is the owner of that file; and
`Once`: whoever owns the rows is the only one that has predicted or will, and without
rows nobody has. The argument is that outputs are opened exclusively, so an
execution can only get past a file that it has made itself, and no other phase writes or
deletes these files (`OthersKeepOut`, `OthersClean`); a deletion of them is seen in `reopened`.
`EvalAssumption` says that no execution is called "absent".

The same module proves `EvaluationTypes` (`TypeOK`), `PinnedAlone` (`PredictsPinned`) and the
action property `FrozenBeforePass` (`PassIsFrozenFirst`): whatever order phases are run,
killed, deleted and repeated in, a PASS finds the model and its records older than the
freeze. No script knows more of that order than the files it finds:

* each file has one place where it is written (`Home`, `FileSteps`), and only an operator
  deletes, a phase at a time, while nobody is at work (`Resting`); so what a script has
  checked to be there stays while it works (`Stays`), the outputs of a phase are there
  from the first on without a gap (`LeftInOrder`), and a script's earlier outputs lie there
  (`Begun`);
* a fit starts with neither outputs of its own nor a final test, and writes the model
  first, since when something is younger than the freeze (`Fitting`); labelling starts with a
  model and with neither labels nor audit (`Preparing`);
* hence where audit and labels lie, nothing is younger than the freeze (`AuditedFirst`): a
  fit in that state could only be one that began before the labels, which want a model, and
  the audit looks at the dates itself;
* the gate sees the audit and the dataset, and the labels come before the dataset; so from the
  gate on nothing is younger than the freeze, and the flows and RF-v2 are the pinned
  ones, since nobody overwrites or deletes them while an execution runs (`Held`).

RF-v1 can be overwritten at any time, so of it there is only `SwapIsNoticed`
(`OneSwapIsNoticed`). Its invariant (`Watched`) counts the replacements since the gate: an
execution that counts none still finds the pinned file and has loaded it, one that counts one
finds another until it is put back; the end verifies the pinned file, so fewer than two
replacements mean that the pinned one was loaded.

`PublicationProofs` proves of `Publication`, for any number of overlapping publications, of fits
and runs and of processes at once, `LoadIsDeclared` (`LoadedIsDeclared`), `PublicationWhole`
(`PublishedIsWhole`) and `EvidenceIsNamed` (`AcceptedIsNamed`). It assumes that there is a
publisher and that none has the name of another script (`PublisherAssumption`), and of the
counts only what is in `CountsAssumption`, so nothing of how they differ between models:

* what a process has yet to write is always the end of its list of outputs (`IsLeft`);
  a model or metrics file that is closed holds one fit (`Kept`), also the copy, whoever of
  several publishers wrote it, since what they leave of a file they have open together is
  not a model;
* a publication that is `alone` is the only writer of the copy, so the hash it takes is
  still that of the copy when it writes the metadata and after its end (`Working`,
  `Hashed`); with no training beside it either (`calm`) it reads and copies files nobody
  changes (`Undisturbed`);
* a loader whose active model was not replaced between hashing and opening
  loads what it has hashed (`Loaded`);
* there is one report, whose run was calm for good or not at all, because a run that finds
  a report does not start (`Reported`); the sync has read that report, and accepts only a
  table that counts like the model whose numbers the report has (`Taken`). Of which hash
  the report declares the check knows nothing; that it is that model's follows from what
  the run had loaded.

`AdaptationProofs` has two parts. Of the split, for any contents of the flow files:
that the policies nest (`PoliciesNest`). It rests on `CapMonotone` (of one finite set, one
ranking keeps with a larger cap what it keeps with a smaller one), on `CapSize` (a cap
of n keeps n of at least n rows: the numbers of predecessors are an injection of the
rows into 0 .. N-1, hence onto) and, from both, on `Balanced` (the balanced policy takes
equally many rows of every class). Of the specification, for any number of sessions,
extractions and deletions: `StrategiesNest` (`StrategiesNested`, of the rows that D3 has
read, `D3Loaded`) and `FitIsAudited` (`FitIsAuditedPlan`), where D4 finds rows again by
identity, and equal files make it find more. Its
invariant says that the files of a phase are there in their order and of one extraction
(`InStep`), that what D4 has checked stays so while it is at work (`D4Checked`: nobody
overwrites, and deletions wait for it) and that what it loaded has the planned counts
(`D4Loaded`); that equal counts per class make a superset of the planned rows equal to
them is `NamedExact`, by cardinalities of finite sets. `DatasetsAssumption` and
`SessionsAssumption` give sessions, rows and classes their shape; `RankAssumption` says
that ranks are integers, `CapAssumption` that the session cap is a natural number.

`ServerProofs` proves of `EvidenceSync`, for every catalogue of documents, any
number of concurrent syncs and any content of the files, `SnapshotWhole`
(`SnapshotIsWhole`) and `SyncImplementsSnapshot` (the refinement `ImplementsSnapshot`).
Between its reads and its commit a sync holds no lock, so the invariant says what remains
true of what it read while others commit:

* `Gathered`: a document it found is still stored with that digest, since nobody deletes
  or changes one; a document it has inserted is stored by nobody yet, since the unique
  key makes the other INSERT wait (`Exclusive`). Past the documents it has one or the
  other of every document of its groups (`ReadAll`, `Passed`);
* `Imports`: an experiment, or the dataset, that it means to insert is not stored. For
  the experiments and above all for the dataset, which has no key, this follows from the
  documents: where the row is missing so are the group's documents (`Store`), so the
  sync has inserted them itself (`Owns`), and no second sync can have. This is the
  argument for the single dataset row;
* so a commit (`Committed`) stores missing documents and rows only, group by group and
  whole (`CommitStep`, `CommitImports`); every other step leaves the store alone (`Alone`).

`EvidenceDocumentsAssumption` is what `CANONICAL_EVIDENCE` satisfies: each group has
documents, no two groups share one, and those the rows are made of are in their groups.

`ServedStaysActive` (`ServedIsActive`) is proved there of the models table, under the
hypothesis that there is one API process, as the deployment has. Its invariant `Kept`
says that what a start has read of its version's row stays true until it commits: an
absent row may appear, but a row that is there stays and an active one stays active, as
only a start deactivates. It matters because the flush does not write `is_active` again
where the SELECT already returned true.

`ReportedServed` (`ReportedIsServedOrNewer`), under the same hypothesis, adds who else may
be active: after a start's UPDATE, nobody but its own version, the evidence version and the
rows it has locked (`Quiet`), and once it serves, nobody but the first two. That "the row
with the greatest id" is one row rests on `RInv`, for any number of API processes: the rows
that are there or being inserted are strictly ordered (`IsOrder`), which an INSERT keeps
since it draws a greater id than all (`AddLast`), and a rollback since it takes one row out
(`DropRow`), the one that no other sync has inserted (`InsertedOnce`). With `Linked` (an
idle sync holds nothing, one with a model link has selected that experiment) and the
invariant of the sync this is `EvidenceTypes` (`TypeOK`).

Of `AdminSessions` the module proves, for any number of browsers, users, alerts and tokens,
`AdminTypes` (`AdminTypeOK`), `DroppedDead` (`DroppedStaysDead`) and the action property
`SettledStays` (`SettledIsFinal`):

* a refused or revoked token is out of `sessions` and a login takes a fresh one, so it stays
  out (`Forgotten`); nothing that happens to its user matters;
* `AckCommit` alone changes an alert, and only a handler that has read `ACTIVE` takes it;
  no call reads `ACTIVE` of an alert that is acknowledged, and nothing makes one active
  again. So once the last call that had read it has ended, in whatever way, nothing
  replaces the acknowledgment;
* that the times of acknowledgments stay within the clicks is a count (`TimesCounted`): the
  latest time, the calls at work and the clicks that have not led to a call yet are together
  no more than the clicks. Each step moves one from one of these to another, or drops it,
  and a commit uses a call up for the time it adds; that there is a latest time is kept
  along (`LatestIs`), which makes sense of "1 + the maximum" for infinitely many alerts too.

Every safety property of a passing run has a theorem. Only model-checked is liveness
(`SessionEnds`, `CaptureEnds`, `StalePageLeaves`): it needs ENABLED, which is out of
TLAPS's reach here. The three properties that are violated have no theorem, of course.
Nothing here is proved about recursion: folds and sequences of the models are used through
their library facts. `ServedStaysActive` and `ReportedServed` want one API process; with
two, both properties fail, as the hazards say.

## 5. What could come next

1. Two API processes in `ModelRegistry`, if the deployment should ever start them.
2. A second click that interrupts a running script, in `AdminSessions`.
3. Proofs of the three liveness properties, with a prover that has ENABLED.

## 6. Not modelled

Numerical work (the fit of a forest, metrics, scenario validation, preprocessing of
pandas frames), read-only pages and endpoints, layout of exports and reports, request
validation beyond acceptance, DDL, configuration, logging, Docker images, and the one-off
scripts that compare an extractor, reproduce an older result or diagnose a distribution:
these run alone over fixed inputs and leave nothing that another part reads, so there is
no order or failure in them to check. Each is listed with its reason under `components`
in `PROJECT.json`.

What the models assume: a hash is the content; a database transaction has its effects at
its commit, under READ COMMITTED with the unique keys of the migrations; clocks appear only
as the choice of an expiry or a timeout; the operator deletes the files of a phase of
Experiment D together and while no script is at work (deleting single files could pair an
older audit with newer manifests); two runs of a phase with a single output, or of one
phase of D0 to D4, do not overlap. The trainings and the scripts of Experiment C are
one process each at a time; publications may overlap, and so may executions of D6.
