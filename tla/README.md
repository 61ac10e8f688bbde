# sslctlw: models, checks and proofs

sslctlw manages TLS certificates on Windows/IIS.  A scheduled task runs it once
a day; a run asks a deploy server about each managed order, submits a CSR or
waits or fetches the certificate, installs it on the IIS bindings, and writes
what it knows to one JSON file.  The program is sequential within a run, but a
run can die between any two writes, any write and any request can fail, the
server and other submitters move in between, and a GUI, `setup` and the task
share the same files.  That is what the models are about.

Sources are named relative to the repository root (`src/` in `PROJECT.json`).

## Contents

| File | What it is |
| --- | --- |
| `Issuance.tla` | local mode: key pair, CSR, issuance, adoption of one certificate |
| `MCIssuance.tla`, `MCIssuance.cfg`, `MCIssuanceLive.cfg` | its instances |
| `IssuanceSpec.tla` | what that promises the owner of a certificate and the server |
| `IssuanceProofs.tla` | theorems about it, and that it keeps the promise |
| `DeployAttempt.tla` | pull mode and IIS bindings: deployment rounds and their quotas |
| `MCDeployAttempt.tla`, `MCDeployAttempt.cfg`, `...Recorded.cfg`, `...Skipped.cfg` | its instances |
| `DeploySpec.tla` | what the rounds promise to who reads the record, IIS and the reports |
| `DeployProofs.tla` | theorems about it, and that it keeps the promise |
| `BindVerify.tla` | one endpoint's binding through capture, delete, add, verify, restore |
| `BindingSpec.tla` | what that promises its callers |
| `MCBindVerify.tla`, `MCBindVerify.cfg` | its instance |
| `BindProofs.tla` | theorems about it, and that it keeps the promise |
| `AutoRun.tla` | runs over all certificates: batches, credentials, conflicts, callbacks |
| `MCAutoRun.tla`, `MCAutoRun.cfg`, `AutoRunProofs.tla` | its instance, theorems about it |
| `SharedConfig.tla` | the processes that share `config.json` and `deploy.lock` |
| `MCSharedConfig.tla`, `MCSharedConfig.cfg`, `...Record.cfg`, `...Setup.cfg` | its instances |
| `ConfigSpec.tla` | `config.json` as a register: what a save promises |
| `SharedConfigProofs.tla` | theorems about it, and that it keeps the promise |
| `ValidationFiles.tla` | validation tokens below the web roots, and who owns them |
| `MCValidationFiles.tla`, `MCValidationFiles.cfg`, `ValidationProofs.tla` | its instance, theorems about it |
| `Upgrade.tla` | the tool replaces its own executable |
| `UpdateSpec.tla` | an update at one instant: what that promises |
| `MCUpgrade.tla`, `MCUpgrade.cfg`, `UpgradeProofs.tla` | its instance, theorems about it |
| `VersionOrder.tla`, `VersionOrderProofs.tla` | the comparison of two versions, and that it is an order |
| `PROJECT.json` | components, runs, mutants, source map, findings, hazards, theorems |

A definition called a mutant in its comment is a plausible bug, kept next to
the definition it replaces; each property is paired in `PROJECT.json` with a
mutant that breaks it.

## Inventory

| Component (source) | State | Operations | Interacts with |
| --- | --- | --- | --- |
| Issuance, local mode (`deploy/auto.go`, `deploy/lifecycle.go`) | per-certificate metadata: issue state, CSR hash, retry count, clean-up and resubmit marks, no-progress clock | gate, query, ownership check, wait, submit, discard, adopt, stall | key store, configuration, API, rounds |
| Deployment rounds (`deploy/auto.go`) | attempt count, attempt under way, failed bindings and their retry count, unchanged rounds, recorded certificate | count, replay, bind, adopt, judge, cap, call back | bindings, configuration, API |
| Key store (`cert/keystore.go`) | pending key, official key, certificate per order | save, promote, remove, load | issuance |
| Configuration (`config/config.go`) | one JSON file | load, save whole file (temporary file and rename), `.bak` recovery | everything that runs |
| Batch run (`deploy/auto.go`, `auth_gate.go`, `flock_*.go`) | lock file, batch cursor, refused credentials of this run, renewal window | lock, choose batch, resolve conflicts, process, save, wait for callbacks | the above |
| Binding replacement (`iis/netsh*.go`) | HTTP.sys binding per endpoint | capture, delete, add, verify, restore | rounds, setup, GUI |
| Validation files (`deploy/validation_files.go`) | tokens in web roots, ownership records in the metadata | place, remove, recover | issuance |
| API client (`api/client.go`) | renewal window last returned | query, submit (not retried), call back and switch (retried) | issuance, rounds |
| Setup (`setup/setup.go`) | none of its own | query, install, bind, merge into the configuration | configuration, bindings, API |
| Self-upgrade (`upgrade/`) | executable, backups, upgrade status | check, download, verify, apply, roll back | file system |
| GUI (`ui/`) | check in progress, last report; a configuration per dialog | start check, show, edit and save | configuration, batch run |
| Certificates (`cert/` other than the store) | none | convert, install, verify, parse | Windows APIs |
| IIS inventory (`iis/appcmd.go`), scheduling, utilities, migration, diagnosis | none | wrappers, parsing | Windows tools |

What is hard in it: a crash between the steps of an operation that spans a key
file, the configuration and the server; an answer that is lost after the server
has acted on the request; counters that must survive crashes and must not be
cleared by the success of a different thing; a partial success; state recorded
in one run and used in a later one, when the server has moved on; and whole-file
saves by several processes.  `PROJECT.json` lists each such place under
"hazards", with the properties that cover it, or with the reason why none does.

What makes each component correct: *issuance* never loses the private key of a
CSR that may have been accepted, submits boundedly, and deploys what was issued
before asking again; *rounds* are bounded, remember what failed, report each
outcome once, and leave no healthy binding behind; the *key store* always keeps
one copy of a key that is needed; the *configuration* loses no update; the
*batch run* is alone and reaches every certificate; *binding replacement* ends
with the new or the old certificate or says that it did not; *validation files*
on disk are owned by a record; an *upgrade* always leaves an executable to start.

How the modules share the system:

- `SharedConfig` shows that one run at a time has the process lock.  `Issuance`,
  `DeployAttempt`, `AutoRun` and `ValidationFiles` describe that one run and take
  a save of the file as one step that happens or fails.  Where `SharedConfig` also
  shows that a run may start from an older document (`config_record_lost`), those
  four say nothing: what they promise holds as long as no record is lost.
- `AutoRun` walks over the certificates; what it does to one of them is a single
  step with the outcomes `Issuance` (local mode) and `DeployAttempt` (deployment)
  take apart.  `ValidationFiles` is the part of the waiting state that `Issuance`
  leaves out.
- `DeployAttempt` takes for granted what `BindVerify` is shown to promise.
- `Upgrade` touches none of the others' state.

## Issuance

One certificate, one program counter.  A step is cut wherever the code writes
the configuration, writes or removes a key file, sends a request or receives
its answer, so that `Crash` and the failure actions lie between the same points
as in the code.  `mem` is the metadata of the running process and `disk` what
the file holds; a run starts from `disk`.  A key pair names everything made from
it: the CSR, its hash and the certificate issued for it.

| Model | Code |
| --- | --- |
| `StartRun`, `Gate*` | `processOneCertWithSaveAndGate` up to the query, `evaluateAutoActionGate`, `stalledTooLong` |
| `Own*`, `Confirm*` | `checkPendingOwnership` |
| `Drop*` | `discardPendingIntent` and, in a later run, `recoverPendingCleanup` |
| `Decide*`, `Foreign*`, `Issued*`, `Reset*`, `HealthySkip`, `RenewalDue` | `handleLocalKeyMode`, `selectIssuedPrivateKey`, `tryUseLocalKey`, `resetIssueStateForResubmit` |
| `Submit*`, `Mark*`, `Generate*`, `Intent*`, `Post`, `Reply*`, `Posted*` | `submitNewCSR`, `submitPendingCSR` |
| `Deploy*`, `Adopt*`, `Promote*`, `Accept*` | the deployment part of `processOneCertWithSaveAndGate`, `finalizeSuccessfulDeployment`, `PromotePendingPrivateKey` |
| `Stall*` | `markStalled` |
| `NoProgressClock`, `Finish*` | `settleNoProgress` and the closing save of `runAutoDeploy` |

The deploy server is external and modelled as the code relies on it: an order
has one action at a time, an active order accepts a CSR, another does not, an
action is issued or stops and may recover, and other submitters take part.

`IssuanceSpec` is the promise, without files, intents and program counters: a CSR
leaves only while its key is held and only when the certificate of the CSR before
it is in use; a key that is on its way or accepted is not given up; what is put
to use was offered and its key is there; a closed certificate is left alone.
`KeepsLifeCycle` maps to it: a key is *held* if it is the official one or the
pending one with its intent on disk (`Held`), for that is what the next run can
use; the *offer* is what the run has seen on an active order.

Abstracted: bindings and their quotas (`DeployAttempt`), validation files, a
change of the order number, CSR files, the hash format of old configurations.
Validity has four values (more than the renewal window, within it, within the
24 h margin, expired) and only changes between runs; days are cut off, so a
certificate is still due to be renewed on the day it expires (`RenewalDue`).  The
POST of a run is settled before the next run starts.

### Runs

| Run | Instance | Shows |
| --- | --- | --- |
| `issuance` | 2 own keys, 2 other keys of which one comes with a private key from the API, 2 submissions, 1 fault; 6.1 million states | `KeepsLifeCycle`, `AcceptedKeyRecoverable`, `SubmitStartsClean`, `IssuedIsDeployedFirst`, `ClosedIsFinal` |
| `issuance_live` | 2 own keys, 1 other, 1 submission, 1 fault, fairness; 0.6 million | `AttemptsBounded` (more keys than submissions, so that the limit is what stops them), `AcceptedIsSettled`, `CleanupCompletes` |

Two own keys are the least for a second submission while the first is open, two
other keys for an order that is taken over after management began.  A fault is a
crash or a failed operation; an answer to a POST that is lost or unreadable
(`ReplyUncertain`) is not, it may happen to every submission.  So one fault
suffices for the failures during the recovery from a lost answer.

Fairness (`FairSpec`): the task runs daily and a run ends (`WF Run`); a request
is answered or times out; and a no-progress clock that keeps running from run to
run reaches its limit of 14 days (`SF GateStall`), because the model has no days
to count.  Nothing is assumed about the server ever issuing.

## DeployAttempt

One certificate with several bindings.  The server renews it; a run may deploy
it (`Fetch`), counts the attempt on disk before it touches IIS (`Attempt*`,
`Intent*`: `persistDeployAttempt`), binds one binding after the other (`Bind*`),
and saves the outcome: adopted by all (`AllBound`), adopted with failed bindings
(`SomeBound`), judged unchanged (`AllBoundUnchanged`), failed (`AllFailed`,
`InstallFails`, `AdoptionFails`) or nothing done (`NoTarget`).  Only then it
calls back.  A binding that fails may show the old or the new certificate or
none, which is what `bindAndVerify` can leave behind.  `Movable` bindings may be
missing from a round, because another certificate claims them or IIS no longer
has them; a retry that succeeds on the others clears them from the failed set
too, so nothing is claimed about failures of movable bindings.  A round may also
find none of its bindings at all (`NoTarget`) and then does nothing.  `base`,
`hurt`, `starts`, `same` and `reported` are history.

Abstracted: the no-progress clock (in `Issuance`), validation files, change of
the order number, certificates without a serial number (the code then compares
expiry dates), the transport of the callback.  `UnchangedCertRounds` stops at
its limit in the model; the code only compares it with the limit.

`DeploySpec` is the promise, without quotas and without a copy in memory: the
bindings, the record on disk (certificate, failed bindings, attempt begun or
not, closed or not), the round under way and the outcome not yet reported.  A
binding is touched only when the record says that there is something to do; a
certificate is recorded as deployed only by a round that bound it, together with
exactly the bindings that failed; an outcome is reported after it is on record.
`RoundsAccountedFor` maps to it with `Recorded(disk)` and `Underway`: a save is
the step of the record, and a save that fails is a round that is cut short.

### Runs

| Run | Instance | Shows |
| --- | --- | --- |
| `deploy_rounds` | 3 bindings of which one comes and goes, 2 certificates, 2 attempts, 1 fault, fairness; 1.1 million states | `RoundsAccountedFor`, `RetryKeepsQuota`, `AttemptsBounded`, `FailedSiteRemembered`, `HealthyServeAdopted`, `ReportedOnce`, `SameCertBounded`, `PartialSettles` |
| `deploy_retry_newer_cert`, `deploy_renewal_skipped` | 2 bindings, no fault needed | violations: see Findings |

Three bindings are the least for a partial retry of a partial failure.  The
limits of 10 attempts and 10 retries are 2, enough for a limit to be approached
and reached; two certificates suffice for everything that compares one with
the next.  A binding that fails is not a fault, it may happen in every round; the
fault is a crash or a failed save.  Fairness is the daily task again.

## BindVerify

One HTTP.sys endpoint and several callers of `BindCertificate` /
`BindCertificateByIP`: the deployment run, `setup` and the GUI dialog, which no
common lock keeps apart.  `pc[p]` is the step of the caller's task, one action per
netsh command or query.

| Model | Code |
| --- | --- |
| `Begin`, `Capture`, `CaptureUnknown` | the snapshot; without an answer nothing is touched |
| `Unbind`, `Add` | the two commands, whose reports `bindAndVerify` does not believe |
| `Served`, `Verify`, `StateUnknown` | `queryBindingWithRetry`, `classifyBindingState` |
| `NothingToRestore`, `StillThere`, `Rollback`, `DropCurrent`, `DropFails`, `ReAdd`, `Restored`, `NotRestored` | `rebindOldBinding`, `restoreBinding` |
| `NewBinding`, `OldBinding`, `WriteBack` | `buildRebindArgs`, `sslParamNetshArgs` |
| `Crash` | the process dies; a task persists nothing |

A binding is its certificate, the AppID (this program's default or the
administrator's own), the set of advanced parameters set on it and the
certificate store.  `Answers` are those of a query: in full from httpapi, minimal
from netsh (no advanced parameters; the store only in a known language), none, or
"no binding" in error, because a netsh that was started and failed for another
reason reads like that (`netsh.go:168-181`).  `Writable` are the parameters
`sslParamNetshArgs` can write; flag bits it does not know are lost even by a full
restore, which `netsh.go:49-50` admits, so `SettingsKept` speaks of `Writable`.
`origin`, `faults`, `warned`, `alarm`, `excused` are history.

Abstracted: the validation of the arguments, the 200 ms before the second look,
IPv6 endpoints (always answered by netsh, hence inside `Answers`), and the text of
errors and logs.

`BindingSpec` is the abstract promise: a task that refuses has touched nothing;
one that says "served" or "restored" says so while the endpoint serves that
certificate; a task binds nothing but the certificate it was given or the one it
found.  `KeepsPromise` is the refinement.  The outcomes of a failed binding in
`DeployAttempt` (old, new or none) are the ones this promise leaves open.  Not
promised, because the code does not do it: that a rollback spares what another
caller has bound in the meantime.

### Run

`bind_replace`: 2 callers, 3 certificates of which one lives in another store, 3
tasks, 1 answer in error, one parameter netsh can write back and one it cannot, a
netsh whose store line is not recognised; 3 million states.  Two callers are the least that overlap; the third task follows an
overlap or a loss and must meet its result; a second and a third failure of one
task need no bound of their own, as a task is a straight line.  For the same
reason there is no liveness to state.  `excused` names what `SurvivesOneFault`
and `SettingsKept` do not cover (overlap, a death half-way, an answer in error, a
store guessed wrong, a second failure); `LossReported` and `KeepsPromise` have no
excuse.

## AutoRun

All managed certificates, one run after the other.  An entry has an expiry, an
order number, a credential (URL and token) and the endpoints its rules claim.

| Model | Code |
| --- | --- |
| `Eligible`, `Batch`, `NextCursor`, `StartRun` | `selectBatch` and the start of `runAutoDeploy` |
| `StartOne` | a run of a single certificate, which leaves the cursor alone |
| `GateClosed`, `GateSkips`, `Refused`, `Unanswered` | the gates in front of the query (expiry always closes; CAPPED and policy may), `authGate` |
| `Due`, `NothingNew`, `Targets`, `Deploys`, `DeployFails` | the rest of the entry: due or not, and `executableRuleTargets` |
| `SendCallback`, `SaveCert`, `SaveCertFails` | the save of the entry and the callback started after it |
| `CallbackChanges`, `CallbackEnds`, `Records` | `sendCallback` and the record of its window |
| `WaitCallbacks`, `Finish`, `FinishSaveFails` | the end of `runAutoDeploy` |
| `NextDay`, `Edit` | the clock; the administrator enables, disables, adds or removes an entry |

Callbacks end in any order and also while later entries are handled.  A cursor
that names an order number no entry has any more is `Stale`.  A run of one entry
may come between two runs of the task.  `turn`, `since`, `refused`, `skipped`,
`wrote` and `changes` are history.

Abstracted: what happens inside an entry; the place of an entry that is added
(an entry that is not there is one that is not enabled); rules that name no
endpoint.

Run `auto_run`: 3 entries in batches of 2, so that a batch ends within a round and
the cursor wraps; two tokens on one server, one of them of two entries; two
entries that claim one endpoint; windows of 1 and 2 days on certificates of 3
days; one edit or single run and one fault; 0.6 million states.  The clock stops
after 2 days, runs go on.  Fairness: the task is started and runs to its end
(`WF Run`), a callback is answered or times out (`WF CallbackStep`).  No fairness
is assumed of edits, faults or the clock.

What it shows: `BatchFilled` (no run of the task takes fewer entries than it may),
`NobodyOvertaken` and `EveryEntryHandled` (turns), `RefusedOnce` and
`OthersStillAsked` (credentials), `OneWriterPerRun` (endpoints claimed twice),
`LatestCallbackWins` (windows).

## SharedConfig

Several processes and goroutines, one step per file operation.

| Model | Code |
| --- | --- |
| `StartTask`, `LoadForRun`, `LoadFails`, `NoCertificates`, `OpenLock`, `TryLock`, `AlreadyRunning`, `LockFails`, `CloseLock`, `RemoveLock`, `RemoveOpenLock` | the callers of `runAutoDeploy`, which load first, and its lock (`flock_windows.go`) |
| `Acts`, `Closes`, `NothingToDo` | what a run records: one more action, or that the entry is closed |
| `Loads` | `Load`: a document of an older version (`legacy`) is written back in its new form (`loading`), under `configMu` but without the lock, before anything is done with it |
| `SaveOpen`, `SaveWrite`, `SaveRename`, `SaveCollides`, `SaveFails` | `Save`, `atomicWriteFile` |
| `StartCheck`, `Panics`, `EndsTooSoon`, `SetReport`, `ShowStatus`, `EndCheck` | `background.go`; a check that cannot load or panics has failed without a report (`"broken"`) |
| `OpenDialog`, `EditDialog`, `CancelDialog` | `dialogs_cert_manager.go`, `dialogs_upgrade.go`, the buttons of `mainwindow.go` |
| `StartSetup`, `MergeSetup`, `SetupFails` | `setup.go`, `mergeSetupCert` |
| `Crash` | a process dies; its handles are closed, its open files stay as they are |

The document is one entry: whether it is there, open or closed to automatic
actions, and the number of actions it records.  Goroutines of the GUI share
`configMu`, nobody else does.  Files behave as on Windows: Go opens them without
sharing deletion, so a file that is open can be neither removed nor renamed nor
renamed over.

Abstracted: the several saves of one run are one; the reading of `config.json.bak`,
which is written and read outside the protocol; what the migration of an old
document changes in it.

`ConfigSpec` is the document as a register: whoever loads holds what was there, and
changes it in his hand (`Act`, `Remove`, `Add`); whoever saves puts it there at one
instant, or nothing happens.  It does not promise that nobody has saved since.
`SavesAtomically` maps to it: an actor holds its document from its loading to the
end of its save; the rename is the instant.  Once a save without the lock, by an
editor or to write an older document back, has met another (`mixed`) nothing is
promised, as in `FileWhole`: two runs that start at the same time after an upgrade
of the tool may tear the file, later ones may not.

| Run | Instance | Shows |
| --- | --- | --- |
| `shared_config` | a task, 2 checks, a dialog, a setup, 2 identities for the lock file, 1 edit, 1 fault, a document that may be of an older version; 1.5 million states | `RunsExclusive`, `FileWhole`, `StatusMatchesReport`, `SavesAtomically` |
| `config_record_lost` | a task and a check, no fault, no older version | violation: see Findings |
| `setup_keeps_block` | a task and a setup, no fault, no older version | violation: see Findings |

Two lock-file identities are the least for a lock on a file that has been removed
while another is created; three runs are the least for one to hold, one to open
and one to remove it.

## ValidationFiles

The web roots of all certificates at one relative path, and the records of what
the client owns there.

| Model | Code |
| --- | --- |
| `Submits`, `StillProcessing`, `Accepted`, `Expires`, `GateCloses` | what a run does to the order, from the point of view of its tokens |
| `Reuse`, `ReuseOwns`, `Refuse`, `Create`, `Own`, `OwnFails`, `PlaceFails`, `Placed` | `PlaceToken` below each root, `handleProcessingOrder` |
| `Undo`, `UndoFails` | `rollbackValidationToken` |
| `CleanRoot`, `CleanFails`, `EndClean`, `DropRecords`, `DropFails` | `cleanupOwnedValidationFiles` |
| `Stalls`, `StallNotSaved`, `StalledCleanup` | `markStalled`, and the retry in front of the gate |
| `AdminEdits` | whoever else writes below a web root |
| `SaveCert`, `SaveCertFails`, `Crash` | the save of the entry; the process dies |

`by` says who put a file there: the client cannot see it, it only compares
contents with its records.  `made`, `touched` and `astray` are history.

Abstracted: the resolution of roots and paths, the refusal of links and reparse
points, directories that are created on the way and stay.

Run `validation_files`: 2 certificates that share one of two web roots, 2
contents, 2 orders, 1 edit by somebody else, 1 fault; 0.7 million states.  Two
certificates on one root are the least for one's token to be the other's
obstacle; two orders for the token of a former order to be in the way of the next.
A rollback that fails costs no fault of its own, so the double failure is in
range.  Fairness is the daily task (`WF Run`).

## Upgrade

Any number of processes of the tool, each of which may replace the executable.

| Model | Code |
| --- | --- |
| `Start`, `CheckUpdate`, `Download`, `Verify`, `GiveUp` | `checker.go`, `DownloadAndVerify` (`SumMatches`, `SignatureValid`); what fails can be tried again with the release that was found (`Retry`), until the dialog is closed (`Forget`) |
| `Prepare`, `StepAside`, `Open`, `Write`, `Finish` | `PrepareUpdate`, `ApplyUpdate`: rename the executable away, copy the new one to its place |
| `StepAsideFails`, `CopyFails`, `CopyFailsUnnoticed` | its failures; the copy may also be cut off without an error |
| `Return`, `ReturnFails`, `Restore` | the restore inside `ApplyUpdate` |
| `NothingToUndo`, `RemoveExe`, `GoBack`, `GoBackOrFail`, `Failed` | the rollback by plan around it |
| `Exit`, `Reboot`, `Release` | a process ends or is killed; the system removes what it was told to; a new release |

The image of a running process can be renamed but not removed or written: that is
what makes the renaming necessary, and what makes some of the undoing impossible.
Excluded by assumption: two updates prepared within the same second, which would
share a time stamp.  Releases are numbered: that `CompareVersion` allows it is what
`VersionOrder` is about, a pure operator on versions as `splitVersion` and the
splits at dots leave them, where a word is its place among the words in the order
of strings.  Abstracted: what makes a signature valid, progress, the
network.  `Upgrader.Rollback()`, `GetLatestBackup` and the clean-up of old backups
are never called by the program and are left out.

`UpdateSpec` is the promise: one variable, the *tool* whoever starts it will run, and
an update that changes it at one instant, to a version that was verified and is
newer than the process that installs it, or not at all.  `UpdatesAtomically` maps to
it: while the executable is moved aside or half copied, the tool is its backup
(`Between`), and the installation happens when the copy is complete.  The
promise ends when two updates meet, a process is killed in the midst of one, or
four operations have failed.

Run `upgrade`: 2 processes, 3 releases, 3 updates, 4 failed file operations,
kills and reboots anywhere; 1.3 million states.  Four failures are one more than
an update survives (`Startable`); the third update starts from an executable that
two others have left.  `MCUpgrade` also evaluates `CompareVersion` on the versions
of `checker_test.go` (`ReleasesInOrder`, `ShorterIsFilledUp`).  A failed or killed update may stop for good, so there is no
liveness to state.

## Findings

Each is a counterexample of a run marked `violation`, with the line of the
repository it contradicts in `PROJECT.json`.

- `HealthyServeRecorded`: a retry of failed bindings that meets a renewed
  certificate installs it there only, and records it as deployed everywhere.
- `RenewalNotSkipped`: in pull mode the renewal window is compared with the
  expiry of the certificate the server offers; a renewed one is far from it and
  is skipped until the deployed one has expired.
- `RecordKept`: a run that has loaded before another run saved takes the lock when
  the other has given it back, and saves the older document over it.
- `SetupReopens`: setup, run again for a closed certificate as the program asks,
  leaves the mark that closes it.

## Observations

What the models show of the code where the repository says something else or
nothing clear, or where only the reader can judge.  No run is spent on them.

- A discarded issuance that the safety margin stops from being repeated is
  forgotten; the next run takes the certificate on the order, for which this
  machine may have no key, for a healthy one (`Abandon`, `SubmitTooLate`,
  `HealthySkip`; compare `deploy-spec.md:693`).
- A certificate that expires with a CSR pending keeps the pending key and its
  tokens; a closed certificate has no later run that removes them (`GateExpired`;
  `deploy-spec.md:610`).  Only the no-progress limit cleans up.
- A retry of failed bindings counts as a round with an unchanged certificate
  (`deploy-spec.md:755`).  When the retry quota is used up the order is not even
  queried any more, so the healthy bindings get no later certificate either
  (`deploy-spec.md:735`).
- After an accepted deployment a token that could not be removed is only tried
  again at the next acceptance (`deploy-spec.md:709`): `StalledTokensGo` speaks
  of stopped certificates because only they have a retry of their own.
- A token left astray by a crash, or of another content, makes `PlaceToken`
  refuse that root from then on.
- Two claimants of equal expiry that are both renewed in one run may each leave
  the endpoint to the other for that run.
- Two overlapping updates, a failed copy and a kill can leave no whole copy of the
  tool.  A kill between the rename and the copy leaves the name of the executable
  empty, and nothing repairs that: the copy in `.backup` has to be put back by hand.
  A rollback after a restore that worked reports that the backup does not exist,
  although all is well.
- Without any overlap, an older verified release that one process fetched before can
  replace a newer one that another process has installed meanwhile: the version is
  compared with the running process when it is fetched and with nothing when it
  is installed (`upgrade.go:164-186`).  `UpdateSpec` therefore promises a version
  newer than the process that installs it, not newer than the tool.

## Proofs

`IssuanceProofs.tla` proves for any set of keys, any limit and any number of
faults: `TypeCorrect`, `RecoverableAlways`, `SubmitStartsCleanAlways`,
`ClosedIsFinalAlways`, `AttemptsBoundedAlways`, `IssuedIsDeployedFirstAlways`,
`LifeCycleKept`.  From `IssuanceAssumption` alone.  `AcceptedKeyRecoverable` is not inductive: it
says nothing about a run that is about to remove the pending key.  `IInv` adds
what each program counter knows: between runs memory is what is on disk; while a
pending key is being dropped the intent on disk is already cleared and the
server's CSR is another one, or the certificate is closed; no POST is on its way
outside `wait`; the key about to be posted is pending with its intent on disk;
at adoption the certificate fetched is the one on the order.  `CountInv` relates
the submissions the server has seen to the count on disk and in memory.
`DeployedInv` says that a submission is only reached when the order's
certificate is deployed or was made from somebody else's CSR.  Each is proved
per group of actions and then for `Next`.  `LifeCycleKept` maps every action to
one of `IssuanceSpec` or a stutter, with all three and `OfferInv`: a run that
submits or deploys has seen an active order, a pending key that is about to be
used has its intent on disk, and the certificate to be deployed has its key.

`DeployProofs.tla` proves every invariant the runs of `DeployAttempt` check, for
any set of bindings, any limits and any number of certificates and faults, from
`DeployAssumption` alone: `TypeCorrect`, `RetryKeepsQuotaAlways`,
`AttemptsBoundedAlways`, `ReportedOnceAlways`, `SameCertBoundedAlways`,
`FailedSiteRememberedAlways`, `HealthyServeAdoptedAlways`, and `AccountedForAlways`,
which maps each step to one of `DeploySpec`.  The field lemmas say once what each step does to the metadata.  The strengthenings build on each
other and were model-checked first:

- `TypeInv`: a binding retry is counted before the query that may take it back.
- `SnapInv`: at which points memory, disk and `snap` agree, so that the copy a
  failed save falls back to is what the file holds.
- `QuotaInv`: a remembered failure and a counted attempt exclude each other.
- `CountInv`: every round begun since the last adoption is counted on disk; a
  replay is not, so what it gives back would be a round that took place.
- `PaidInv`: a new attempt of a certificate with failed bindings is not its first,
  so giving it back leaves one counted.
- `ReportInv`: an attempt under way, in memory or on disk, was not called back.
- `SameInv`: rounds in a row with one certificate are counted by
  `UnchangedCertRounds` up to its limit and from there on as attempts.
- `RoundInv`: which bindings a round has bound, failed and still has to do.
- `RememberInv` and `ServeInv`: `FailedSiteRemembered` and `HealthyServeAdopted`
  in memory and on disk at every point of a run.
- `AccountInv`: what each save that is about to happen will change in the record,
  and that the result of a round, as computed in memory, is one `DeploySpec` allows.

`HealthyServeRecordedSame` is about a finding.  `HealthyServeRecorded` does not hold
(`deploy_retry_newer_cert`), but `Spec /\ []RetriesSame` implies it, where
`RetriesSame` says that a retry is given the certificate the other bindings have
(`BaseInv`: the recorded certificate is the one adopted everywhere).  So the
renewal between failure and retry is the only thing that breaks it.

`BindProofs.tla` proves every property of `bind_replace` for any callers,
certificates, stores, parameters and numbers of tasks, from `BindAssumption`
alone: `TypeCorrect`, `LossReportedAlways`, `SurvivesOneFaultAlways`,
`SettingsKeptAlways`, and `PromiseKept`, which maps each step to a step of
`BindingSpec` or a stutter.  `LossInv` adds that a binding is missing only
while a task that has come past its delete command is under way, or after the alarm.  `StoreInv` says that a binding names
the store its certificate is in.  `SoloInv` describes, step by step, what a lone
task with at most one failure has found and left (`StepInv`); overlapping tasks
are excused, so the other callers are idle.  `SettingsInv` says that the binding,
the snapshot and what will be added from it all carry the original settings.

`AutoRunProofs.tla`, for any entries, claims, credentials, batches and windows,
from `AutoRunAssumption` alone: `TypeCorrect`, `RefusedOnceAlways`,
`OthersStillAskedAlways`, `LatestCallbackWinsAlways`, `OneWriterPerRunAlways`,
`NobodyOvertakenAlways`, `BatchFilledAlways`.
`GateInv`: the gate knows the credentials that were refused, no more and no
fewer.  `CallbackInv`: the window remembered is that of the highest callback.
`OneWriterPerRun` is the hard one, as the run judges the claimants on metadata it
changes itself: `WriterInv` says that whoever has written an endpoint goes before
every claimant still to come, with its new expiry and with the one on disk, to
which a failed save falls back; for that a new expiry must not be below the old
one (`ExpInv`).  The least entry still to come exists by `NatLessThanWellFounded`.
For `NobodyOvertaken`, `TurnInv` keeps the turns in a circle: the batch is what
stands between its first entry and the next cursor, and whoever waits stands,
counted from the head, before all that have had their turn since its own
(`HeadMoves`, `BatchPrefix`).  `BatchFilledAlways` counts what `selectBatch` takes
(`BatchCount`): the last entry of a batch has fewer than `Limit` before it
(`GreatestExists`), so the batch is not larger; the first that is left out has
`Limit` before it, all of them in the batch.

`SharedConfigProofs.tla`, for any runs, editors and lock files, from
`SharedConfigAssumption`: `TypeCorrect`, `RunsExclusiveAlways`, `FileWholeAlways`,
`StatusMatchesReportAlways`, `SavesAtomicallyAlways` (each step is one of
`ConfigSpec` or a stutter).  `LockInv`: whoever has the lock file open has the
file of that name open, since an open file cannot be removed, so that locks are
on one file.  `SaveInv`: unless a save without the lock has overlapped another, one
actor saves at a time and finds its document in the temporary file.  `CheckInv`:
one check is under way, what it has reported is what it shows, and one that is
broken has reported nothing.
`RecordKeptAlone` is about a finding.  `RecordKept` does not hold
(`config_record_lost`), but `Spec /\ []LoneHand` implies it, where `LoneHand` says
that no two actors have a document in hand at once; `RecordInv`: then the document
in hand records no less than the file.  The overlap is all that loses a record.

`ValidationProofs.tla`, for any certificates, sites and contents, from
`ValidationAssumption`: `TypeCorrect`, `NoTokenAstrayAlways`,
`ForeignFilesKeptAlways`, `PlacedEverywhereAlways`.  `TokenInv` (in `TypeInv`): a
token is placed for an order that has one.  `OwnInv`: memory and disk have the
same records, and what is to be dropped is gone.  `MadeInv`: what is recorded was
made.  `PlaceInv`: every root done holds the token or was touched.

`UpgradeProofs.tla`, for any processes, versions and numbers of updates and
faults, from `UpgradeAssumption`: `TypeCorrect`, `OnlyVerifiedAlways`,
`SuccessInstalledAlways`, `LastCopyKeptAlways`, `StartableAlways`,
`UpdatesAtomicallyAlways`.  `WorkInv`:
what an updater works with was found, checked, and has a time stamp of its own.
`FileInv`: who is writing has the file open.  `LoneInv`: what an update finds at
each step while nobody else installs.  `CopyInv` strengthens `LastCopyKept` to a
copy the system has not been told to remove.  `HealthInv` counts the failures
each stage of the undoing has cost; the fourth breaks it.  `NewerInv`, for the
refinement: the release that was found, and the file to be installed, are newer
than the process that installs it.

`VersionOrderProofs.tla`, for versions of any lengths, without assumptions:
`Antisymmetric`, `Transitive`, `NoWayBack`.  A comparison comes down to the first
segment that differs (`Trichotomy`, for sequences filled up without end), which
makes it a total order of what it tells apart (`CompareIsOrder`).  `Upgrade` may
therefore number its releases.  No induction over the lengths is needed, because
a set of positions has a least one.

`TypeOK` of every component is proved (`TypeCorrect`) and checked by no run: it
would be the same formula again on a small instance.

Only model-checked: liveness (`AcceptedIsSettled`, `CleanupCompletes`,
`PartialSettles`, `EveryEntryHandled`, `StalledTokensGo`), which is out of the
prover's reach, and the violations.  The theorems assume what
the modules do: the behaviour of the server, of Windows files, of netsh.

## Plan

Done: the modules above with their proofs, in this order: `Issuance`,
`DeployAttempt`, `BindVerify` with `BindingSpec`, `AutoRun`, `SharedConfig`,
`ValidationFiles`, `Upgrade` with `VersionOrder`.

Five of the modules implement an abstract specification: `BindVerify` (`BindingSpec`),
`Issuance` (`IssuanceSpec`), `DeployAttempt` (`DeploySpec`), `SharedConfig`
(`ConfigSpec`), `Upgrade` (`UpdateSpec`).

Left, in this order:

1. An abstract specification of `ValidationFiles` (which root holds whose token, and
   the record of it as one step) and the proof that it is implemented.
2. What joins two modules: that a step of `AutoRun` over one entry is what
   `DeploySpec` allows for it.
3. `config.json.bak`: the recovery when the file is torn or missing, and what a
   document from before does to the records in it.
4. The rest of setup: several certificates, rules that are merged.
5. The choice of a certificate from the answer of the API.

## Not modelled

- *IIS inventory, scheduling, diagnosis, utilities, command line*: wrappers around
  Windows tools and the parsing of their output, without state.  The models take
  their results as inputs.
- *Certificates* (X.509, PFX, the Windows store): calls that succeed or fail.
- *Migration* of old documents: what it rewrites is a sequential, idempotent
  conversion; when it is written back is modelled (`Loads`).
- *Encryption at rest* of keys and tokens: a data conversion; the key files of the
  models are there or not.
- *API client*: repeats of safe requests within a call and parsing.
- *Widgets* and texts of the GUI.
- *`_windigo`*: vendored bindings for the Windows API, 56 of the repository's 74
  thousand lines: constants and system calls, no logic of this program.  Together
  with the wrappers, the widgets and the tests of the other parts it is why the map
  names a small share of the lines.
