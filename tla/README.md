# HermesDDNS in TLA+

This directory specifies the core of HermesDDNS (`src/products/hermes`, a Go
server over SQLite and BIND) in TLA+, checks it with TLC and proves its safety
with TLAPS. The rest of the repository is documentation of the planned OLIMPO
control plane, the migration plan, and an imported predecessor that no build
uses. Paths below are relative to `src/products/hermes`.

## 1. Inventory

| Component | State | Operations | Talks to |
|---|---|---|---|
| DDNS credential rotation (`internal/credential`) | `ddns_credentials`, `ddns_credential_rotations` | RequestRotation, StageCandidate, StartValidation, ConfirmCredentialUse, Rollback, ReconcileExpiredGrace | called by the admin and agent routes, by every successful DDNS update, and by a background ticker |
| DDNS authentication (`internal/ddns`, `Authenticate`) | `last_used_at` of a credential | select, touch | reads the credential table |
| DDNS update (`internal/ddns`, `Update`) | `domains`, `hosts`, `devices.last_ip`, update log | find or create the domain, find or claim the host, publish, save | BIND through `internal/dns` |
| BIND updater (`internal/dns`) | none; the zone is BIND's | Upsert (Delete has no caller) | `nsupdate` |
| Agent enrollment (`internal/enrollment`) | `agent_enrollments` | Create, Exchange, Confirm, Revoke, and the sweep in List, Get and Revoke | agent identity |
| Agent identity (`internal/agentauth`) | `device_identity_credentials` | issue, authenticate, revoke | middleware of every agent route |
| Heartbeat and telemetry (`internal/telemetry`) | one snapshot per device | Report, Status, ListStatuses | devices |
| Network context (`internal/networkcontext`) | snapshot, WANs, networks per device | Report (replaces), Context, ListContexts | devices |
| HTTP API (`internal/api`) | none | routes, createDevice, createDomain, listings | all of the above |
| Managed names (`splitManagedFQDN` of `internal/ddns`, `splitCSV` of `internal/config`) | none; the setting `HERMES_DOMAINS` | hostname to label and zone | `Update` |
| Agent middleware (`internal/api/agent_routes.go`) | the request's context | authenticateAgent, agentContext | agent identity; heartbeat, network context, rotation, confirmation |
| Start-up (`cmd/hermesddns`, `internal/config`, `internal/database`) | configuration | seed the domains, start the reconciler | |
| Secrets (`internal/security`) | none | generate, parse, verify | |
| hermesctl, build information, deployment, tests, legacy source | | | |

What is hard in it:

* A **DDNS update** reads its credential, changes BIND, writes rows and confirms
  the credential in separate statements. Meanwhile the credential may be rolled
  back, superseded or revoked by somebody else.
* **Two stores** (SQLite and BIND) are written one after the other; a failed
  statement, a failed `nsupdate` or a crash leaves them different.
* **Two reconcilers** (the ticker and the administrator's route) work through a
  list and a time they read earlier. One error ends the whole pass.
* "At most one open rotation, open enrollment, active identity" is ensured by
  **counting before an insert**; no index backs it.
* The same **deadline** is compared with `After` in some places and with `<=` in
  others, against the wall clock, which may be set back or ahead.
* An agent's **identity is checked once**, in the middleware; the handler acts
  on the device it named, whatever was revoked meanwhile.
* A **partial heartbeat is validated with what is stored**, and a device's state
  is an age by a clock that may be set back or ahead.
* A network context is **read in three or four statements** while a report
  replaces its rows.
* Addresses and hostnames go through **ordered, overlapping rules**: address
  blocks, NAT evidence, nested zones.
* **Answers get lost**: a confirmation error is only logged, an identity key is
  returned once.

What makes each component correct: a rotation never locks a device out, never
trusts a key before it was seen to work and always ends; the answer `good` means
the address is served and the owner of a hostname stays its owner; an enrollment
token yields one identity, once, and a revocation leaves none behind; an agent
that reports is online and one that is silent or revoked is not; a read never
goes back in time; a hostname keeps its zone and an address its scope.
`PROJECT.json` lists the hazards line by line with the properties meant for them.

## 2. Modules

| Module | What it is |
|---|---|
| `RotationLifecycle` | abstract: the phase of each device's key replacement, as `docs/credential-rotation-26.08-02.md` promises it |
| `CredentialRotation` | the two tables, all service transactions, the steps of a DDNS update that matter to them, both reconcilers, faults, clock |
| `CredentialRotation_proofs` | theorems: the tables agree, proof comes before retirement |
| `CredentialKeys_proofs` | theorems: which keys a device may use |
| `RotationLifecycle_proofs` | theorem: `CredentialRotation` implements `RotationLifecycle` |
| `DDNSUpdate` | `Update` statement by statement over hosts and BIND, with faults and address changes |
| `DDNSUpdate_proofs` | theorems about it |
| `AgentEnrollment` | enrollments and identities, the two transactions of Revoke, the statements of an authenticated request, lost answers |
| `EnrollmentLifecycle` | abstract: the life of one-time tokens and agent identities, as `docs/agent-enrollment-26.08-02.md` promises it |
| `AgentEnrollment_proofs` | theorems about it, the last that it implements `EnrollmentLifecycle` |
| `AgentReports` | heartbeats merged and validated, the online threshold under a clock set back and ahead, network reports and their readers statement by statement |
| `AgentReports_proofs` | theorems about it |
| `AgentChannel` | composes `AgentEnrollment` and `AgentReports`: identity, middleware, handler, stored row |
| `AgentChannel_proofs` | theorems about the composition |
| `NetworkIdentity` | operators: address scopes, NAT states, validation of a network report |
| `ManagedNames` | operators: `HERMES_DOMAINS` and `splitManagedFQDN` |
| `InputRules` | calls of these operators, on inputs that a run enumerates |
| `InputRules_proofs` | theorems about them, for any inputs |
| `MC...` | symmetric or concrete instances of these for TLC |

Operators whose comment starts with "Mutant:" are plausible bugs; no
specification uses them. Each is put in place of the operator defined after it
to see that the property written for it notices.

### How state and actions correspond to the code

*Tables* are functions from rows to records with a status `"none"` for rows that
do not exist yet. A credential row is named by its unique `key_id`, an enrollment
by its `token_id`. Timestamps no decision reads are left out;
`last_used_at` is the Boolean `used`, `activated_at` the Boolean `activated`.

*Transactions* (`DB.Transaction`) are single actions. SQLite serialises them: a
transaction that read a row which another one has changed since fails with
SQLITE_BUSY instead of committing. A failed transaction changes nothing, so it
is a stutter unless the handler's local state changes too (`RequestFails`,
`PassFails`, `RevokeFails`).

*Statements outside a transaction* are actions of their own, with the handler's
locals in a program counter record: `upd[q]` and `pass[p]` in
`CredentialRotation`, `req[q]` in `DDNSUpdate`, `req[q]` and `adm[a]` in
`AgentEnrollment`. A crash resets these and keeps the rows.

*Refused operations* (404, 409) are disabled actions. *Time* is `now`, in
minutes, read where the code calls `s.now()`. Only its value matters to a deadline,
so a clock set ahead is several ticks; `AgentReports`, which judges how long an agent
was silent, tells the two apart.

*Counting before inserting* (open rotations, open enrollments, active identities) is
within one transaction, hence one action: that two transactions cannot both count
before either inserts is taken from SQLite and not shown here. What `OneOpenRotation`
and `OneOfEach` show is that nothing else leads to a second one: late confirmations,
rollbacks and reconcilers, identities issued by exchange and by hand.

`CredentialRotation`: `ddnsUpdate` is `DDNSArrive`, `AuthSelect`, `AuthTouch`
(which writes without looking at the status again), `UpdateSucceeds`, and
`ConfirmCredentialUse` or `ConfirmNothing`. `ReconcileExpiredGrace` is
`ReconcileBegin` (time), `ReconcileSelect` (list) and one `ReconcileItem` per
rotation, in any order. `Rollback` has one action per kind of status.

`DDNSUpdate`: the zone maps a label to the set of addresses served. `told[d][l]` is
what device `d` was last told about label `l`. Nothing in the code makes one request
wait for another. `ClientsWait` is an assumption on each client alone: a device does
not update a label while its own update of it is being served. Requests of different
devices for one label overlap in every run with several devices. `Uncontested` labels are those that at most
one device may create: the policy `device-prefix`, and no two device names that lead
to the label. The agreement of row, zone and answer is stated for these only; for a
label that several devices may create (`any`, or the names `hq` and `hq-lab`) what is
true is `OnlyClaimsCollide` and `AnsweredOwn`, and section 5 shows what is not. A failed `nsupdate` may or may not
have taken effect. `createDomain` is absent: it accepts only configured names,
which `EnsureDomains` has inserted at start-up, so it always answers 409. A
domain is created by `Update` only if its configured name ends in a dot and a
blank, which `splitCSV` leaves in place; `Init` allows both.

`AgentEnrollment`: `held` is the set of identities whose key reached an agent;
an exchange whose answer is lost leaves an identity outside it. An identity may
also be issued or revoked by hand. `EnrollmentLifecycle` sees the tables from the device:
`offered` are its pending tokens, `claimed` its issued ones with their identities,
`accepted` its active identities, `void` and `dismissed` what was revoked or expired,
`enrolled` what was confirmed. It has no clock, requests or administrators; an expiry
and the first transaction of Revoke are `Withdraw`, the second is `Cancel`, and it
allows an identity to be dismissed (`Dismiss`) while its token stays claimed, as a
revocation by hand leaves it. Every agent route authenticates alike, so a
request either confirms or leaves these tables alone.

`AgentReports`: `Heartbeat` is `telemetry.Service.Report` and `Report` is
`networkcontext.Service.Report`, each one transaction. One pair `total`, `avail`
stands for memory and for disk, which the code treats alike; `NULL` is an omitted
field. `Merged` is the row as `applyHeartbeat` leaves it, `Accepts` the two
validations. The row holds its *age*, which is what the code computes from it:
`Tick` makes it a unit older as time passes, `SetClockAhead` makes it older and
`SetClockBack` younger while none does, and a row a reader has fetched moves along
with the table's. Ages above `OldAge` are kept there: even after all
corrections they exceed the threshold. `silent`, the time that really passed,
and `sent`, the reports so far, are history no action decides by, but that the
report's number is its position in `sent`. A row of a report is that number and
a name. `Context` is `ReadDevice`, `ReadIdent`, `ReadWANs`, `ReadNetworks`,
`Answer`; `ListContexts` runs the same statements for the fleet, of which
a reader follows one device, and does not stop at a missing snapshot (`fleet`).
A read that fails is one that goes no further.

`AgentChannel`: the last step of the middleware (`AuthTouch`) hands the
identity's device over to a handler (`Enter`, `job[q]`), which stores a report or
nothing. It instantiates `AgentReports` without readers, who change nothing.
Both models share one clock and one crash. `reports` repeats the variables of
`AgentReports` as a tuple of this module, for UNCHANGED.

`NetworkIdentity` and `ManagedNames` are pure. Addresses are sequences of four
octets (`IPv4`) or sequences that are none and stand for other spellings, hostnames
sequences of labels with a flag for a dot at the end; only the tokens that parsing
tells apart exist. The configured zones are a function from places in
`HERMES_DOMAINS`: what `splitCSV` drops leaves a gap, so that order and position
are kept without a recursive filter. `buildWAN` and `validateInput` are
written in the code's order. `InputRules` receives one call at a time and
evaluates it, so that each property speaks of arguments and result.

## 3. What TLC checks

Deadlock checking is on in every run.

| Run | Instance | Shows |
|---|---|---|
| `RotationOneDevice` | 1 device, 3 keys, 2 rotations, 2 updates, 2 reconcilers, clock set back once | `TypeOK`, `RotationsAgree`, `NeverLockedOut`, `NoOrphanedKeys`, `ProofBeforeRetirement`, `OnlyActivatedKeysUsed`, `FirstOutcomeStands`, and that the tables implement `RotationLifecycle` |
| `RotationTwoDevices` | 2 devices, 4 keys, 2 rotations, 2 reconcilers, 1 fault | `OneOpenRotation`, `GraceBoundary`, `GraceHonoured` |
| `RotationLiveness` | 1 device, 1 rotation, 2 reconcilers, 2 faults, clock set back once | `GraceEnds`, `ValidationEnds` |
| `DDNSWaiting` | owner and stranger, one label, 3 addresses of both families, 2 concurrent requests, each device waiting for its own, 3 address changes, 2 faults | `TypeOK`, `StoresAgree`, `GoodIsServed`, `OwnersAreFound` |
| `DDNSConcurrent` | 2 devices that may both claim the label and one that may not, 3 concurrent updates, 1 address change, 1 fault | `OwnersAreFinal`, `OnlyClaimsCollide`, `AnsweredOwn` |
| `EnrollmentSafety` | 2 devices, 2 enrollments, 3 identities, 1 fault | `TypeOK`, `OneOfEach`, `LinksAgree`, `CompletedIsProven`, `TokensEndOnTime`, `OutcomesStand` |
| `EnrollmentCompletes` | 1 device, 2 enrollments, 2 identities, 1 fault | `ConfirmationSucceeds`, and that the tables implement `EnrollmentLifecycle` |
| `InputRules` | both ends of every address block; one and two WANs under peers of every kind; hostnames of up to four labels under settings with nested zones | `ScopeDocumented`, `NATDocumented`, `PeerEvidenceOnce`, `NamesStayPut`, `AdditionsKeepNames`, `OrderIrrelevant` |
| `AgentReports` | 1 device, 1 reader, 3 reports of one interface and two networks, counters 0..2, threshold 1, clock set back once and ahead once | `TypeOK`, `PresenceAccepted`, `SilenceJudged`, `ReadsAdvance` |
| `AgentChannel` | 2 devices, 1 enrollment, 2 identities, 1 request, 1 fault, clock set back once and ahead once | `ReportsAreAuthenticated`, `RevokedGoesOffline` |
| `DDNSStaleNochg`, `DDNSClaimRace` | see section 5 | violations |

**Bounds.** A rotation uses two keys and one row, so three keys and two rotations
let a second rotation start from the key the first one put in place, or from the
one a rollback restored, while leftovers of the first (a request, a pass) are
still in flight. Two requests and two reconcilers are the pairs that can
race; all requests, and all reconcilers, run the same code. Grace periods and
token lifetimes of one minute put every comparison before, at and after the
deadline within two ticks; the clock runs on past `MaxTime` while a deadline is
ahead. `DDNSWaiting` has one label because two labels share only the domain row.
`MaxFaults`, `MaxMoves` and `MaxBackSteps` bound events, not reactions to them.
In `AgentReports` three reports let each of a reader's lists be of another one;
one reader is enough as readers change nothing, and one device as the service's
statements name one. `MaxBack` and `MaxAhead` bound corrections of a unit each, the
size of the threshold there, so that an agent heard within its threshold is judged
offline, and one that is silent for longer online. `AgentChannel` has a threshold of 0, which is a heartbeat in
the same unit of time: the property is about what happens at last. `AgentChannel` has two devices so that a report could
land on the wrong one; administrators and token expiry are left to
`EnrollmentSafety` (a credential is revoked by hand here). `InputRules`
enumerates octets next to every boundary of the code's prefixes, and one address
of each scope for the combinations.
`EnrollmentCompletes` has two identities: one an enrollment is exchanged for and one
issued by hand or for the other enrollment, each of which may be lost or revoked; that
devices are independent in the refinement is part of its proof.
Reconcilers are interchangeable in safety runs, where symmetry is used; liveness
runs use none.

**Fairness.** `Scheduling`: the clock advances, the ticker of `RunReconciler`
(`internal/credential/service.go:299`) fires for ever, and a request that is being
served gets its next step (net/http handlers run to completion or fail, which is
the fault). `ClientRepeats`, `ClientsRepeat` and the strong fairness of
`AgentSpec` say that clients try again, as inadyn does periodically and as
`docs/agent-enrollment-26.08-02.md:48` expects of agents; they are strong because
other requests may occupy the server in between. `ValidationEnds` supposes that
the client updates a hostname it may update: a refused update confirms nothing.
`ChannelSpec` assumes the clock and the steps of a served request only: agents may
keep reporting, or not, and `RevokedGoesOffline` holds either way.
Administrators are never assumed to act. Liveness holds with a bounded number of
faults, as it must.

## 4. What is proved

Every safety invariant and every action property of a passing run, and both
refinements, are theorems for all values of the constants.

`CredentialRotation_proofs` proves, for every number of devices, keys, rotations,
requests and reconcilers, every grace period and every bound:

* `TypeCorrect`: `Spec => []TypeOK`.
* `RotationsConsistent`: `Spec => [](OneOpenRotation /\ RotationsAgree)`. No
  RowsAffected check of the service can fail, so `ErrInvalidRotationState` never
  blocks the reconciler. `OneRotationAtATime` states its first half by itself,
  `[]OneOpenRotation`, what the credential rotation document promises.
* `NothingRetiredUnproven`: `Spec => []ProofBeforeRetirement`.
* `CandidatesNotTrusted`: `Spec => []OnlyActivatedKeysUsed`.

They rest on `RotationAssumption` (NULL is no device, key or number; the
background reconciler is a reconciler; grace periods lie within 1..1440).

*Argument.* `RotationsAgree` and `OneOpenRotation` are inductive only together and
with the types (`TablesInv`): that no action on one rotation disturbs the row of
another follows because two rotations whose keys meet are open rotations of the
same device, hence the same one. An operation touches only keys of one device
(`Confined`), so rotations of other devices keep agreeing (`ConfinedStep`), and the
device's own rotation is alone (`OpenAlone`); what is left is one lemma per
action. `ProofBeforeRetirement` speaks of the moment of the confirmation, but what
makes it true is known to the request long before: `UseInv` adds to `TablesInv`
that a request past `AuthSelect` carries an activated key (`RequestOK`) and one
past `AuthTouch` a used one, and that a key not pending was activated (`RowOK`).

`AgentReports_proofs` proves, for every number of devices, readers, interfaces,
networks and reports, every counter size and threshold and any corrections of
the clock in both directions, all four invariants of its run: `ReportsTyped`
(`Spec => []TypeOK`), `SilenceIsJudged` (`[]SilenceJudged`),
`PresenceIsAccepted` (`[]PresenceAccepted`) and `ReadsOnlyAdvance`
(`[]ReadsAdvance`). They rest on `ReportsAssumption` (NULL is no device and no
number; the bounds are natural numbers).

*Argument.* An age can be wrong only by the corrections of the clock since the
heartbeat: `AgeInv` bounds the stored age by `silent + ahead` from above and by
`silent - back` from below; a fetched age has the lower bound only, as a
heartbeat may come after the read. The types need it, since without
it an age could sink below any bound. `LimitKept` says that a stored pair keeps
its limit, which `validateSnapshot` ensures because it sees the merged row;
then a heartbeat that brings nothing new is valid. `ReadsAdvance` speaks of a
finished read; `ReadersAgree` says what each label of the reader
knows, and survives a new report because reports only append to `sent`
(`HistoryGrows`).

`CredentialKeys_proofs` proves of the same model, resting on these theorems:

* `NobodyLockedOut` (`[]NeverLockedOut`), `NoKeyForgotten` (`[]NoOrphanedKeys`),
  `GraceEndsOnce` (`[]GraceBoundary`) and `FirstOutcome` (`FirstOutcomeStands`).
* `GraceIsHonoured` (`GraceHonoured`), under `MaxBackSteps = 0`, as in its run: a
  clock set back postpones the deadline a pass has already seen go by.

*Argument.* That the tables agree does not exclude a key nobody accounts for.
`KeysInv` adds, per device, which keys are active, pending or in grace: those the
status of its open rotation calls for (`Roles`), or a single active one (`Stable`).
An operation touches keys of one device only (`Touches`), so the others keep theirs
(`OthersKept`), and that of its device follows from the row it writes. For
`GraceIsHonoured`, `PassesInv` says that the time a pass remembers is not ahead of
the clock.

`RotationLifecycle_proofs` proves `ServiceImplementsLifecycle`
(`Spec => ImplementsLifecycle`). *Argument.* `ViewOK` says what the refinement
mapping yields without its CHOOSE: the phase and keys of the device's open rotation,
or its one active key, which exist and are unique by `KeysInv`. Each operation then
changes the view of one device (`OneDevice`) by the abstract step of its name; the
steps of requests and reconcilers that only read are stutters.

`AgentEnrollment_proofs` proves, for any devices, rows, requests, administrators and
bounds (`EnrollmentAssumption`), everything its safety run checks: `EnrollmentTyped`
(`[]TypeOK`), `NeverTwo` (`[]OneOfEach`), `LinksStay` (`[]LinksAgree`),
`CompletionIsProven` (`[]CompletedIsProven`), `TokensEndInTime` (`TokensEndOnTime`) and
`OutcomesAreFinal` (`OutcomesStand`). `TokensEndOnTime` is about what becomes of a
pending token in a step of anybody: it is swept only if due and exchanged only if not,
and is revoked only by the administrator who is in `Revoke` for it. *Argument.* `TablesInv` is what the rows of the
two tables say about each other, and `RequestsInv` what a request under way knows of
the identity it selected; the latter outlasts the steps of others because an identity
never changes its device, never forgets that it was used and stays held
(`IdentitiesKept`).

The same module proves `ServiceImplementsLifecycle` (`Spec => ImplementsLifecycle`).
*Argument.* `Views` says by membership what the refinement mapping yields. Each change
of the tables is one abstract action, by a lemma named after both (`CreateIsOffer`,
`ClosingIsWithdraw`, `ClaimIsExchange`, `IssueIsInstall`, `RevokeIsCancel`, ...); that a
sweep, which may close enrollments of many devices, empties the offers of exactly their
devices needs `OneOpen` of `TablesInv`. The invariant had to be strengthened by
`UsedWereIssued`, without which a new identity might count as proven at once; it is
kept because `AuthTouch` marks only identities that are held. `Prove` admits dismissed
identities: the touch writes by primary key and may come after a revocation.

`AgentChannel_proofs` proves `StoredIsAuthenticated`
(`ChannelSpec => []ReportsAreAuthenticated`). Every step of the composition is a step
or a stutter of `AgentEnrollment`, so `EnrollmentInv` carries over; `JobsInv` adds that
a device handed over to a handler was proven by an identity of its own. For the same
reason the composition keeps to the enrollment lifecycle (`ChannelImplementsLifecycle`).

`DDNSUpdate_proofs` proves, for any devices, hostnames, addresses, policy and concurrent
requests, `UpdateTyped` (`[]TypeOK`), `OwnersStay` (`OwnersAreFinal`),
`OnlyRivalsCollide` (`OnlyClaimsCollide`) and `AnsweredOwners` (`[]AnsweredOwn`), and, if
each device waits for its own answers (`ASSUME ClientsWait`, as in `DDNSWaiting`),
`StoresStay` (`[]StoresAgree`) and `GoodMeansServed` (`[]GoodIsServed`). *Argument.*
`UpdateInv`: a row a request has copied was its device's and still is, so that saving
the copy renames nobody; and who found no row may create one, which outlasts whatever
others do before the request publishes. Hence only the owner is answered
(`AnsweredStep`). `WaitInv`, for labels one device may create: a request of any other
is refused at the lookup, whenever it comes (`Candidate`), so that the requests past it
are the one device's, which sends one at a time (`Alone`), and nobody else has been
answered (`OnlyClient`). Then the copy is still the row, and what was published is
still served (`KnowsStores`). A step that decides nothing disturbs neither
(`QuietStep`), and one that does concerns one label (`OwnStep`). That clients wait is
not enough for a label several devices may create: `DDNSClaimRace` assumes it too.

`InputRules_proofs` proves the six invariants of `InputRules` for every address, every
report of any number of WANs and every configuration and hostname of any length:
`ScopesDocumented`, `NATsDocumented`, `PeerEvidence`, `NamesStay`, `AdditionsKeep` and
`OrderIrr`. `InputAssumption` only gives the inputs their types: four octets or another
spelling, records of the fields of `WANInput`, items that are not empty.
*Argument.* `CallsAnswered` is the inductive invariant: what is kept of a call is what
the operators answer to its arguments. What remains are facts about the operators. For
hostnames: `splitManagedFQDN` decides by the first place whose zone matches
(`FirstDecides`), and a hostname it accepts is split after the first label, whichever
zone that was (`OneVerdict`); two zones above one hostname lie one in the other
(`Nested`), so they are the same if none is nested (`OneOfUnnested`). For addresses: the
library's prefix test is turned into comparisons of octets (`ContainsOctets`,
`PrefixOctets`), and the code's order of questions (`ClassifiedByOctets`) compared with
the documented blocks (`DocumentedByOctets`). For NAT: a report is accepted only if what counts as evidence is
public (`EvidenceIsPublic`), which `natState` does not check for every state; then the
states follow from the table (`StateByTable`).

*Only model-checked:* all liveness (`GraceEnds`, `ValidationEnds`, `OwnersAreFound`,
`ConfirmationSucceeds`, `RevokedGoesOffline`), as TLAPS has no backend for fairness
here.

## 5. Where code and documents part

* `DDNSStaleNochg`. If BIND took an update but the host row could not be saved
  (or the process stopped in between), the row keeps the previous address. When
  the device's address returns to it, `Update` compares with the row and answers
  `nochg` for as long as the address stays, while BIND serves the other address.
* `DDNSClaimRace`. Of two devices that may both create a label, both look before
  either has a row; the one refused by the unique index has already published its
  address over the owner's. Each of them waits for its own answers in this run: nothing
  in `Update` keeps requests of different devices for one label apart. The functional specification creates the row first.

Behaviour worth knowing, which the properties state as it is:

* A clock set ahead makes an agent that was just heard offline until its next
  heartbeat, since `statusFrom` subtracts a stored time from the wall clock;
  `SilenceJudged` bounds the error in both directions by the size of the corrections.
* `docs/agent-heartbeat-telemetry` says a revoked identity cannot heartbeat. A
  request the middleware let in before the revocation is still stored, once.
  `RevokedGoesOffline` is what remains true.
* `ListContexts` may answer `reported: false` together with WANs and networks, when
  a device's first report lands between its queries. `Context` may not.
* A heartbeat with only the available half may be refused against a larger
  value than the stored total, until the agent sends the pair.
* A parent zone listed before a nested one hides it: a hostname below the nested
  zone is refused, since what remains in front of the parent is not one label.
  It is never given to the other zone (`NamesStayPut`).

The first finding needs a fault (`StoresAgree` holds until there is one), the second a
label that two devices may create: `OnlyClaimsCollide` says that a record is published
over another's in no other case, and `AnsweredOwn` that the device that is too late is
never told that it succeeded.

## 6. Not modelled

The update log, listings, HTTP parsing, key generation and hashing (a key matches
only itself), wildcard records (each repeats the plain one), device status (no
operation leaves `active`) and `expires_at` of credentials and identities (never
set), fields of a heartbeat that are validated alone (CPU count, loads, texts) and
columns nothing decides by (`last_seen_at`, `last_ip` of an agent's device,
`agent_version`), the migration of the schema, the legacy source, and the OLIMPO documents,
which have no code. BIND, the DDNS client and the UDM Agent are outside the
repository and appear only through what the server does with them.

## 7. Plan

1. *(done)* `RotationLifecycle`, `CredentialRotation`, its first theorems.
2. *(done)* `DDNSUpdate`, `AgentEnrollment` and their runs.
3. *(done)* `AgentChannel`: identity and reports. Staging and validation need no
   composition of their own: `CredentialRotation` lets anybody call them at any
   time, a request whose identity is revoked included.
4. *(done)* `AgentReports`: heartbeats, the online threshold, readers of contexts.
5. *(done)* `ManagedNames`, `NetworkIdentity`, `InputRules`.
6. *(done)* The safety invariants and action properties of every module as theorems.
7. *(done)* `EnrollmentLifecycle`, and both refinements as theorems.

What could follow: several hostnames under concurrent creation of their domain row,
and a statement-level account of the two updates of one host by one device that the
hazards list names without a property.
