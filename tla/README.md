# MCP Zero Trust Layer: specification and proofs

MCPZT is a gateway between MCP clients and upstream MCP servers. It decides by policy which
messages may pass, asks a person for approval where a policy says so, rewrites or withholds
answers, keeps an audit log with a hash chain, and on request records evidence that a tool call
had its effect exactly once. This directory holds TLA+ modules of its core, the TLC
configurations that check them on small instances, and proofs, checked by TLAPS, that the most
important properties hold for every value of the constants. Paths below are relative to
`src/mcp_zero_trust_layer/` unless they name a document.

To check a module: `tlc -config MCApprovals.cfg MCApprovalGate.tla`. To check its proofs:
`tlapm ApprovalGateProofs.tla`. `PROJECT.json` lists every run with its properties, the source
lines behind each definition, the hazards and the theorems.

## 1. Inventory

### Components, their state and operations

| Component | State | Operations | Module |
| --- | --- | --- | --- |
| Request pipeline (`core/pipeline.py`) | none of its own | `handle`, and from it evaluation, approval, dispatch, filtering, enforcement | PolicyPipeline, and per concern the ones below |
| Policy engine (`policy/engine.py`, `adapters.py`, `conditions.py`, `models.py`) | the configuration | `evaluate` | PolicyEngine |
| Policy analysis (`policy/analysis.py`) | none | coverage, risks and unused reports | PolicyAnalysis |
| Validators and input sections (`validators/`) | none | `validate_input_policy`, `ValidatorEngine.validate`, the SQL lexer | Validation |
| Capability filtering (`capabilities/filtering.py`) | none | `filter_capabilities` | PolicyEngine, PolicyPipeline |
| Output enforcement (`output/enforcer.py`) | none | `enforce` | PolicyEngine, PolicyPipeline |
| Approval store (`approvals/store.py`) | rows in a JSON or SQLite file | `create`, `set_status`, `consume_if_valid`, `consume_in_transaction` | ApprovalGate |
| Approval review (`approvals/ui.py`, `cli/main.py`) | none | `_decide`, `_set_approval_status` | ApprovalGate |
| Execution evidence, gateway (`evidence/runtime.py`, `store.py`) | operations and events in SQLite | `prepare`, `reserve`, `observe`, `prepared`, `reconcile` | EvidencePipeline |
| Execution evidence, destination (`evidence/destination.py`) | ledger, receipts | `execute`, deferred signature, `lookup` | EvidencePipeline |
| Evidence record (`evidence/store.py`) | receipt, conflict marker, history of observations | `record`, `checked_bundle`, `append_observation` | EvidenceRecord |
| External checks (`evidence/checks.py`) | none | the `evidence check` command: verdict, provider query, observation | ExternalChecks |
| Evidence outbox (`evidence/store.py`) | event table with delivered marks | `append`, `flush` | EvidenceOutbox |
| Audit log (`audit/`) | the JSONL file, its flock | `_write`, `verify_audit_hash_chain`, `audit search` | AuditChain |
| HTTP transport (`transports/http/`, `upstream/http.py`) | session registry, cache of upstream session ids | POST, DELETE, `resolve`, `send` | HttpSessions |
| Stdio upstream (`upstream/stdio.py`) | child process, its two pipes, read buffer | `send`, `close` | StdioUpstream |
| Stdio wrapper (`transports/stdio/wrapper.py`) | none | the loop of `mcpzt wrap` | StdioWrapper, StdioClients |
| Discovery (`capabilities/discovery.py`) | none | `discover_capabilities`, `diff_snapshots` | Discovery, StdioClients |
| Onboarding (`capabilities/onboarding.py`) | none | inferred metadata, generated policies | Onboarding |
| Client import (`client_import.py`) | none | `import_client_config` | ClientImport |
| Identity (`identity/auth.py`) | none | `resolve` | not modelled |
| JSON-RPC, configuration, secrets, policy packs, scanner, client snippets, metrics, evidence demos and primitives | none, or one counter table | text in, text out | not modelled |

### How they interact

An HTTP handler thread authenticates a request, resolves its session and calls
`MCPPipeline.handle`. The pipeline evaluates policies and, by the outcome, refuses, creates an
approval, consumes one, or dispatches: it writes the dispatch intent to the audit log, calls the
upstream client, writes the outcome, and filters or enforces the answer. Handler threads share the
approval store, the audit file, the session registry and the upstream client's cache, in one
process or several. Reviewers reach the approval store through a separate UI process or the
command line. On a server with evidence, the call is reserved in a SQLite file which also holds
the approvals; the destination keeps a SQLite file of its own; an operator's `evidence reconcile`,
`check` and `export` use the first of them next to the running gateway. A stdio server is a child
process of the gateway, started for one client: the wrapper's loop or a discovery command. The
offline commands build on each other: `discover` feeds `onboard`, whose configuration the policy
engine runs and the analysis commands report on; `client import` writes one for existing servers.

### What is hard about it

- Threads, processes and commands meet in files: an approval must be used once although it is
  looked at, announced, decided and consumed in different places; the chain of the audit file
  must not fork; flushes of the outbox run side by side.
- Effects cannot be taken back: the dispatch may fail, time out, arrive late or twice, or the
  process may die at any point between the reservation and the answer.
- State is read before a call to the upstream server and used after it (sessions, receipts,
  approvals), while others change it.
- Policies overlap: the same list is evaluated for a call, for its answer and for each listed
  capability, and one precedence has to be right for all of them.
- A write can fail, or be cut short, under a lock.
- A child process answers late, never or unasked, and clients use request ids again.
- A server decides itself how many pages it has and what it calls them.
- Text is read by two programs: the gateway's lexer and the database, the report and the engine.

### What makes each part correct

- Policies: nothing is forwarded, listed or released that a deny or hide policy matches; an
  approval policy is never bypassed; dry run changes nothing; an external engine cannot open what
  the gateway cannot enforce.
- Policy analysis: reports agree with the engine, on what can be deleted and on what is open; the
  report of risks looks at one empty call of each capability, so it can promise no more than that.
- Validators: arguments that are admitted meet the whole input section; a query that was admitted
  does in a database what the validator took it for. The lexer keeps that for standard SQL, and
  otherwise but for the three shapes listed in section 4.
- Onboarding and import: what is generated is as cautious as promised, and what is imported starts.
- Approvals: single use, granted by somebody else than the requester, for exactly this call and
  in time; the trail tells the truth; decisions are final.
- Evidence: at most one effect per call, per idempotency key and per approval; no effect without its
  record; honest answers; every effect is eventually found out; no response without a receipt when
  one is required; histories that verify; a corroboration is about that very refund.
- Outbox: an event is marked delivered only when it was; the order of first appearances is kept.
- Audit: a chain that verifies, writes that are there when they are reported to be.
- Sessions: private to their scope, bounded in number, gone when the upstream server says so or when
  the initialize that opened them failed.
- Stdio: an answer belongs to the message it is returned for; a failed exchange ends the child;
  every request gets a reply.
- Discovery: it ends, and a list without an error is complete.

## 2. Modules

`...Proofs` modules extend the module they are about; `MC...` modules add symmetry sets and
small data for TLC. Operators whose names end in `Bug` are variants of the definition next to
them with a plausible mistake. No specification uses one: they document, and let one try, which
mistakes each property would catch (the pairs are listed under "mutants" in `PROJECT.json`).

### PolicyEngine, PolicyPipeline

PolicyEngine is a set of operators on a configuration and a context: `Matching`, `Selected`
(`_select_by_precedence`, first of least rank), `ChecksFail`, `Builtin`. The external engine
(`adapter: opa`) may answer anything (`External`), which covers its failing open and closed. A
policy is reduced to its effect, the set of capabilities and methods its match block covers (which
stands for server, patterns and metadata), its condition, whether it has input rules or validators,
and what its output rule does to the answer at hand (nothing, rewrite, refuse).

The conditions of a `when` block are members of `Conditions`, and a context holds the set of them
that hold. `OutputConditions` are those about the answer, the others are about the arguments.
`Absent` are the conditions that hold of what is not there, as `not_equals`, `not_in`, `exists:
false` and a pattern that matches the empty text do (`policy/conditions.py:42-53`): they hold of
the missing output on the way in (`Unanswered`), and of missing arguments where a list is filtered
(`Item`) and in reports (`Probe`). Conditions that no policy asks for make no difference, so only
those in `Asked` are enumerated. A `when` block is one condition: a block that mixes arguments,
answer, identity and metadata is not modelled.

PolicyPipeline is one message on its way through `MCPPipeline.handle`. `Receive`, `Evaluate`, then
`Refuse`, `AskForApproval`, `UseApproval` or `Clear` follow `_handle_request`,
`_handle_notification` and the handlers they choose among; `LogIntent`, `Send`, `SendFails` are
`_dispatch`; `Acknowledge`, `NoResponse`, `PassOther`, `ReplyList`, `EvaluateOutput` and `Release`
are the ways back, `_filter_list_response` and `_enforce_output` among them. `EvaluationRaises` is
a comparison of an argument that is not there: the exception leaves `handle`. Servers with evidence
take the same decisions and differ in the dispatch, which EvidencePipeline models.

### PolicyAnalysis, Onboarding, ClientImport, Validation

Operators without state of their own, on top of the policy modules; the `policies` run checks them
at the start state of every configuration and, where they speak about calls, along the pipeline.

- PolicyAnalysis. `Probe` is the context `policy coverage` evaluates: no arguments, so the conditions
  in `Absent` hold, nobody in particular, and checks that may pass or fail. `Coverage`, `Unused` and
  `SevereFinding` are the reports, `Failed` whether the one of risks has failed, `ExitCode` how the
  command ends: `--format json` exits 0 whatever it found.
- Onboarding. An entry is its words (a small set for the regular expressions), its hint and whether
  it has a description; `InferAccess`, `InferRisk` and `Inferred` are the guesses, `Cautious` and
  `ReadOnlySql` the generated policies, `Onboarded` what remains of the base configuration.
- ClientImport. `Valid` are the refusals, `UniqueLogicalName` the loop that finds a free name,
  `Import` the two written configurations, `RuntimeMode` and `DefaultImportPolicies` the rest.
- Validation. `Disallowed` walks nested arguments, which are finite and nested in objects;
  `InputErrors` and `ValidatorErrors` are the input section and the engine that fails closed;
  `SqlCode`, `Statements` and `ReadOnly` are the lexer of the SQL validator, over the characters it
  looks at (a slash, a star, a dash, a quote, a newline and a carriage return are one each; a word
  is one item). Against it stands what databases do with the same text: `In` is the state before
  each character, `Executed` where there is something to execute, by standard SQL or with any set of
  four conventions (`Readings`): a backslash escapes, comments nest, a line comment also ends at a
  carriage return, two dashes begin one only before a blank. `Overlooked` are the shapes the lexer
  reads differently from a database with the convention concerned.

### ApprovalLifecycle, ApprovalGate

ApprovalLifecycle is the promise: an approval is opened, granted or refused, used up by one call,
and lets that call pass once. ApprovalGate is the mechanism: `Calls` are handler threads with the
steps of `_handle_approval_required`, `Sessions` are decisions submitted through the UI or the
command line, and a clock expires approvals. Each store operation is one action because both
backends run it in one exclusive section (flock, or `BEGIN IMMEDIATE`). The UI handles one request
of a process at a time; the races between sessions are those of several UI processes and the
command line. A write to the audit log may fail anywhere, threads may crash. The refinement
mapping reads `stage` off the rows, `uses` off what threads hold and `passed` off what reached
the upstream server.

### OnceOnly, EvidencePipeline

OnceOnly: a call claims its key and its approval before anything happens, compatible with all
earlier claims, and a claim has its effect at most once: `done` counts effects. EvidencePipeline has
the gateway thread of each call (`_send_with_evidence`, `EvidenceRuntime`, `EvidenceStore.reserve`
and `record`), the wire, which loses, delays and repeats, the reference destination with its ledger
transaction and its signature afterwards, and the operator's reconcile command. Keys stand for one
idempotency scope each, `Prints` for request fingerprints, receipts for who signed what. `refunds`
counts the rows the destination's transaction adds per call, next to the `ledger` by which it
recognises a repeated delivery (`Refunded`), and is what the refinement maps to `done`.

### EvidenceRecord

The row of one operation while handler threads and `reconcile` record receipts in any order and
`check` and `export` commands read it: `Record` is the transaction of `EvidenceStore.record`,
`AppendObservation` that of `append_observation`; the three reads of `checked_bundle` are separate
steps, as they are in the code. ExternalChecks is what `check` makes of a bundle: `Claim` the
verdict on its digests and signatures, `MayAsk` the conditions under which the provider is asked,
`EvaluateRefund` the reading of its answer, `Consistent` the constraints on the observation that is
signed, `ExitCode` the command's. It has no state; its property is checked at the start state.

### EvidenceOutbox

Events are numbers 1 to `count`; `flush` selects a batch of undelivered rows, emits and marks them
one by one, and commits. The first mark takes SQLite's write lock, which no other mark or append
gets past until the transaction ends. Calls flush twice and a failing call appends its outcome
without a flush; commands append without a flush.

### AuditChain

A write takes the flock, reads the last line, buffers, flushes, unlocks, and closes, and `close`
flushes once more what a failed flush left behind. The disk may refuse a write (`"full"`) or take
half a line (`"partial"`; a cut is always inside a line). `struck` records which faults have
happened, so that properties can say what each of them may break. A file is a sequence of whole
lines, heads and tails; `Search` is `audit search` with its filter and limit.

### HttpSessions

Handlers of POST and DELETE requests between their steps under the registry's lock and the
cache's, with the upstream exchange in between. A scope is a server and a principal; the idle
clock is the set of sessions that have reached their time to live. Once the pipeline has answered,
`Settle` is what becomes of the session, `Respond` the answer, and `RenderFails` the case in which
the answer cannot be made into JSON: the client gets a 500 without the session's key. Checks of
headers, sizes and origins refuse without changing state and are left out.

### StdioUpstream, StdioWrapper, Discovery, StdioClients

StdioUpstream is `send` with its deadline and `close` with SIGTERM, two seconds, SIGKILL, next to a
child that answers, chatters or exits at any moment. Its stdout pipe and the read buffer are one
sequence of lines, and a line is what it is to the gateway: an answer under an id, or unusable.
StdioWrapper is the loop of `run_stdio_wrapper`, Discovery the handshake, the page loop and
`diff_snapshots`; both send through StdioUpstream. StdioClients composes them: one child and the
one client it is started for. What a list should bring is said without the loop: a path of cursors
that `Leads` from the first page on and `Ends`, and the items its pages hold (`Holds`).

## 3. Runs

Instances are chosen so that each hazard needs no more actors than there are.

| Run | Instance | Shows |
| --- | --- | --- |
| `policies` | 2 capabilities; every list of at most 2 of some 40 policies; conditions on arguments and answer that hold or do not of what is missing; external engine; dry run and strict audit; onboarding listings; client configurations of up to 4 entries; arguments nested 2 deep; SQL queries of up to 16 characters | what is forwarded, listed and released is what the policies together permit; reports agree with the engine; generated configurations are cautious and complete; checks hold for what is admitted |
| `policy_redaction` | the same lists, every redact policy with a rule | fails: see finding 1 |
| `approvals` | 3 calls, 2 reviewers, 1 approval, clock 0..1 | single use, authorisation, truthful trail, separation of duties, and the refinement of ApprovalLifecycle |
| `approval_cli` | the command line as a second path | fails: see finding 2 |
| `evidence_gated` | 2 calls with or without one key, 2 approvals, required mode | no effect without record, honest answers, evidenced responses, the refinement of OnceOnly |
| `evidence_recovers` | 2 calls, ungated, observe mode, fair | every call ends, every effect is recovered |
| `evidence_record` | 3 recorders, 3 readers, 4 receipts, room for 2 reports; every bundle, setup and provider answer | stored histories verify, receipts only advance, checks claim no more than they read |
| `outbox` | 2 calls, 1 command, batches of 2, crashes | nothing skipped, order kept, flush covers the call |
| `audit` | 3 writers, both faults, crashes, strict, fair | the chain verifies while the disk works, what was written is found, every write ends |
| `audit_fork` | 3 writers and a full disk | fails: see finding 3 |
| `http_sessions` | 3 requests (at most 1 without a session), 2 scopes (one with evidence), 2 sessions, room for 1, answers that cannot be rendered | no revived cache entries, private upstream ids, no orphans, a 404 ends the session |
| `stdio` | 6 messages to the child, 3 of the wrapper with 2 ids, 2 unread lines of its own; 2 lists of 5 kinds, 2 pages at most, 2 snapshots; fair | answers are fresh, failures end the child, complete lists, exact diffs, every request is answered, discovery ends |

Why these bounds are enough to be interesting:

- Precedence and shadowing are about pairs of policies, so lists of two show every way one policy
  can hide another; the proofs cover longer lists.
- A stale approval or session needs a reader, somebody who changes it in between and somebody who
  profits: three actors. Two reviewers race; a third adds nothing but another loser.
- `MaxTime` 1 and `Ttl` 1 put the deadline between any two steps. `Limit` 2 is reached and
  exceeded by three. `Capacity` 1 with two keys makes initializes compete.
- Two calls are enough to violate "at most once" per key or approval; a repeated delivery of one
  call's permit needs one.
- A late answer needs two messages with one id; the wrapper sends three with two ids. Two lists of
  two pages end, go round, outrun the limit of two pages or name a malformed cursor.
- The lexer and a database part ways at the beginning or the end of a quote or a comment. The queries
  are every one of up to three characters, alone or after a read, and longer ones of pieces about
  quotes, about comments in comments with a quote among them, and about line comments: they open and
  close each twice and leave a write outside. Without any one disjunct of `Overlooked` the run finds
  a query that is read differently.
- In `http_sessions` only one request has no session, among requests of its own scope
  (`FewStateless`): such a request opens, closes and keeps nothing.
- The bounded sets (`Ids`, `Keys`, `Calls`, `MaxTime`, `MaxMessages`, ...) are the only bounds;
  there is no state constraint. Runs end, so deadlock is not checked; that everything ends is a
  property instead (`EveryCallEnds`, `EveryWriteEnds`, `RequestsAreAnswered`, `DiscoveryEnds`).

Symmetry is used in runs of safety properties only.

Fairness. `evidence_recovers` assumes that a handler thread whose call has been received is
scheduled until it returns, and every wait of it has a timeout, so each step of it is possible
again and again; a crash ends it. It assumes the operator runs `reconcile` until it works, which
`docs/EVIDENCE.md` asks of them. `audit` assumes a writer that holds or waits for the flock is
scheduled. `stdio` assumes that the gateway's thread runs on: in `send` and `close`, whose waits
have deadlines, and in the client's steps after it. Reading the client's next line is not fair. The
child, the destination, the network and the disk are never assumed to be fair.

## 4. Findings

1. `policy_redaction`. README.md:673: "If a matching output policy redacts the response, selected
   fields are replaced with `[REDACTED]`." The answer of a call is evaluated with all policies of
   the call again (`core/pipeline.py:403`); the approval policy that the call has already satisfied
   matches, ranks before `redact`, and leaves the answer as it is. Answers of approved calls skip
   `redact`, `limit` and `transform` policies.
2. `approval_cli`. CHANGELOG.md:87: "the identity that triggered a call cannot approve its own
   request". `mcpzt approve allow` does not look at `require_separation_of_duties`.
3. `audit_fork`. README.md:902: "appended under an exclusive lock so concurrent writers cannot fork
   the hash chain". After a failed flush the line is written by `close`, outside the lock
   (`audit/logger.py:159`), with a predecessor that is not the last one any more.

Observations the models make without a run of their own:

- Sessions. The evidence path answers -32051 for every failure, so the handler does not see an
  upstream 404 and the session stays (`core/pipeline.py:297`; docs/SUPPORTED_PROFILE.md:15 knows no
  exception). `Plain404Invalidates` is stated for servers without evidence. A 404 whose body is too
  long or an event stream loses its status on the way (`upstream/http.py:57`, `:139-155`) and costs nothing;
  an upstream JSON-RPC error that claims to be a 404 does cost the session. The answer is rendered
  outside the `try` (`transports/http/app.py:231`): one JSON cannot say, such as an infinite number,
  is a 500, and if it was to an initialize its session stays open and unknown to the client until it
  has been idle for the time to live. `NoOrphans` names that as the one way.
- Evidence. `evidence export` combines reads of different moments, so a file written while a receipt
  arrives may fail `evidence verify` (nothing stored is affected). `outcome_unavailable`,
  `reconciled` and `external_check_recorded` reach the JSONL log only with the next tools/call on
  that server, since only that path flushes. A bundle that is rejected can still say
  `request_content: verified`. A provider's account and refund that fit one by one but not together
  become `SOURCE_UNAVAILABLE`.
- Audit. A strict audit write cut short leaves a half line; the next write is glued to it, reported
  as written, and the whole of `audit search` fails from then on: `WrittenIsFound` holds until a
  write is cut. `--limit` shows the oldest matches.
- Exceptions. A comparison of an argument that is not there raises: the call or the list fails, and
  `policy coverage` crashes on such a policy. What HTTP turns into a 500 ends the stdio wrapper, as
  does a line with an integer of more than 4300 digits.
- Stdio. A notification or request of the server's own closes the child, which is not started
  again. A child that had to be killed counts as alive until it is dead; an answer of its last
  moments may pass for the next message's (the exception in `AnswersAreFresh`).
- Discovery. `diff` ignores errors, so that a failed listing looks like removals; `DiffIsExact` is
  stated for each list that was read without an error, whatever became of the others.
- Onboarding. The words of an entry are looked for in the entry printed with its field names, and
  "description" contains "script": every described tool without a hint is critical and needs
  approval. The SQL policies of generated configurations (README.md:230) decide no call, as a
  require-approval policy ranks before them; of two tools with the same slug only one gets such a
  policy. Policies and a policy engine of the base configuration are dropped.
- Reports. `policy unused` reports policies that name identities and the generated
  allow-mcp-initialize and allow-mcp-ping, and with an external engine every policy that is not
  global. A critical capability decided by `log`, `redact` or a policy with conditions is no risk.
  `policy risks` misses an unconditional allowance behind a policy whose condition holds of a missing
  argument: with a deny on `arguments.confirm: {not_equals: true}` in front, the empty call of the
  report is denied and the call that confirms is allowed. `RisksAreReported` names that exception
  (`Overshadowed`). With `--format json` the command exits 0 whatever it reports (`cli/main.py:759`).
- SQL. docs/VALIDATOR_LIMITS.md:9 says that nested comments are rejected. The lexer looks for a second
  beginning before the first end only (`validators/basic.py:229-234`), and the three characters
  slash, star, slash are an end to it and may be a beginning to a database that nests comments. A line
  comment ends for it at a newline only (`:225`), and two dashes always begin one (`:224`); databases
  exist that also end it at a carriage return, or ask for a blank after the dashes. `SqlReadsTheSame`
  exempts these three shapes, for databases with the convention concerned, and nothing else.
- Import. An entry whose environment has an empty value is imported and cannot start; entries that
  already point at the gateway over HTTP are imported again; header values that look like `env:...`
  become references. `client import --discover` does not catch a server that cannot start.

## 5. Proofs

Each theorem has the form `Spec => []P` (or a refinement, or an action property) and follows from
an inductive invariant `IInv` of its module: `Init => IInv`, `IInv /\ [Next]_vars => IInv'`, and
`IInv` implies the property. The theorems hold for any number of actors and any value of the
constants under the named assumptions of the module, which say no more than that null values are
not members, bounds are naturals and switches are Boolean. So they also cover the settings no run
uses: `StrictAudit = FALSE`, batches of any size, policy lists of any length. A few assumptions say
what data is: the lists discovery asks for have different names, a field is a path of at least one
key, arguments are finite and what holds a field is an object, a query is a sequence of tokens. Two
theorems have a hypothesis: `StrictWritesAreFound` is about strict audit, and `DutiesAreSeparate`
assumes `require_separation_of_duties` and reviewers who use the UI, since finding 2 is the command
line. Every safety property the passing runs check is a theorem.

- PolicyPipelineProofs. The heart is about one configuration and one context: the selection is well
  defined for every list (`SelectedIsFirst`, from the well-foundedness of the naturals), and the
  effect of any matching policy bounds the decision (`Precedence`). The invariant then carries the
  decision from evaluation to dispatch (`ForwardInv`) and the verdict to the reply (`ReplyInv`).
  `ReportedRisks` rests on what a probe without arguments sees: it matches every policy
  without a condition that the call matches, the deciding one among them (`Unconditional`). So what
  decides the probe allows, too, or is a policy the call escaped because it does not meet a condition
  that what is missing meets (`ProbeSees`).
  `UnusedIsUseless` deletes policies that match nothing, which keeps the order of the others
  (`InOrderIs`) and so the first of them (`OthersDecide`).
- The same module, about generated and imported configurations: each entry of a listing is decided
  by the policies generated for it (`EntryIsCovered`), and whatever is inferred of it is cautious
  (`InferenceIsCautious`). Of the names the import tries one is free, since finitely many are taken
  (`SomeNumberIsFree`), so all it gives are different (`NamesAreUnique`).
- The same module, about recursion. The prover cannot instantiate a theorem of induction, nor the
  theorem that a recursive function exists, so both are made of sets: a set of ranked elements that
  misses one misses one of least rank (`LeastNumber`, `RankInduction`), and a function whose values
  depend on lower ranked ones only has a solution (`Recursion`). With them, `DescentSeesAll` says
  that no field of nested arguments is overlooked at any depth. For SQL they relate two readers of
  one query. The places the lexer has reached keep pace with the database's (`Aligned`, preserved by
  `StaysAligned`): the database is outside of quotes and comments there, and each token that is
  executed so far has its counterpart among the lexer's code outside of quotes, in the same order
  (`Mapped`). What the lexer skips the database skips, whether or not it escapes with backslashes
  (the lexer refuses those) or nests comments (the lexer refuses those, too): `LineSkipped`,
  `CommentSkipped`, `QuoteSkipped`. What ends a quoted value for the one ends it for the other,
  doubled quotes included (`QuotesAgree`, `QuoteCloses`). Each disjunct of `Overlooked` is used in one
  place: where the lexer skips a comment, and where it skips a line.
- ApprovalGateProofs. A row held by a thread is one that this thread alone turned from approved
  into consumed (`HoldInv`, `OneHolder`); granted rows carry a reviewer whose intent was logged
  (`GrantInv`, `SessionInv`). The gate refines ApprovalLifecycle step by step. A row with a reviewer
  on record changes in its status only (`RowSteps`), so what the trail says stays true (`TrailInv`);
  a session that passed the check never decides its own subject's row (`DutiesInv`).
- EvidencePipelineProofs. Each stage of an operation presupposes the record of the one before
  (`FlowInv`), and only the reservation, one transaction, claims key and approval (`ScopeInv`,
  `ApprovalInv`). Refinement of OnceOnly follows, and with it what OnceOnly promises:
  `EffectsAreNotRepeated` is proved of OnceOnly's claims and steps alone.
- EvidenceRecordProofs. An observation is appended only under the committed receipt that is in the
  row at that moment, and a committed receipt is never replaced. `ChecksNeverOverclaim` goes from
  the conditions under which the provider is asked (`AskedAboutACommit`) over what its answer
  evaluates to (`Evaluation`) to what is signed (`AnswerDecides`).
- EvidenceOutboxProofs. A batch holds the earliest pending events, so what precedes one of its
  events is in the log or in the batch.
- AuditChainProofs. As long as no write failed no handle has bytes left after the unlock, so the
  file changes under the flock only; refused writes may fork the chain, but only a cut write mixes
  two lines and hides them from a search.
- HttpSessionsProofs. Keys are drawn once, so the scope of a session is that of its initialize,
  and an upstream id never leaves the key it was issued for. An open session has an initialize that
  runs or was handled well (`OwnerInv`), also when another purge or a failed answer comes between; a
  removed key is never opened again (`GoneInv`).
- StdioClientsProofs. When a message is sent the child owes nothing: no request is unanswered and no
  answer unread, unless it was closed for a failure (`OwedInv`). So an answer with the right id has
  the right number, however ids repeat, for the wrapper and for discovery. In discovery, what was
  found of the list being read is what the pages hold that the cursors lead to (`ReadingInv`), and
  earlier lists are complete or in error (`DiscoveryInv`); a server's pages have one path and one
  content (`OneEnd`, `OneContent`), so the comparison of a list read without an error is exact.

Action properties proved but checked by no run, since each would repeat one it implies:
`DecisionsFinal`, `EvidenceIsMonotone`, `HistoryOnlyGrows`; and `DryRunIsTransparent`.

Model-checked only: liveness (`EveryCallEnds`, `EffectsAreRecovered`, `EveryWriteEnds`,
`RequestsAreAnswered`, `DiscoveryEnds`), since fairness and ENABLED are beyond the prover.

## 6. Not modelled

- Identity (`identity/auth.py`) is a function of headers and configuration; tokens are checked by a
  JWT library. Its result is in the models: the caller of ApprovalGate, the scope of HttpSessions, and
  whether an identity is known in PolicyEngine.
- JSON-RPC syntax, configuration, secrets and the other validators (paths, URLs, e-mail, patterns)
  are data: a message is a request, a notification or unusable, and checks it or does not.
- Policy packs are lists of policies, the scanner and the client snippets text. Metrics are one
  counter table under one lock.
- Cryptography appears as who signed what, digests as what they commit to.
- Redaction and truncation of JSON values in answers and audit events: an answer is rewritten or not.
- The command line is covered where it changes shared state or runs a modelled function (`approve`,
  `evidence reconcile|check|export`, `policy coverage|risks|unused`, `discover`, `diff`, `onboard`,
  `client import`, `audit verify|search`, `wrap`); printing, `init`, `doctor` and `pack` are not.

## 7. Plan

Done, in this order: ApprovalGate, EvidencePipeline, EvidenceRecord, AuditChain, HttpSessions,
EvidenceOutbox, PolicyPipeline; then StdioUpstream with StdioWrapper and Discovery, PolicyAnalysis,
Onboarding, ClientImport, Validation, ExternalChecks, and the proofs of the truthful trail,
separation of duties, orphans, 404 invalidation, reported risks and fresh answers; then those of
complete lists and exact diffs, external checks, unused policies, onboarding, import, nested
arguments, the SQL lexer and effects that are not repeated. Last: conditions that hold of what is
missing, the lexer by characters against four conventions of databases, answers that cannot be
rendered, effects counted at the destination, and diffs of some lists next to others that failed.

Left:

1. Identity: which source of identity wins (`identity/auth.py`), as an operator of the caller.
2. The path and URL validators against what file systems and HTTP clients do, like the SQL lexer.
3. One run over gated and ungated tools instead of `evidence_gated` and `evidence_recovers`.
