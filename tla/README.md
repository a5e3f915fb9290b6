# AliangBoard in TLA+

AliangBoard is a Kubernetes console: a Vue frontend over one Node gateway
process (`server/`), which keeps its state in a synchronous SQLite database and
in its own memory, talks to clusters, SSH hosts and an LLM, and runs the
*workbench*: conversations in which an LLM agent works for a user with tools, some
of which a human has to approve. This directory models the parts of it whose
correctness depends on the order in which things happen, checks them with TLC and
proves the central invariants with TLAPS.

## 1. Inventory

One process, one thread: the code between two `await`s runs alone, and so does
every synchronous database call. What makes the system hard is what lies across an
`await`: a request whose body, references or LLM answer is awaited after its
checks; a *detached run*, which goes on after its HTTP response; a client that
reconnects; a gateway that restarts with half of its state on disk.

| part | state | operations | hard behaviour | correct when |
|---|---|---|---|---|
| **Conversations** `routes/workbench-conversations.mjs`, `workbench-agent.mjs` | rows (status, pending approval, saved queue, checkpoint, trace, messages) in the database; `runEpoch`, `activeRuns` in memory | create, messages, edit, regenerate, approve, deny, cancel, delete, steer, compact; detached runs; startup salvage | several requests and runs per conversation; abort noticed late; restart in a turn; rebind of the cluster | one entitled writer, a turn's output stays in the turn, every turn ends, nothing runs unapproved, twice or on the wrong cluster |
| **Agent loop** `agent.mjs`, `agent-runner.mjs` | tool queue, step counter, messages | chat rounds, gate, tools, steer, wrap-up, resume | pause in mid-queue; late remarks; step cap | each call asked for is answered; nothing after a refusal |
| **Summaries** `workbench-summarize.mjs` | watermark, recap (conversation and project) | automatic summary, compact, project summary | LLM call between read and write, rows cut meanwhile | nothing skipped that is not in the recap |
| **Workbench store** `workbench-projects.mjs`, its routes | projects, conversations, messages, history, files | CRUD, rebind, truncation, repository access | rows of two tables that belong together; a restart between statements | no orphan rows, no half turns |
| **LLM client** `llm.mjs`, `llm-retry.mjs` | a stream | chat, retry | abort, deadline, retry of what was streamed | text is not doubled |
| **Event bus / SSE** `conv-bus.mjs`, `conv-events.mjs`, `conv-stream.js` | subscribers, replayed events | subscribe, publish, snapshot | snapshot against live events | the client ends with the server's state |
| **Project memory** `workbench-persist.mjs`, `workbench-ledger.mjs`, `distill.mjs`, `reconcile.mjs` | files and history of a project | append, distill, reconcile | an LLM call between read and write | the owner's edits win |
| **State kernel** `state/*.mjs` | TTL stores, throttles, single flights | set, take, sweep | expiry, size limits | a ticket is taken once |
| **Platform sessions** `routes/auth.mjs`, `platform-auth.mjs`, `session-*.mjs`, `totp.mjs`, `oidc.mjs`, `rate-limit.mjs` | sessions, tickets, counters | login, MFA, OIDC, revoke, reap, touch | revocation against requests in flight | a revoked session stays revoked |
| **Authorisation** `authz.mjs`, `authorize.mjs`, `k8s-gate.mjs`, `impersonate.mjs` | – | decisions | – | – |
| **API keys, MCP** `auth-keys.mjs`, `mcp.mjs`, `tool-registry.mjs` | key rows, last use | create, revoke, call | usage written behind | – |
| **Credentials** `credentials-store.mjs` | encrypted rows, grants | grant, revoke, use | revocation while a run uses one | – |
| **Kubernetes access** `k8s-watch-mux.mjs`, `sa-provision.mjs`, ... | watches, service accounts | subscribe, provision | shared upstream watch, retried provisioning | – |
| **SSH pool** `ssh/pool.mjs`, its callers | per server and lane a client with a reference count, handshakes under way | acquire, release, evict, idle sweep | joint first connection, death, change of the server's row during a handshake, time-outs that end the client | counts are right, a connection in use is not reaped, an unused one is, a rotation reaches everyone |
| **SSH terminals** `ssh/terminal-service.mjs`, `terminal-handler.mjs`, `terminal-wire.mjs` | per terminal id a session with its sockets, waiters, channel and handle | attach, detach, sweep, kill, delete of the server | browser gone during a handshake; late answer of a shell; late close of a former one; reaper | no handle or shell leaks, everybody waiting is answered, what nobody watches ends |
| **SSH jobs** `ssh/job-bridge.mjs`, `job-remote.mjs` | directories and processes on the remote host; the servers to sweep | run, read, write, list, kill, sweep | scripts given up that go on; reads and sweeps beside a job that writes and ends; host and gateway restart independently | reads are gapless, an exit code comes last, the living are spared and the dead cleared away |
| **SSH files, commands** `ssh/agent-bridge.mjs`, `ssh/sftp.mjs` | streams | exec, transfer | time-outs | – |
| **Process lock** `single-process-lock.mjs` | a lock file | acquire, release | stale lock, crash | one gateway |
| **Frontend stores** `src/stores/*` | caches, optimistic writes | watch, crud, transfers | server event against own write | converges to the server |
| **Frontend views** | – | – | – | not modelled: presentation |

`PROJECT.json` lists each with its sources and what is left out, and every hazard
met while reading, at its line.

## 2. Plan

The order follows what would hurt most. *Done* modules are in this directory.

| module | models | composes | state |
|---|---|---|---|
| `ConversationLifecycle` | what a conversation promises: the diagram of its statuses | – | done |
| `Conversation` | handlers, detached runs, tool queue, restart; implements `ConversationLifecycle` | `ConversationLifecycle` | done |
| `ConversationProofs` | the theorems about `Conversation`: types, runs, turns and refinement; calls and clusters | `Conversation` | done: all its safety properties |
| `Summarizer`, `SummarizerProofs` | rows, watermark and recap of one conversation | – | done |
| `SshPool`, `SshPoolProofs` | the connections to one server | – | done |
| `SshTerminal`, `SshTerminalProofs` | one terminal id, its session, shell and sockets | – (counts the handles it takes from the pool) | done |
| `ClusterWatch`, `ClusterWatchProofs` | lists, version registry and watch channel of a browser, the gateway's multiplexer, a cluster that changes and compacts | – | done |
| `ChatStream`, `ChatStreamProofs` | a conversation as a browser follows it: run, event bus, stream, polls, the user's requests | – (a sketch of the run that `Conversation` models) | done |
| `TurnRecord`, `TurnRecordProofs` | the message rows of a conversation, the events of its turns and the remarks its runs read | – (the runs of `Conversation`, one at a time) | done |
| `RemoteJob`, `RemoteJobProofs` | the background jobs of one SSH host and their directories | – | done |
| `ProjectMemory` | project summary, history, owner's edits, distillation | – | left |
| `Sessions` | sessions, MFA and OIDC tickets, revocation, reaper, touch | state kernel | left |
| `Provision` | service account provisioning and its retries | – | left |
| `ProcessLock` | the lock on which "one gateway process" rests | – | left |
| `OptimisticStore` | the frontend's writes against its watch | – | left |

Every safety property the runs check is proved (section 7). `SshPool` and `SshTerminal` could be composed over the
handles (`held` of the one, the users of the other); what is lost without it is the death
of the connection ending all its terminals, which `ChannelClose` covers one by one. Properties that only count or that TLC settles on one
row are not worth a proof.

## 3. The modules and the code

Common to all: a step is the code between two `await`s. An `await` of a value that is
already there (`await shouldAbort()` with a synchronous callback, `await
needsApproval(..)`) yields only to microtasks, of which none belongs to another actor,
so it does not end a step. Time is not modelled: what a timer does may happen at any
moment. Constants whose names start with `Max` are bounds and nothing else.

### Conversation

Source: `server/routes/workbench-conversations.mjs`, `server/workbench-agent.mjs`,
`server/agent.mjs`, the conversation part of `server/workbench-projects.mjs`, two
handlers of `server/routes/workbench-projects.mjs`.

State in the database: `proj` (the cluster of the project row), `mode` (the owner's
approval mode) and `row`, with per conversation `status`, `pending`
(`pending_tool_call` with its cluster stamp), `saved` (the queue in `pending_state`),
`content` (the checkpoint in `content`), `trace` (the events newer than the last message
row) and `msgs`. Content, events and user rows are tagged with the *turn* that produced
them (`gen`), which is all the properties need of their text. State in memory: `epoch`
(`runEpoch`), `active` (`activeRuns`), the runs, and the requests that wait at an
`await`.

| actions | code |
|---|---|
| `AcceptCreate/Message/Edit`, `CommitSend`, `RejectSend` | the two halves of create, messages and edit around `await buildRefsContext` |
| `Regenerate`, `Deny`, `DenyWithoutLlm`, `Cancel`, `DeleteConversation`, `DeleteProject`, `SetMode` | handlers that await nothing after their first check |
| `AcceptApprove`, `CommitApprove`, `RejectApprove`, `EndStaleApproval` | approve around `await readBody`; `RejectApprove` stands for the lost claim and for the failed bookkeeping after it, whose rollback leaves the row as it was |
| `AcceptRebind`, `CommitRebind` | PUT cluster around `await readBody`, with `invalidateConversation` |
| `Launch` (in the handlers) | `runConversation` / `resumeConversation` up to their first await |
| `GatePause`, `ExecTool`, `SkipTool`, `ToolDone` | the tool queue: approval gate, execution, refusal, the event of the result |
| `ChatStart`, `Delta`, `ChatTools`, `ChatFinal`, `ChatError` | one LLM round with its checkpointed text |
| `Return`, `Catch`, `Exit` | the ends of `runConversation`, with `handleAgentResult`, `cancelledCatchGuard`, `safeSalvage` and the `finally` |
| `Restart` | loss of the memory, then `salvageInterrupted` |

`issued`, `verdict`, `ran` and `auto` are history: no action reads them in a guard,
except that the model asks for each call at most once (a call is an occurrence, so the
same tool asked twice is two calls). So is `missed`: the conversations that were busy when a
PUT cluster moved the project and took itself for a replay (`TakenForReplay`: the cluster
it sets is the one of the row it read before its body, but no longer the project's), until
their next turn. The two properties about clusters name it as their one exception.

`ConversationLifecycle` is what a user may rely on. `Conversation` implements it under
the mapping `phase <- status`, `turn <- gen`, `answered <- ` "the last row is an
assistant row".

### ClusterWatch

Source: `stores/cluster/watch.js`, `composables/useClusterWatch.js`, `useK8sQuery.js`,
`useFetchers.js`, `watchRegistry.js`, the change of cluster in `stores/cluster/clusters.js`,
and `server/k8s-watch-mux.mjs` with its endpoint in `server/index.mjs`. A *family* is the
group of resources one channel watches. The Kubernetes API is external: an object of a
cluster has a history of versions (`hist`), of which the older ones may be `compacted`. State
of the browser: `cl` the cluster connected, `data` what each view shows, as versions,
`listed` the queries some view shows, `reg` the version of the last list or event per resource (`resourceVersions`), `cur` the
queries under way, `stray` the responses of cancelled ones, which land all the same,
`dropped` the resources refused, `ctl` the state machine of `useClusterWatch` with its
failure count, `waits` the relists that will open the channel, `chan` the channel with what the gateway has made of each resource.

| actions | code |
|---|---|
| `ViewsChange` | the first view that shows a list mounts, or the last goes; the disabled observers of `TopNavBar.vue` stay |
| `Fetch`, `ListLands`, `ListFails`, `StrayLands` | one query of a view; its list and version land together, a cancelled one's version too |
| `Timer`, `Opened`, `Breaks` | reconnection; the early 200; loss of the connection |
| `Granted`, `Refused`, `Expired`, `UpstreamFails`, `UpstreamEnds` | what one upstream watch of the channel does |
| `Deliver`, `Relist` | a line of the stream; the reaction to an expired version |
| `SwitchCluster` | versions, refusals, queries and channel of the former cluster are dropped |

A relist (`Relist`, `UpstreamFails`) is `refetchQueries`, which passes over a query without
an enabled observer (`Refetchable`): of a resource that no view shows nothing is fetched, no
new version is recorded, and if nothing else is relisted the channel is opened again at once.

`torn` is history: resources whose version and view were set apart by one of the crossings
the module names, so that the properties can say what holds for all others.

### ChatStream

Source: `components/workbench/WorkbenchChat.vue` and `conv-stream.js`; on the server the
emission of events (`workbench-agent.mjs`, `conv-bus.mjs`, `conv-events.mjs`) and the GET
and stream endpoints of `routes/workbench-conversations.mjs`. A piece of text is a number, a
step the sequence of its pieces. State: `conv` the row as a browser can read it, `run`
the run in memory, `turns` and `view` (`convStatus`, `sending`, `pendingApproval`,
`decidedApprovals`) of the browser, `es` its EventSource with what is under way to it and
whether the bus still has its subscriber, `polls` under way with the `pollEpoch` of their
start and, once read, the response, the two timers, and `post`, the user's request.

| actions | code |
|---|---|
| `Produce`, `RoundEnds`, `Pause`, `Finish`, `Fail`, `Cancel`, `CancelledRunLeaves`, `Steer` | what the server does to the row, and what it emits |
| `Connect` | the stream endpoint: hello, and by status the approval, the final snapshot, or subscription, flush and snapshot |
| `Receive` | `onmessage`, with `applyStreamEvent` (`Reduced`) |
| `StreamBreaks` | `onerror`: reconnect, or give up for polling; or a stream that dies without a word |
| `Ticks`, `PollRead`, `PollLands`, `PollFails` | the two timers; `pollOnce` up to the database read, its response, its failure, with whoever awaits it (`Then...`) |
| `Send`, `Approve`, `Served`, `Answered`, `Refused`, `PostLost` | `sendNew` and `decideApproval` around their request |

The request of a question is not refused or lost here, and a user asks only when the view
is idle and the conversation over; a remark refused with 409 is left out. A stream that
dies silently dies when what was under way has arrived. `es.cut` is history: the stream broke
off after it had told of the end of the turn and before it had delivered all of it.

### Summarizer

Source: `server/workbench-summarize.mjs` and every place that writes the watermark.
State: the rows, `busy`, the watermark `wm` (`summarized_up_to`), the recap as the set
of row ids it was written from, the summary in flight (`auto`, single flight) and the
compacts in flight. `TryAuto` is `maybeSummarize` up to its await and part of the step
that calls it; `FinishAuto` and `FinishCompact` are the guards, the clamp and the UPDATE
after the LLM call. `seq` is the index of a row, reused after a truncation, whereas an
id is not: that difference is what the guards are about. `gap` is history: it records
that a summary passed the guards although its rows had been cut, or lowered the
watermark below its own recap, so that the passing run can say what holds everywhere
else.

### TurnRecord

Source: `pollSteer`, `makeOnStep`, `appendTrace`, `currentTurnTrace`, `handleAgentResult`,
`safeSalvage`, `cancelledCatchGuard`, `preservePausedOutput`, `salvageInterrupted` and the
two entries `runConversation` and `resumeConversation` of `workbench-agent.mjs` and
`workbench-projects.mjs`, the loop of `agent.mjs`, and the handlers that begin or end a
turn. `Conversation` asks who may write; this module asks what is written, and so has one
run at a time: a superseded one writes nothing there, and leaves at once here.

State: `rows` the messages (`kind`: a question, a steered remark, an answer with the
events stored in it); `trace` the events appended to the conversation since the turn
began, `fresh` those younger than the last message row, which is how the code tells a
turn's events from earlier ones; `content` whether text is checkpointed; `saved` and `run`
the paused and the live run, each with `ctx`, how often every row has been given to the
model, and `wm`, the steer watermark; `steer` a remark whose references are being fetched.
`dropped` is history: the output of the turn was given up on purpose (its project changed
cluster) or with the gateway (section 6).

| actions | code |
|---|---|
| `Ask`, `Regenerate`, `Edit` | messages, regenerate and edit after their last check, with the truncations (`Begin`) |
| `SteerSent`, `SteerLands` | the two halves of steer around `await buildRefsContext` |
| `Poll` | the top of a round: abort check, then the remarks behind the watermark |
| `Delta`, `RoundCalls`, `RoundAnswers`, `ChatFails` | the answers of the model, with the checkpoint, the step's event, the end of the turn, and the catch |
| `ToolTaken`, `ToolEnds`, `Denied` | one tool call, one refused call |
| `Pause`, `PauseTooLate`, `AbortNoticed` | the approval gate, before and after a cancellation; the other checks of it |
| `Resume` | approve and deny, with the watermark read back from the row |
| `LeavePaused`, `Cancel`, `Invalidate` | cancel, deny without a model and change of cluster, for a paused and for a running turn |
| `Restart` | end of the process, with the salvage of the next start |

### SshPool

Source: `server/ssh/pool.mjs` and the callers of `acquire`. State: `conns` and `pending`
per lane, and per client its state, the generation of the row it was made from (`cred`),
`refs` and whether `idleAt` is set. The row's generation is `creds`, changed by every PUT
and 0 when the row is deleted. A client is a slot of its lane, used again after it has
closed; an `acquire` without a free slot is not offered (a bound). `user` says which
client a caller creates, waits for or holds. A resolved promise runs its continuations
before the next event, so `Connected` is "ready" with the first reference of the creator
and of all who wait.

| actions | code |
|---|---|
| `AcquirePooled`, `AcquireInFlight`, `AcquireNew` | the three ways through `acquire` |
| `Connected`, `ConnectFails` | the end of the handshake, with the creator's `finally` |
| `Release`, `TearDown` | the handle's `release`; a command that never got its channel ends the client first |
| `Dies` | `error` or `close` of an established client, with `evict` |
| `ReapIdle` | one entry of the idle sweep |
| `UpdateServer`, `DeleteServer` | PUT and DELETE of the server with `evictServer` |

`torn` is history: the lanes on which an eviction overtook a handshake, so that the
passing run can say what holds on all others.

### SshTerminal

Source: `server/ssh/terminal-service.mjs`, `terminal-handler.mjs`, the close listeners of
`terminal-wire.mjs`. State: `cur`, the session in the service's map under one id
(`status`, attachments, whether it holds a pool handle); per session *object* its remote
channel, since the events of a former object's channel arrive after the id has been given
to a new one; per socket how far its handler is and whether the browser has gone; `held`,
the pool handles not yet given back.

| actions | code |
|---|---|
| `Open`, `Acquired`, `AcquireFails` | the handler up to and after `await sshPool.acquire`, with `attach` |
| `ShellOpen`, `ShellErr` | the shell's callback with the steps of all who waited for it |
| `ChannelClose`, `WsClose` | close of the channel; of a socket, before (sentinel) and after (`detach`) it is wired |
| `Sweep`, `Evict` | one session in the service's sweep: repairs, policy, two stages; removal from the map |
| `Kill`, `DeleteServer` | DELETE of the session; `closeByServer` |

`End` is `transition` into LOST or CLOSED with `releaseBackend`. The status CLOSING exists
only within one synchronous call. `abandon` and `claimClose` by others have no caller in
production. A socket of another user is refused before it attaches; ids are per user here.

### RemoteJob

Source: `server/ssh/job-bridge.mjs`, the shell scripts of `job-remote.mjs` and their sweep
in `server/index.mjs`. A step is a command of a script, since the scripts run beside the
jobs. State in the gateway: `call` how far a run call is, `known` whether
`sweepSeenServers` has the server, and the reader's `off`, `got` and `told`. On the host:
`script` how far the launch script is, `files` what of the directory, `pid` and `code`
there is, `old` whether that is older than the TTL, `wrap` the wrapper with its dd, `cmd`
the command, `piped` output between the two, `out` the size of the output file, `rd` a
read script under way, `sweep` a sweep under way. Output is counted, in one unit.

| actions | code |
|---|---|
| `Run`, `Refused`, `Launch`, `Launched`, `GivesUp` | `run` with its two scripts, each of which may be given up after 15 s; a listing may then show less than there is |
| `ScriptSweeps`, `ScriptStarts`, `ScriptEnds` | `launchScript`: sweep; directory and wrapper; the pid file and OK |
| `Writes`, `Copies`, `Ends`, `WrapperEnds` | the command, dd, and the wrapper, which writes `code` |
| `Kill`, `Ages`, `Reboot` | `jobKill`; the TTL; the host, whose `/tmp` may survive |
| `SweepStarts`, `SweepLooks`, `SweepActs` | the sweep every minute; code and age of one directory; its process and the `rm` |
| `Tail`, `Size`, `Answer`, `ReadFails` | `jobOut`: the three questions of `readScript` in turn |
| `Restart` | the gateway's calls and `sweepSeenServers` are lost |

`torn` is history: readers whose job wrote during a read. `kill` ends the wrapper's group
only, which the command has left (section 6). Sweeps of one host run one after the other here.

## 4. Runs

| run | asks | instance |
|---|---|---|
| `turns` | is one run entitled to a conversation, and does what it writes belong to its turn | 2 runs, 2 senders, 3 turns, 1 restart |
| `approvals` | does a call run twice, unapproved or after a refusal; are paused rows resumable; how late does an abort take effect | 2 write calls, 2 approvers, 2 turns, both modes |
| `rebind` | does anything go on for the former cluster | 2 clusters, 2 rebinders, 1 run, 1 approver, 2 turns |
| `liveness` | does each running turn pause or end; is the lifecycle implemented | 2 clusters, 2 rebinders, 1 turn |
| `summary` | do the two summaries forget, keep stale, or lose anything outside the two gaps | 5 rows, 7 ids, 1 compact, small thresholds |
| `pool` | are the counts the holders; is a connection in use kept and an unused one closed; has a lane one connection with the current credentials | 2 lanes with 2 slots, 2 users, 1 change of the row and its deletion |
| `terminal` | does a handle or a shell leak; is everybody who waits answered; does a session end that all have left | 3 sockets, 2 session objects, default policy and idle attached sessions |
| `watch` | is no change skipped between list, version and watch; does the channel settle and a live one converge | 2 resources (1 forbidden) of one list, 2 clusters, 2 versions, 1 upset |
| `chat` | is no text lost, the answer the one shown, no view left busy or without its approval | 2 turns, 2 pieces, 1 approval, 1 upset |
| `record` | is every remark read once, and every event of a turn kept, once, with its own answer | 2 turns, 2 remarks, 1 call a round, 2 rounds, 1 restart |
| `jobs` | are reads gapless; does an exit code come last; does a sweep spare what lives and clear the rest away | 2 jobs (1 writes and is read), limit 1, 1 unit of output, 1 restart or reboot |
| `late_approve` (violation) | see section 6 | as small as the counterexample allows |

Why these bounds. A conversation is independent of the others except through the
project row, so one conversation suffices for everything but `Conv`-indexed bookkeeping
(and the theorems hold for any number). A race over a conversation needs two runs and
two requests: the third would only wait for a slot, since a slot is free again when its
run has left. Three turns let a run be superseded by one that is itself superseded.
Two calls are the shortest queue with a rest; two approvers are the shortest double
click. `MaxEpoch` is at least one larger than the number of turns where an invalidation
is in question. The safety properties of `ChatStream` were checked with two upsets as well
(3.2 million states), which found what `cut` excepts. In `summary` the thresholds are scaled down (2, 2, 1 instead of 12, 8,
4) with the order between them kept, since only their order and the constants 2 and 4
of compact matter for the index arithmetic.

In `record` two turns let the second inherit whatever the first left behind, two remarks
are one read and one missed, and the cap of two rounds makes the wrap-up round (the third)
the one that has to answer. Rounds of two calls were run as well (7.7 million states) and
show nothing that rounds of one do not, a queue being only counted here.

In `jobs` the second job is there for its launch script, whose sweep runs beside the first,
and for the limit; one unit of output is written or not, copied or not, counted or not.
(With two units the safety properties hold as well, in twice the states.) One crash at
any of its points is a job orphaned, a start cut off or a reader interrupted.

In `pool` two slots per lane let a client live, die or be torn down beside its successor,
and two users are the shortest joint first connection; a third would only repeat the
second. In `terminal` three sockets are the maker of a session, one that waits and one
that is elsewhere, and two objects a session and its former one; a third former one would
be told apart from neither.

In `rebind` two rebinders are the shortest overlap, and a third could only be taken for a
replay as the second can; with one slot a run has to leave before the next starts, which
costs nothing here, as a superseded run is not current. In `watch` the user begins on
`First`, which halves the states and loses nothing, the clusters being alike, and
a list that views show no more counts as an upset (opening a view costs nothing). One
failure degrades the watch: the count decides which label the controller has and after
how long the timer fires, not what it does.

`turns`, `approvals` and `rebind` identify slots, calls and clusters that are interchangeable
(`Symmetry`); `liveness` does not, since symmetry is not sound for it. In every
instance of `Conversation` but `approvals` the system may legally stop (the project is
deleted and all runs have left), hence `CHECK_DEADLOCK FALSE`, and so it may in the SSH modules once the server is deleted, in `ClusterWatch` and
`ChatStream` once everything has settled, in `RemoteJob` when all jobs are gone, and in `TurnRecord` when a turn waits for its
approval and the bounds stop the user; with two modes the owner
can always change the mode, and a restart of `Summarizer` is always possible.

The type invariants of `Conversation`, `Summarizer`, `SshPool`, `SshTerminal`, `TurnRecord`
and `RemoteJob` are theorems and so not run again, as are `WatermarkInRange` and
`AttachedIsWired`; those of `ClusterWatch` and `ChatStream` document their variables and
are left out of the runs, whose properties are about behaviour.

What each property is there to catch stands above its definition; `PROJECT.json` gives
for every property of a passing run a mutation of the code's own guards that it detects.

## 5. Fairness

`FairSpec` asks for weak fairness of `Progress(r)` for each run and of nothing else: no
user has to act. It is justified by the code: a tool that leaves the process has its
own time limit (requests to a cluster `index.mjs:727`, SSH commands
`ssh/agent-bridge.mjs:98`, credential adapters), the LLM stream ends, fails, or is ended
by its idle limit, its total limit (`llm.mjs:112-115`) or the abort of its signal, and
everything between is synchronous. `Progress` does not contain `Delta`, so
the assumption cannot be met by streaming for ever. `ChatTools` asks for calls not asked
before, of which an instance has finitely many; in the code the step cap plays that role.

`FairSpec` of `ClusterWatch`: queries and upstream watches are answered or fail, lines are
delivered, a channel that connects is opened and the reconnect timer fires; no failure has to
happen, no view has to come or go, and failures are bounded. What `Settles` leaves out is
stated in its premise: a channel that again and again `AsksInVain`. `FairSpec` of `ChatStream`: what is under way to an
open stream arrives, the browser reconnects, timers fire, polls and requests are answered;
neither the run nor a user has to act, and the properties speak of what stays so.

`FairSpec` of `SshPool`: a handshake ends (`readyTimeout`, 15 s, `pool.mjs:55`), a client
that was ended closes, and the sweep runs every minute (`index.mjs:2720`). Nothing makes
a user let go. `FairSpec` of `SshTerminal`: the same for the handshake and the sweep
(`index.mjs:2702`); a request for a shell is answered and a closed channel closes, or the
connection dies, which its keepalives find out (`pool.mjs:54`). A host that answers
keepalives and never a request for a shell is excluded by this: it would keep a session
for ever, because its maker counts as a waiter (`PROJECT.json`, hazards).

`FairSpec` of `RemoteJob`: a command ends or meets its `timeout` (`job-remote.mjs:47`), dd
copies, the wrapper finishes, a launch script goes on once begun, directories age, and the
gateway sweeps the servers it knows every minute (`index.mjs:2700`). Nobody has to start,
read or kill a job.

## 6. Where the code and its words differ

One is a violation run with one property.

* `late_approve` — an approve sent for one call can approve the next one: the claim
  looks at the status only.

Others were met in the same models; the passing runs name them as exceptions, and a change
of an instance or the plain form of the property shows them.

* PUT cluster compares the new cluster with a project row read before its own await
  (`routes/workbench-projects.mjs:178` and `268`; the comment at 258-259 rules a window out,
  but only for what follows). Of two that overlap the second may bind the project back to the cluster it read, takes
  itself for a replay and invalidates nothing: what became busy on the first one's
  cluster goes on there, and as approve compares the cluster stamp before it awaits its body
  and not when it claims the row, a call may even be approved for one cluster and run on the
  other (`missed` in `BusyOnBoundCluster` and `ApprovedClusterOnly`).
* A summary of rows cut meanwhile is stored, and the rows written since are skipped
  (`NothingForgotten` of `Summarizer` with steering, the code's thresholds and no compact);
  the comment at the guard argues that this is impossible
  (`workbench-summarize.mjs:123-124`), which holds only as long as no remark is steered
  in. And a compact of an edited turn is stored (the same with one compact, no steering and
  four rows; `workbench-summarize.mjs:196`).
* The events of a turn are told from older ones by being younger than the last message row,
  and a remark steered in is such a row: when the turn was resumed after a pause, or its
  paused form is cancelled, what it did before the remark is in no answer (`Overtaken` in
  `EventKept`), although the answer is meant to hold the events before the pause too
  (`workbench-agent.mjs:313-317`).
* A run that was cancelled stores what it has when it notices. If the gateway ends before
  that, nobody stores it: the salvage takes only rows that are running (`dropped` in
  `Restart` of `TurnRecord`).
* A change of the server's row forgets a handshake under way but does not stop it: it
  ends in the pool with the old credentials and is handed out (`torn` of `SshPool`;
  `ssh/routes.mjs:295` says otherwise).
* A request for a shell that throws leaves its session CREATING; a socket that comes
  back before the sweep keeps it so (`IsStuck` of `SshTerminal`).
* An approval shown over a stream and decided in another browser stays on screen
  (`ModalLeaves` of `ChatStream`): the pause has ended the stream, a pending turn counts as
  final, so neither poll nor watchdog goes on. The test of it emits `running` on a stream the
  server has ended (`__tests__/WorkbenchChat.sse.test.js:366`).
* Directories left behind when the gateway has forgotten the server are said to be cleared by
  the next `run` there (`index.mjs:2695`). But `run` asks for the limit first, a job that was
  killed or died with its host has no `code` and counts as running, and the sweep is part of
  the script that is only sent afterwards: once such directories fill the limit, every start
  is refused for good (`ClearedAway` of `RemoteJob` without its exception for servers not
  `known`).
* Kill is said to end the whole process group (`tool-registry.mjs:286`,
  `job-remote.test.mjs:118`); GNU `timeout` makes a group of its own, so the command is not in
  the one that is killed, and goes on until it writes or times out (`Kill` of `RemoteJob`).
* The offset to read on from is the lesser of the size and the old offset plus a chunk, and
  the size is asked after the bytes: what a job writes in between is skipped (`torn` in
  `ReadsGapless`; `tool-registry.mjs:271` tells the reader to go on from it).
* A directory whose job ends between the sweep's look at its age and its look at its process is
  removed at once, not a TTL after its end (`SweepsTheDead`, last conjunct).
* A watch whose upstream fails each time never degrades to its slow retry
  (`useClusterWatch.js:4`): the gateway answers 200 before it has asked any upstream, and
  that resets the count of failures (line 27).
* After an expired version the browser is said to relist the resource and to connect with a new
  one (`watch.js:73`, `useClusterWatch.js:3`). `refetchQueries` passes over a list that no view
  shows (only the search bar's disabled observers are there, `TopNavBar.vue:76-88`), while the
  channel watches all nine resources and lines alone record versions (`watch.js:104`). So the
  version of a resource nobody looks at, once expired, is asked for again at once
  and answered 410, without end and for all resources of the channel, until some view
  lists it (`Settles` without `AsksInVain`). The same happens with a version of the former
  cluster, recorded by a response that came after the change and too high for the new one (two upsets).
* A stream's hello calls the turn done (`conv-stream.js:47`) before its snapshot brings the
  answer. If it breaks in between and reconnecting is refused, a turn that counts as done is
  not polled for (`WorkbenchChat.vue:999-1000`), and the answer is never shown until the page
  is loaded again (`cut` in `AnswerShown`; two upsets).
* A turn that goes on after an approval decided elsewhere has no watchdog if a poll saw
  the pause (`WorkbenchChat.vue:782`, against line 616): a stream that then dies silently
  leaves it thinking for ever (`ViewSettles` without `DecidedHere`).
* A question asked while the old turn's stream is still open has its new turn ended by
  the old `status` (`ViewSettles` without `CleanStart`), since the epoch changes only when
  the request is answered (`WorkbenchChat.vue:1227`); and two polls of one epoch may land
  in the wrong order and take an approval away.

## 7. Proofs

All theorems hold for every value of the constants under the named assumptions of
their module. `ConstantsAssumption` (`Conversation`, `Summarizer`): writes are calls, `None`
is none of the values it stands beside, and bounds are naturals. `PoolAssumption`
(`SshPool`): the users are finitely many, the exec lane is among the lanes, `None` is no
client. `WatchAssumption` (`ClusterWatch`): the first cluster is one of them, the queries are disjoint and cover the resources,
`None` is neither a version, a list nor a channel. `RecordAssumption` and `NoneAssumption` (`TurnRecord`): bounds are naturals, the step cap
is not 0, `None` is neither a run nor a paused one. `TerminalAssumption` (`SshTerminal`): the policy is made of conditions the sweep
knows, `None` is no session record. `JobAssumption` (`RemoteJob`): the jobs are finitely many, bounds are
naturals, limit and chunk are not 0, `None` is neither a job nor a number. `ChatAssumption`
(`ChatStream`): bounds are naturals, `None` is neither a number nor a request. Nothing is assumed about the number of conversations,
runs, requests, clusters, calls, lanes or terminals, and no set but the users of the pool,
whose clients are counted, and the jobs of a host has to be finite.

**Types** (`ConversationProofs`, `TypeCorrect`). `TypeOK` is not inductive: a run takes
the head of its queue and a resumed row its saved queue. `TypeInv` adds that a run which
is not idle knows its conversation and cluster, that a run at the gate or returning to
wait has a call, and that a paused row has an approval heading its saved queue. Lemmas
give what each row operator keeps, then what each handler and each step of a run keeps.

**Runs** (`ConversationProofs`, `OneEntitledRun`, `StaleRunsAborted`). `RunsInv`:
epochs only grow (`EpochsGrow`), the entitled run is the registered one
(`EntitledIsActive`), every other live run is aborted (`SupersededIsAborted`), a running
row has its run and a row at rest has none (`RunningIsServed`, `QuietIsFree`). The
conjunct that is easy to miss is `CancelledIsAborted`: after a cancel the old run is
still entitled while the user may already start a new turn, so the new run's claim
supersedes a run whose signal must have been aborted *before*. `LaunchTakesOver` is
where that is used, `AbortReaches` and `ConversationsEnd` are the handlers that end
conversations.

**Calls** (`ConversationProofs`, `NoCallRunsTwice`, `NothingRunsUnapproved`,
`RefusedIsFinal`). `CallsInv`: an issued call that has not run waits in at most one
place, a run's queue or a paused row's saved queue (`OneHolder`), at most once
(`QueuesAreDistinct`), and has not run (`WaitingIsFresh`); a call that was decided and
still waits is the target at the head of its run's queue (`DecidedIsTarget`), with the
verdict the run carries (`TargetIsDecided`); nothing is known of a call not issued
(`NotIssued`). It is what makes the claim of a paused row safe: the claim takes the
only copy.

**Turns** (`ConversationProofs`, `TurnsKeepToThemselves`, `PausedRowsResume`,
`LateToolsAreLast`, `CancelledStays`, `SupersededRunsAreSilent`). `TurnInv` is taken
relative to `TypeInv` and `RunsInv`. That content and events are the present turn's
(`RowsAreOwn`) is not inductive by itself: the run that writes them has to be the present
turn's too. `EntitledWrites` says so, and that it finds the question unanswered, but only of
a row that is busy or cancelled: once a turn has ended its run may still be entitled. A
tool started late is the last one because its run is at `exec` and meets the abort at
its next checkpoint (`LateIsLast`). The action properties follow from the same invariants:
what a superseded run does is one of the steps whose guard finds it superseded.

**The lifecycle** (`ConversationProofs`, `ImplementsLifecycle`). `life` maps a row to its
status, its turn and whether its last row is an answer (`LifeOf`); the theorem is that
`Conversation` implements `ConversationLifecycle` under it, for every conversation. Each
action that writes a row is shown to map to one step of the diagram or to a stutter. Two
of its conditions are not visible in the row: that an answer comes once (`RowsAreOwn`
and `EntitledWrites`) and that what a run saves is of a turn still under way.

**Clusters** (`ConversationProofs`, `NothingOutlivesARebind`, `ApprovalsKeepTheirCluster`).
Neither limits how many PUT cluster overlap. `BoundInv` says that nothing is busy in a
deleted project, and the property. A rebind keeps it in one of three ways
(`RebindKeepsBound`): it differs from the cluster it read and ends whatever is busy; or it
leaves the cluster as it is; or it takes itself for a replay, and whatever is busy is
`missed`. `ClusterInv` adds that a call decided and not yet run is held by a run on the cluster
of the decision, unless it was decided in a missed turn (`TargetCluster`): since the stamp
is compared before the body is awaited, it is `BoundInv` that carries it over the await.

**Connections** (`SshPoolProofs`, `TypeCorrect`, `CountIsHolders`, `HeldConnectionsStay`,
`OneConnectionPerLane`, `RotationReachesThePool`). The count is a cardinality, so the set
of users is finite here (`PoolAssumption`). The invariant adds that who creates, waits or
holds does so on a client in the state that fits (`UsersInv`) and that a client being
connected has exactly one creator (`CreatorInv`), without which the first count,
1 plus the waiters, could not be the number of holders.

**Terminals** (`SshTerminalProofs`, `TypeCorrect`, `NoHandleLeaks`, `NoShellIsStray`,
`AttachmentsAreWired`, `LostOnlyByItsShell`). The invariant adds that sockets wait only
for a session being created (`QueuedIsCreating`), that a shell asked for will be answered
to the session of the map (`OpeningIsCurrent`, where the assumption of `Evict` enters),
and that a live session has its shell, or is being created with somebody waiting for the
answer (`LiveHasShell`). `EndKeeps` and `AttachKeeps` do the work once for the five ways
a session ends and the two ways a socket attaches.

**Summaries** (`SummarizerProofs`, `TypeCorrect`, `WatermarkStaysInRange`,
`SummariesForgetNothing`, `SummariesAreKept`). The watermark stays within the rows although
rows are cut and both summaries write it after an await. The invariant adds that a
conversation with rows begins with a user row, which is why the bound by the last user row is
never undefined, and that a busy one has rows. `StoryInv` gives what the recap says: as long
as no gap was met it is the text below the watermark, exactly (`RecapHolds`), and what a
summary in flight will store is the text below the watermark it will set, as long as its
rows have not been cut (`JobsHold`). The conjunct that took a counterexample to find is
`UserIsLast`: at most the answer follows the last user row, so the rows that a compact
keeps in full contain the question of a turn under way.

**The watch** (`ClusterWatchProofs`, `WatchSkipsNothing`). The property compares what is
shown with a version in the registry and with the position of the upstream watch. `Inv` says
of each resource that has not been torn (`Good`): outside a first sync the registry's
version is shown; the position of a watch, *asked for or open*, is shown, except for the
objects whose lines of a first sync are still to come; and a resource without data has no
version. The second conjunct has to speak of watches only asked for, since nothing is
checked when they are granted, and the third is what lets a channel break before its first
line without leaving a version that promises what no view has. Two facts about histories do
the rest: an object does not change between the watch's position and the next change of
its resource (`AsInSkips`), and a history that grows keeps its past (`AsInGrows`). The proof
found an omission in the history variable `torn`: when all lists of a query are refused and
the last of the fetches opens the channel anew, a first sync under way on the former one is
interrupted as well (`ListFails`).

**Records** (`TurnRecordProofs`, `TypeCorrect`, `RemarksReadOnce`, `EventsStoredOnce`,
`EventsKept`). Four invariants, each taken by induction with the help of the ones before.
`TypeInv` adds which status goes with a run or a paused one (`StatusFits`). `ReadInv` adds
that nothing but remarks lies behind the watermark: that is why reading the remarks alone
passes nothing over, and it is true because an answer is only appended by the step that
ends the turn. `OnceInv` speaks of rows and turns: of the rows of one turn at most one has
events, all of that turn (`TurnsApart`), and none has while the turn is in progress
(`NoneStored`). `KeptInv` says that a run that was not resumed holds all events of its
turn, and that every other event is younger than the last row or `Overtaken`: the exact
form of the exception.

**Jobs** (`RemoteJobProofs`, `TypeCorrect`, `NoGapInReads`, `ExitCodeComesLast`,
`SweepsSpareTheLiving`). `HostInv` ties the host together: nothing of a job is there before
its script is up, and a wrapper that lives has its pid file once the script is done
(`InOrder`); what is old, or was found old by the sweep, was launched to the end
(`OldIsDone`), which is why the sweep's second look never meets a launch; only a live dd
has something in its pipe (`PipeFits`); `code` and the reader's knowledge of it come after
all else (`CodeIsLast`). `ReadInv` says what a read under way will do: what tail gave is
what wc will make of the offset, or the directory has gone and the answer is an error
(`Counted`).

**What a browser shows** (`ChatStreamProofs`, `TextArrives`, `AnswerArrives`). Both speak of
events still under way, so both invariants are about the queue. `TextInv` says that it takes
the text shown, event by event (`TextPath`), to a text that ends in that of the round: an
event appended extends such a path (`CoversMore`), one that is heard shortens it
(`CoversRest`), and a snapshot starts it afresh. `NoTextLost` itself is a fold over the queue; the
community modules define it over sets of indices, and `FoldIsPath` shows by an induction
over those (`Induction`, from the well-foundedness of the naturals) that it is such a path.
`AnswerInv` says who may call a turn done: the
view, an event or a current response only if the row is done (`DoneInv`), a status only right
after the event that brings the answer, or with the answer already there (`AnswerComes`);
and a turn called done shows its answer unless more than the end of it is under way
(`AnswerIsThere`). That a queue without a subscriber ends in `end`, and that `end` only
follows a pause or the end of a turn (`StreamInv`), is what makes "under way" arrive. While a
question is asked and not yet answered for (`Asking`) none of this holds: the old turn's events
and polls still come in, and the epoch only separates them once the answer arrives.

Only model-checked: liveness (`RunningEnds`, `UnusedIsClosed`, `WaitersAnswered`,
`ForsakenEnds`, `ClearedAway` and those of `ClusterWatch` and `ChatStream`), which the
prover cannot treat. The type invariants of `ClusterWatch` and `ChatStream`, which bound their
counters, are only documentation; the proofs rest on types of their own (`Shape`).

## 8. Not modelled

* Text: prompts, references, tool results, the wording and the length of a recap (its
  64 KB clamp and the quality of what the LLM writes).
* A database statement that fails between two synchronous ones, and a process that dies
  between them: the end of a turn (status, answer and history rows in one stretch of
  synchronous code) is one step.
* Quotas: the running rows are counted before an await and without a reservation
  (`routes/workbench-conversations.mjs:123`), which the code accepts as a brake. Grants ("approve and remember"), the read endpoints, and a resume whose
  stored JSON is corrupt.
* Steered remarks in `Conversation` (they are rows in `Summarizer` and `TurnRecord`).
* In `ChatStream`: a deny that ends the turn for lack of an LLM
  (`WorkbenchChat.vue:1336-1342`) and a decision refused while the row stays paused
  (1356-1371), after which the browser polls once and goes by what it reads; and that a
  decision goes to the turn stored when the approval was shown, the last one here.
* In `ClusterWatch`: an API server that reports an expired version by an event of the
  stream instead of HTTP 410. The gateway and the browser look for the latter only.
* In `TurnRecord`: two rows or events of the same millisecond, the trimming of messages to
  the model's window, the cap of 256 KB on a trace, and the reasoning that stands in for an
  empty last answer.
* A second gateway process on the same database: the process lock excludes it.
* Of the jobs: stdin (whose fifo outlives the job, so that an answer to an ended job is
  reported as given), whose project a job belongs to, the reuse of a pid, and the exit code
  itself (141 stands for an output cut off and for a time-out alike).
* Host keys and the connection test of the SSH pool; the bytes of a terminal; who owns an
  id; a gateway restart, which leaves neither connections nor sessions.
* Everything listed as `not_modelled` in `PROJECT.json`, with its reason.
