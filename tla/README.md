# Models and proofs for qwen36-local-llamacpp-turboquant

This directory holds TLA+ models of the parts of the repository whose
correctness depends on the order of steps of several actors, the TLC
configurations that check them on small instances, and proofs that TLAPS checks
for every value of the parameters. `PROJECT.json` lists the components, the
runs, the source lines behind each definition, the known hazards of the code and
the theorems.

    tlc -workers 2 -config CompactProxyChain.cfg MCCompactProxy.tla
    tlc -workers 2 -config Offline.cfg MCOffline.tla
    tlapm CompactProxySafety.tla

## 1. The system

A local LLM stack: llama-server processes (two ports for the two sides of an A/B
comparison), a **compaction proxy** (Node.js) between coding harnesses and
llama-server, a **benchmark runner** with a terminal UI, a chat demo client, offline
programs that study the proxy's log and replay recorded requests, and shell scripts
that start, stop and switch the servers.

### Inventory

| component | state | operations | hard because | correct when |
|---|---|---|---|---|
| compaction core: `proxy/src/rewrite.js`, `tier1.js`, `verbatim.js` | files `<cache_dir>/tool-results/<id>.json`; the message lists of one request | answer pending `expand_tool_result` calls, choose the verbatim window, compress, elide and persist | the store outlives requests and processes and is keyed by call id only; replies are elided again in later turns | a stub can always be expanded to the output it stands for; the window is untouched |
| chat handler: `proxy/src/server.js` | per request: client body, parsed body, rewrite outcome, upstream timer | receive, intercept, rewrite, debug reply, forward, stream, record | awaits interleave requests; crash, cancel, timeouts; three modes | only enforce forwards rewrites; one response per request |
| hooks: `proxy/src/hooks/*` | shared context of a request, SEEN set | dispatch with priorities, filters and timeouts | a timed-out handler runs on | a late handler cannot change what is sent |
| session store: `proxy/src/session.js` | map key -> prefix hash, last use | touch, evict, slot stubs | an entry may expire between two awaits | only feeds the log record |
| token counts: `tokenizer.js`, `lru.js` | LRU cache | count, synchronous lookup | eviction between warm-up and use; no timeout | the estimate never changes the window rule |
| classifier, summarizer, notes: `jev.js`, `summarizer.js`, `notes.js`, `watermark.js` | none | one answer or nothing | failure means "as if off" | never fail a request |
| upstream client: `upstream.js` | `n_ctx` | load once | stale after a model switch | - |
| benchmark runner: `scripts/bench_runner.py` | queue, results, raw runs; `events.jsonl`, `control.jsonl`, `.control.offset`, `<job id>.json`, `summary.json`, `.lock` | drain, start/skip/stop, run a job on both sides, summarise, lock | a second process appends to the control file, servers come and go, kill and restart, job ids repeated across suite files | no job lost or run twice, true summary, one runner |
| benchmark UI and spawner: `bench_tui.py`, `bench_spawn.py` | last phase per job | tail events, write control lines | the tail may start over at any time, ids shared by jobs, same-second spawns | shows what happened |
| benchmark suites: `bench_suite.py` | merged jobs | validate, merge defaults, concatenate files | defaults and jobs name prompts in two ways | each job is measured with the prompt written for it |
| chat demo: `scripts/demo-chat.py` | message history, stream buffer, SIGINT handler, colours | turn, cancel, prune, slash commands | SIGINT at any moment; reads cut the stream anywhere; failed turns | the reply is what was streamed, the request asks the typed line, every turn returns |
| watermark study: `analyze-watermarks.py`, `synthesize-telemetry.py` | records, sessions, rows | synthesize, group, scan, suggest | unordered files, thresholds met exactly, ties | sessions end at silences; the rows agree; the suggestion is the best |
| replay: `proxy/eval/replay.py`, `needle.py` | session file, reports | generate bodies, post, report | headers of the answer may be missing | a saving is reported exactly for stubs; the exit status tells errors |
| A/B harness: `proxy/eval/ab-harness/*` | one result file per variant | run cells, write, aggregate | killed and repeated in one directory | no table of half a matrix; failures cost |
| service control: `scripts/service.sh`, `_common.sh`, `switch-model.sh`, `restart-turboquant.sh`, `start-*`, `stop-*`, `Makefile`, `configs/launchd-plist.template` | processes, ports, plist, launchd job | start, stop, restart, switch, register, unregister | a port is checked long before it is bound; KeepAlive restarts what a script kills; starters go on in the background | a stop holds; a reported health is that of the server asked for; the job comes up |
| Laya service, build/download/link scripts, quality scripts, log rotation, offline shims | files | sequential | - | not modelled, see section 8 |

Interaction: a harness sends the whole conversation to the proxy on every turn;
the proxy calls the classifier, the tokenizer and the summarizer over HTTP, then
forwards to llama-server. The UI and the runner share two append-only files. The
operator starts and stops the servers the runner waits for.

## 2. Modules

| module | what it is |
|---|---|
| `CompactProxy` | chat handler, expand interception, rewrite and store, with the harness as environment |
| `MCCompactProxy` + 6 cfgs | instances for TLC |
| `ChatExchange` | one request of the proxy: hooks, outbound body, upstream stream and timer, response, record |
| `ChatExchangeProofs` | `OneResponse`, `RefusedNotSent` and `EditsAreSent`, proved |
| `MCChatExchange` + 2 cfgs | instances for TLC |
| `CompactProxyProofs` | type correctness and `WindowUntouched`, with lemmas about message lists, proved |
| `CompactProxyGenuine` | the inductive invariant `Genuine` and what each operation does to genuine lists and stores |
| `CompactProxySafety` | every step keeps `Genuine`; the safety theorems; `FreshExpandDelivered` |
| `BenchLife` | abstract life of benchmark jobs |
| `BenchRunner` | the runner; refines `BenchLife` |
| `BenchRunnerProofs` | the safety invariants of the runner, the refinement of `BenchLife` and `ShownIsTrue` of the terminal UI, proved |
| `MCBenchRunner` + 2 cfgs | instances for TLC |
| `BenchConsole` | the terminal UI composed with `BenchRunner` over the event and the control file |
| `MCBenchConsole` + 2 cfgs | instances for TLC |
| `BenchLock` | the runner's lock file, several processes |
| `MCBenchLock` + 1 cfg | the instance that shows two active runners |
| `ChatRepl` | the chat demo client with its server and its user |
| `MCChatRepl` + 3 cfgs | instances for TLC |
| `ChatReplProofs` | `ReplyIsTheStream`, `RequestAsksTheLine` and `PromptIsClean`, proved |
| `Telemetry` | synthesized and logged records, the watermark analyzer |
| `Replay` | needle bodies and their replay |
| `AbHarness` | the A/B harness and its aggregation |
| `BenchSuite` | validation and merging of suite files |
| `MCOffline` + 4 cfgs | the four offline programs and the runner lock, of which one is at work, for TLC |
| `OfflineProofs` | the offline programs and the runner's lock, proved: `SessionsBySilence`, `SyntheticSplit`, `RowsAgree`, `SuggestionBest`, `BodiesAreRequests`, `ReportIsTrue`, `FilesWhole`, `FailuresCost`, `JobsAsWritten`, `ActiveOwnsItsLock`, `NeverWedged` |
| `ModelService` | the servers of the host, the commands that start and stop them, launchd |
| `ModelServiceProofs` | `StopHolds` and `UpIsOurs`, proved |
| `MCModelService` + 1 cfg | instance for TLC |

### CompactProxy and the code

A message has a role, at most one tool result and, for an assistant, its
`expand_tool_result` calls. `messages` grows when the proxy inserts a reply
behind an assistant message; the model keeps that reply inside the assistant
message and addresses everything by items `<<i, k>>` (k = 0: the message itself,
k > 0: the reply to its k-th call), which have the same order as the spliced
array. Tool outputs are pairs of session and call id; the history
variable `truth` records the tool result a call id stands for, and only its own
next value depends on it.

| model | code |
|---|---|
| `Receive` | `handleChat` up to its first await |
| `Answer` | `answerExpandCalls`, synchronous; a torn file makes `JSON.parse` throw, all replies of the request are then dropped |
| `Evictable`, `InTail` | `pickVerbatim` |
| `Rewrite` | `rewriteRequest`; its awaited stages only fill locals, the writes of `applyTier1` and everything after them are synchronous |
| `PersistFails` | a write throws; earlier files stay, handled by the catch at server.js:315 |
| `ForwardRewrite`, `ForwardFallback`, `DebugReply` | the outcomes after the rewrite: a token count may fail before the elision (nothing written) or after it (stubs written, but not sent) |
| `Outbound` | the choice of the body at server.js:382-395 |
| `Fail`, `GiveUp` | 502, 504, broken stream; client cancels (the handler runs on) |
| `Crash`, `CrashInPersist` | the process dies, in the second case inside one of the writes; the new process may read another mode |
| `FinalTurn`, `ToolTurn`, `ExpandTurn` | external: what a harness appends after an answer |

Assumed of harness and model: a harness has one request outstanding per
conversation, a conversation never repeats a call id, and with `GlobalIds` no two
conversations share one (the store has no other key). The model calls the expand
tool only when it is offered, with an id it saw in a stub or a made-up one, in
parallel if it likes; the harness leaves such calls to the proxy or answers them
with an error of its own.

Abstracted: texts are token counts; the classifier's verdict, the toolset
verdict, which bodies a summarizer compresses and to what size, and which counts
fell out of the LRU are free choices. `SummarizerMode = "enforce"` also stands for
notes and sumy. Results without a call id (hashed ids), several results in one
message are left out; the hooks are `ChatExchange`'s. A reply to an expand call whose stored
content is an array is JSON text in the code (rewrite.js:467-470) and that content in the model.

### ChatExchange and the code

`CompactProxy` follows message lists through many requests and leaves out what
happens around the rewrite of one; `ChatExchange` is that one request. Messages are
reduced to marks: whose text a list carries. What matters instead is that lists are
shared by reference: `parsed.messages`, `hookCtx.messages`, the list `rewriteRequest`
works on and the rewritten one are names of lists, and a hook changes the list that
its context names at that moment, also when it runs on after its time-out. The lists also
share messages: `mutate("messages.N", m)` replaces an entry of one list,
`mutate("messages.N.content", text)` changes a message wherever a list holds that same
object, and the copies which the rewrite makes (`{...m}`) it does not reach. So `Mutate`
marks the list that is named and any set of the others still in use.

| model | code |
|---|---|
| `HookActs`, `HookPasses`, `HookTimesOut`, `LateHookActs`, `PredicateThrows` | `dispatch`; the promise that lost the race goes on; a predicate is called outside of the try |
| `Inject`, `Mutate`, `ReplaceMessages`, `ReplaceOutbound`, `SwapBuffer`, `Abort` | the verbs of `createContext` (engine.js:164-250) |
| `HookRefuses`, `Continues` | `maybeAbort` after each phase that has hooks |
| `ReceivedEnds`, `Counted`, `BeforeEnds`, `Elide`, `RewriteReturns`, `RewriteFails`, `AfterEnds`, `Send` | `handleChat`, cut at its awaits |
| `DebugReply`, `DebugFails` | `x-debug-rewritten` (server.js:345-380) |
| `TimerFires`, `FetchAborted`, `FetchFails`, `Headers`, `Chunk`, `StreamEnds`, `StreamBreaks`, `StreamAborted` | server.js:432-592; the timer may fire between any two of them |

The built-in handlers are cases of these verbs: the session message, the hints and
the context-pressure reminder inject, `prose-summarize` and
`tag-bash-read-elisions` change messages in place. Which of them runs is decided by
the configuration, so the instances range over assignments of verbs to phases.
Endpoints other than the chat completions pass through: no hooks, no timer, no record.

### BenchRunner and the code

The runner is a single thread, so `pc` names the places where another process
can act between two of its effects: each drain of the control file, each port
probe, each request, each write of a job's end. A job is an entry of the suites and has an
id, `IdOf`. `validate` refuses equal ids within one suite file only, so that entries of two
files may share one, and with it the control lines, the events, of which `phase[id]` is the
last, and the raw file, where the later entry overwrites what the earlier one wrote.
`Drain` moves the offset over every line; `Apply` takes the drained lines one by
one (main, lines 265-291); `Accept`, `Refuse`, `Stop` and `GoOn` are the drains of
`run_job` and `bench_side`, which look only at their own job. How a job ends is `Ending`,
and is then written in three steps: `Save` is the raw file (`SaveFails` a write that throws
and may leave it `Torn`), `Tell` the event and the entry of the results behind it.
A kill is possible before each step, also inside the write of the raw file and between the
save of the offset and the use of the lines; a kill between the event and the results is
the same as one behind both, since the results are in memory.
Malformed and unknown lines only emit a warning without a job and are left out, and so are
an append to the event file that throws and a `summary.json` cut short. A job without a
prompt, which raises KeyError, is `BenchSuite`'s. Servers start and stop at any moment
(external).

### BenchConsole and the code

`BenchConsole` extends `BenchRunner`: every step of the runner that emits an event
appends one line to `events` (`RunnerStep`), `ReadEvent` is one turn of the UI's tail
with `handle_event`, `Reopen` its error path, which opens the file anew and reads it
again over the state there is, and `Press` writes a control line for the selected job. The
UI knows jobs by id only, `HandId` is the id of the entry in hand.
An event is one `write` below the size of a pipe buffer and the reader takes whole
lines, so a line is not torn in this model. The runner may be killed and is not started
again here (section 4).

### ChatRepl and the code

One user, one server, one process; the signal handler is the interleaving. `pc` is
where the program waits or may be interrupted: at the prompt, in a slash command,
before `open`, in it, in a read, after the stream. A stream is a sequence of events,
each of two halves. `Receive` is a read: any number of halves joins the buffer, so that
a cut may fall inside a line. `ParseLine` is one turn of the loop in `parse_sse_stream`
over the complete lines of the buffer; what is behind the last line end stays for the
next read. The loop has no wait, so it goes on after a SIGINT has closed the response,
up to the next read. `Receive` needs the open connection: a read which has its data when the
signal comes is a `Receive` before it, and one that is still waiting finds the socket closed
(`Closed`). `Render`
stands for the sanitising and the colours. `/save` is two steps, because it truncates
the file before it writes. History lengths are weights; `Pruned` removes the oldest
messages in pairs behind the system message.

### The offline programs and the code

`Telemetry`: `LogRequest` or `SynthesizeRequest`, `NextSession` and `NextDay` write the
records; `TakeRecord` is one turn of `group_sessions`' loop, `ScanRequest` and
`CloseSession` are `analyze`, `Suggest` is `suggest`. Rates are compared by cross
products, since numerators and denominators are small integers. `Replay`: `Plant`,
`Busywork` and `Ask` are the talk of `needle.py generate`, `Emit` writes the body of one
user turn (`EmitOther` a blank or a broken line, which a recorded session may have),
`StartReplay` opens the file, and `Post` is one line of `replay_session` with any answer the proxy and the transport can give. `AbHarness`:
`RunCell`, `OpenFile` and `WriteFile` are the runner, with `Killed` between any two;
`Aggregate` is the table; percentiles, on which no verdict depends, are left out. `BenchSuite`: `Valid` and `Merged` are the functions of
`bench_suite.py`, `LoadSuite` and `RunJob` what the runner makes of them.

### BenchLock and the code

Inodes, the path and the flock are explicit; `Open`, `Flock`, `WritePid`, `Close`
and `Unlink` are the system calls of `acquire_lock` and `_release`, between which
other processes run. `Kill` is SIGKILL at any point. SIGINT and SIGTERM exit
through `_release`, which is `Close` and `Unlink` from any point of the run.

### ModelService and the code

A command is the list of the stages its script has left (`Script`); each stage is one
thing the script looks at or does, and between any two of them other terminals, the
starters, launchd and the servers take their turns.

| model | code |
|---|---|
| `Bootout`, `Unloaded`, `Remove` | `service.sh stop` and `unregister` |
| `Terminate`, `KillStragglers`, `LastPass`, `Survivors` | `kill_pids_by` with `list_pids_by_repo_cmd`: what was listed gets SIGTERM, what is left of it SIGKILL, in passes |
| `Render`, `Load`, `LoadedAlready`, `Registered`, `Kickstart`, `Bootstrap` | `service.sh register` and `start` |
| `PortFree` | `ensure_port_available`, and the same look of `restart-turboquant.sh` and of a background baseline |
| `Probe`, `Spawn`, `Await` | `make start`, the background starts of it and of `switch-model.sh`, `wait_for_health` |
| `Guard`, `Check`, `Exec` | `start-turboquant.sh`: the guard against other servers (not in `foreground` mode), the port check, and `exec` |
| `Interrupt` | Ctrl-C, and every wait that times out: what was put in the background goes on |
| `KeepAlive`, `Login` | `RunAtLoad` and `KeepAlive` of the plist (external) |
| `Bind`, `BindFails`, `Ready`, `Exits`, `ForeignBinds` | external: llama-server binds its port some time after `exec`, or exits when it is taken; it is healthy later still |

Two readings of the scripts matter. `pgrep` does not see a server whose command line is
long (stop-all.sh:26-27), so the guard of a loose start may pass next to another server:
`Guard` has no condition. And a starter between its checks and `exec` is a shell which
`list_pids_by_repo_cmd` does not list, so a stop does not end what an earlier start is
about to become; `calm` marks the commands that no such starter, no other command and no
foreign server got in the way of. Of any other stop `StopHolds` still says that what it
found is gone.

## 3. Runs and what they show

| run | bounds | shows |
|---|---|---|
| `proxy_chain` | 1 session, 2 handlers, 3 call ids, 9 messages, 1 expand call per message, crashes (also inside a write) | `StubsRehydrate`, `RepliesAreOriginals`, `OriginalsStay` |
| `proxy_modes` | 1 session, 1 handler, 3 call ids, 8 messages, up to 2 expand calls per message, three modes, all request kinds, both shapes, low estimates, light summaries, failing writes | `TypeOK`, `WindowUntouched`, `OnlyEnforceRewrites`, `FreshExpandDelivered`, `OriginalsOnDisk` |
| `proxy_hooks` | two hooks of any two verbs in any two phases on a plain request in two modes; at most one hook on requests of every kind; one chunk | `OneResponse`, `RefusedNotSent`, `EditsAreSent`, `ChatEnds` |
| `bench_queue` | 3 entries of which 2 share an id, 1 measured request per side, 1 control line, 1 restart | `TypeOK`, `EveryJobSomewhere`, `EventsBacked`, `SummaryTrue`, `OnlyOnRequest`, `SuiteOrder`, `ImplementsLife`, `RunEnds` |
| `bench_console` | 2 jobs, 1 measured request per side, 1 control line, the file reopened once | `ShownIsTrue`, `EndIsShown` |
| `chat_repl` | 3 lines of text or any slash command, three streams of up to 4 events that arrive in halves and are parsed line by line, a history cap of 5, a file that is absent, foreign, torn or an earlier talk | `ReplyIsTheStream`, `RequestAsksTheLine`, `PromptIsClean`, `TurnEnds` |
| `offline_tools` | up to 4 log records of 12 kinds, or 2 days of 2 synthesized sessions, 3 watermarks; a talk of 4 turns with blank and broken lines; 2 variants, 2 seeds, 2 runs; suites of up to 2 jobs with every mix of prompt sources; 3 runners and 3 inodes | `SessionsBySilence`, `RowsAgree`, `SuggestionBest`, `SyntheticSplit`, `BodiesAreRequests`, `ReportIsTrue`, `FilesWhole`, `FailuresCost`, `JobsAsWritten`, and of the lock `ActiveOwnsItsLock`, `NeverWedged` |
| `host_service` | 2 terminals, any 2 commands (the second terminal: stop, start, register), 3 processes, 2 passes of the kill, one server that exits by itself, foreign server or restart of the machine | `StopHolds`, `UpIsOurs`, `KeepsServing` |
| `proxy_summary`, `proxy_late`, `bench_single`, `chat_interrupt` | as small as shows it | one statement of the documentation or of a comment each, which the code does not keep (section 4) |

Why the bounds are enough for the cases of interest. With three call ids and nine
messages (`proxy_chain`) a tool result is elided, expanded, its reply elided again and
expanded through the expand call's id; with seven messages that is not reached. Two
handlers suffice for a cancelled request next to its retry. Sizes are scaled: a heavy
result has 3 tokens, everything else 1, and the thresholds lie between, so that the window
closes inside the conversation. `proxy_modes` has two expand calls in one message under a
classifier's cap of one turn, so that one of the two replies is elided at once, and
summaries below the threshold; `proxy_summary` has one above. In `bench_queue` three
entries show every reordering that a start line can do, two of them have one id, and the
third lies between. Three runners are needed for the race of `bench_single`: one ends, one
holds the orphan inode, one creates the new file; it has a fourth inode for reuse. In
`offline_tools` three inodes do: an orphan, the named one and one that is reused (with
four, 1 284 477 states, no error). `host_service` has two commands because one must find
the other half-way, three processes for the job's, a loose one and a baseline, and two
passes of the kill because the first may meet a job that launchd restarts. One terminal
with three commands (886 701 states) or with two exits (1 950 000), and two terminals that
give every command (1 970 000), were also explored without error.

`proxy_hooks` needs two hooks: one to change or refuse the request and one to be
abandoned, and each of the four phases is before, between or after the places where
lists are made anew. `chat_repl` needs three lines: a turn that fails, one that
leaves a history over the cap, and one that is pruned. `offline_tools` needs two sessions with
a tie between two watermarks, counts that meet a watermark and the fill threshold exactly, and
one day that runs into the next (`DayLength` 7 against sessions of up to 6 and breaks of up to
5), and all of them do occur.

Three more configurations pass and are kept beside the runs, for a look at other bounds:
`CompactProxySessions.cfg` (2 sessions with 2 handlers, 2 call ids, 7 messages: 104 320
states), `BenchRunnerLines.cfg` (2 jobs of their own ids and 2 control lines: 991 168) and
`BenchConsoleShared.cfg` (2 jobs of one id, 2 measured requests: 1 324 975). Six more each
refute one statement of the documentation; section 4 names them.

Deadlock is checked in `proxy_chain`, `proxy_modes` and `bench_queue`:
the proxy always has a next request, and an ended benchmark run still sees servers
come and go. The other passing runs model programs that end (a request is over, the
REPL is left, a report is written, a stopped host is left alone), so there CHECK_DEADLOCK
is FALSE; what must not stop early is stated as `ChatEnds`, `TurnEnds`, `EndIsShown`,
`NeverWedged` and `KeepsServing` instead.

## 4. Disagreements found

With a run:

1. `proxy_summary`: a summary at least `tool_result_min_tokens` long is elided by
   Tier 1 and stored as if it were the original (rewrite.js:319 against the comment
   at rewrite.js:240-241 and tier1.js:4).
2. `proxy_late`: an abandoned hook still changes what is sent; `HookPhaseClosedError`
   is thrown nowhere (engine.js:94 against docs/hooks-middleware.md:365). The built-in
   `prose-summarize` waits up to 8 s for its summarizer under a hook time-out of 50 ms.
3. `chat_interrupt`: a SIGINT between two reads of the reply ends the program with an
   AttributeError (demo-chat.py:336 against its header, lines 49-51).
4. `bench_single`: close before unlink lets two runners be active
   (bench_runner.py:199, docs/benchmarking-discipline.md:19).

With a configuration of their own beside the runs, each of which TLC refutes:

5. `CompactProxyParallel.cfg`, `VerbatimRepliesSpliced`: the replies to expand calls are not
   always delivered verbatim. A forced compaction caps the window at two turns
   (rewrite.js:96), and of three parallel expand calls the oldest reply is a stub again
   before the model sees it (rewrite.js:415-418 says "splices a real tool-role message
   carrying the cached verbatim body"). `FreshExpandDelivered` says what does hold: the
   newest replies, as many as the smallest window has turns, are delivered.
6. `CompactProxyTools.cfg`, `ShadowKeepsTools`: an enforcing tool filter trims the parsed body
   in place, and with an answered expand call that body is forwarded in shadow mode too
   (rewrite.js:369 and server.js:386 against docs/proxy.md:57-58). `OnlyEnforceRewrites`
   speaks of the messages.
7. `ChatReplPruned.cfg`, `TypedLineSent`: after a failed turn pair-wise pruning may drop the
   line just typed (demo-chat.py:225 against 228; `missed` in `RequestAsksTheLine`).
8. `OfflineDegraded.cfg`, `DegradedSavesNothing`: proxy/eval/README.md:47-49 says that an answer
   without the rewritten messages reports no savings; replay.py:221-239 reports what the
   statistics say, and with neither header everything as saved. The comment at 228-229 says
   "intersected", line 236 unites. `ReportIsTrue` speaks of answers that carried one of
   the two.
9. `OfflinePromptFile.cfg`, `PromptSourcesMeasured`: a job with a `prompt_file` passes the
   validation of its suite (bench_suite.py:103, 111), but only `prompt` is read and such a job
   fails with KeyError, never measured (bench_runner.py:117). `JobsAsWritten` says that it is
   not measured with some other prompt.
10. `OfflineSplit.cfg`, `SessionsSplit`: "ensure gap exceeds the analyzer session-gap so
   sessions split" (synthesize-telemetry.py:158). Every day starts at its own hour
   (line 145), and with the defaults, 50 sessions a day with breaks of 20 minutes and
   more, the days overlap and the analyzer finds fewer sessions than were written.
   `SyntheticSplit` says which it may lose.

Seen in the code while it was modelled, without a configuration of its own:

- Hooks. An abort writes no record, where docs/hooks-middleware.md:390 promises one;
  `replace('outboundMessages')` has no effect on what is sent; a mutation of `messages` after
  the rewrite does not reach the messages that the rewrite copied; a predicate that throws
  ends the request with 500; a replacement of the messages after the rewrite drops the
  replies to expand calls; a change is not forwarded in shadow mode unless an expand
  call was answered; a debug reply with a header that is no latin-1 ends in 500.
- Runner. `wait_solo` looks at the ports at the start of a side only (bench_runner.py:119
  against docs/benchmarking-discipline.md:19-20): the other server may come up during the
  measured requests. A skip of a queued job written while another job runs is dropped by
  that job's drain (bench_runner.py:129 against bench_tui.py:79). Entries of two suite files
  may share an id (bench_runner.py:225-231 validates each file for itself): they share a raw
  file, so that the numbers of the earlier one are gone, and one control line means both.
- UI. After a kill and a restart of the runner, `running_job` and the counts of the
  killed run stay; hence `ShownIsTrue` speaks of a runner that lives, and
  `BenchConsole` starts none again. Two runs spawned in one second share a directory
  (bench_spawn.py:19).
- Chat demo. A connection reset before the headers, a foreign file given to `/load` and
  SIGINT in a slash command end the program.
- A/B harness. A variant next to a failed or absent baseline "beats" it; a file torn
  by a kill ends the aggregation; files of an earlier run with other variants stay in
  the table.
- Service control. `make restart M=<profile>` hands `M` to a script that reads `PROFILE`
  (Makefile:73, restart-turboquant.sh:26) and restarts the default profile.
  `switch-model.sh` does not look at the port: if a foreign server has it, the wait for
  health ends with that server and the switch is reported as done (hence the exception
  in `UpIsOurs`). A `make start` whose server comes up while the job waits to be started
  again makes the job fail on the port over and over (hence `Undisturbed`).

## 5. Fairness

Safety is checked of specifications with or without fairness alike; it does not depend
on it. The liveness properties assume:

- `RunEnds`: weak fairness of the runner's own steps (a single thread whose calls
  return: `http_chat` has a timeout), strong fairness of `SoloSeen` (the poll sees a
  condition that comes back again and again) and weak fairness of `Switch`, the operator
  who follows the switching instructions of the suite. It is stated for a runner that is
  not killed for ever: a kill ends the obligation.
- `ChatEnds`: weak fairness of the handler with its hooks (the engine's timers fire; the
  counts, the classifier and the summarizer return) and of the upstream timer with its
  consequences. Nothing is assumed of the upstream: it may hang before the headers or
  between two chunks. Passed-through endpoints have no timer and are not claimed to end.
- `TurnEnds`: weak fairness of the steps of a turn: `urlopen` and reads end within the
  timeout of 600 s, a stream is finite.
- `EndIsShown`: weak fairness of `ReadEvent`, the poll of the file ten times a second.
- `KeepsServing`: weak fairness of launchd's `KeepAlive` and of each process: a starter
  gets on to `exec`, a server binds, or exits, and loads its model. Nothing is assumed of
  the commands, which may be interrupted at any stage.

## 6. Proofs

All theorems hold for every value of the constants under the named assumptions
of the modules, which TLC evaluates on every run of the module:

| module | assumed of the constants |
|---|---|
| `CompactProxy` | `ConfigAssumption`: watermarks, caps and sizes are counts, modes those the configuration knows; `SentinelAssumption`: a stub is lighter than the thresholds |
| `ChatExchange` | `ListAssumption`: the message lists are distinct objects |
| `BenchRunner` | `SuiteAssumption`: the entries of the suites, each listed once; `IdAssumption`: an entry has an id, any ids, repeated or not; `SideAssumption`: two sides; `RunsAssumption`: at least one measured request; `TornAssumption`: what is left of a torn file is no result |
| `ChatRepl` | `StreamsAssumption`, `StoredAssumption`: what a stream and a saved file are made of |
| `Telemetry` | `WatermarkAssumption`: finitely many candidates, none above `Fill`; `GapAssumption`: pauses within the gap, breaks beyond it; `RecordAssumption`: the shape of a record, sizes are counts |
| `Replay` | `TurnsAssumption`: at least two turns |
| `AbHarness` | `BaselineAssumption`, `ChosenAssumption`, `MatrixAssumption`: the baseline is a variant, lists of variants and of fixtures are lists, at least one seed; `OutcomeAssumption`: a needle is graded 0 or 1 |
| `BenchSuite` | `DocumentAssumption`: the jobs of a file are a list |
| `BenchLock` | `NoneAssumption`: the sentinel is no runner and no inode |
| `ModelService` | `LimitAssumption`: the bounds are numbers, one pass of the kill at least; `CommandAssumption`: terminals give commands there are |

**Type correctness of the proxy** (`CompactProxyProofs!TypeCorrect`). What makes it
more than bookkeeping is that message lists are rebuilt by position: `ReplaceTyped`
and `AnswerTyped` show that splicing and replacing give a message list again,
`ElisionTyped` and `PersistTyped` that every elided item has content that may be
stored; `NextTyped` has one step per action.

**Genuine store and genuine bodies** (`CompactProxySafety`). `StubsRehydrate`,
`RepliesAreOriginals`, `OriginalsOnDisk`, `OnlyEnforceRewrites` and the action
property `OriginalsStay` are proved of `Spec` under two hypotheses:

- `UniqueIds`: no two conversations use the same `tool_call_id`. The store has no
  other key. With `GlobalIds = FALSE` and the constants of
  `CompactProxySessions.cfg`, TLC
  finds two conversations that overwrite each other's originals.
- `LightSummaries`: an envelope of the summarizer stages is below the Tier 1
  thresholds. `proxy_summary` shows what happens otherwise.

None of the properties is inductive: that a stub sent now can be expanded depends
on what all earlier requests stored, on what the conversations hold (they feed
the next requests), and on the bodies other handlers hold at that moment. The
invariant `Genuine` therefore says of the store that each file is torn or what its
id stands for (`StoreGenuine`), of the conversations that their ids are disjoint and
their contents are what their ids stand for (`IdsDisjoint`, `HistoryGood`), and of
each handler what it holds at its station (`RequestGood`, `OutcomeGood`,
`ModeKept`). The central fact is `Stands`: what stands at a call id is an original,
a stub or a summary of what the id stands for, or is too light to be elided. A
reply to an expand call stands at the *expand call's* id, and `GoodCall` ties that
id to its target; hence an elided reply may be stored and expanded again, any
number of times. `HeavyOrig` and `ElisionGood` show that only originals are elided,
`AnswerGood` that replies are originals, `PersistStep`, `InterruptedStep` and
`StepGenuine` that a complete or interrupted write keeps the store genuine, and
`ForGrows` with `HandlersStay` that a step of one handler leaves what the others
hold. `NextGenuine` has one step per action. Before it was proved, TLC checked the
invariant with the constants of the passing runs.

**The window** (`CompactProxyProofs!WindowStaysUntouched`). `WindowUntouched` compares the
body on the wire with the parsed one, between which lie the interception, the rewrite and
a choice of bodies. `WindowInv` carries `Spares` through these stations: two lists have the
same items with the same ids, and their contents differ only at items that are `Outside`
the window, that is behind which lie as many results and as many tokens as the lesser of
the watermarks `pickVerbatim` may run with. Tokens are counted as the cardinality of
a set of pairs of an item and a token of it, so that what the proof needs of a sum (a
larger set has a larger one) is a fact about cardinalities, and the finiteness of these
sets is proved too (`ItemsFinite`, `ColumnFinite`).

**What the model has just asked for** (`CompactProxySafety!FreshExpandsAreDelivered`).
`FreshExpandDelivered` speaks of the replies to the expand calls of one assistant message,
however many: the newest of them, as many as the smallest window has turns, are delivered in
full whatever they weigh, and only older ones may be elided again (section 4, 5). It holds under
the two hypotheses above and none about the number of calls. The proof joins `Genuine` (a
reply stands at an id), `WindowInv` (what is elided lies outside of the window) and
`LastReplies` (behind the reply to a call of the last message lie only the replies to later
calls of it).

**The runner** (`BenchRunnerProofs`). Type correctness is not inductive by itself: that
`run` stays within `Runs` needs that a request is only under way when one is missing, and
the counts of the raw runs need to know which sides the job has been through
(`MeasuredSoFar`, `ChatLacksOne`). `JobsSomewhere` rests on
`JobsApart` (no entry is twice in the queue, the hands of `run_job` and the results,
together) and `NoneLost`; `JobSteps` sorts all actions into the few ways they move entries,
and the counts of the property are taken from the two by lemmas about positions
(`OnePosition`, `PlacesCounted`). `EventsAreBacked` says that the raw file bears out the last event of an
id; since a file is written before it is told of, `PendingBacked` says the same of an end that
is about to be told. `SummaryIsTrue` needs that the last result of an id is its last event
unless an entry of that id is in hand (`LatestTold`), that an entry which has its id to itself
has not ended before it is through (`SoleUnended`), and that the summary holds the results
(`SummaryIsLatest`). `EndedOnRequest` and `RunsInSuiteOrder` need `TodoRead`:
the lines drained and not yet applied are lines of the file before the offset; and
`EndingAsked`, that a skip or a stop that is about to be told was asked for. The order holds as long
as the file has no start line, and relates queue, job in hand and results (`QueueInOrder`).
`RunnerImplementsLife` is the refinement of `BenchLife`, step by step (`LifeStep`), whose jobs
are the entries: an entry ends once, also when another of its id runs after it.

**The terminal UI** (`BenchRunnerProofs!ConsoleShowsTheRun`). `ShownIsTrue` compares the screen
with the runner's memory, which the UI never sees; between the two lies the event file, of
which the UI may have read any part, some of it twice. `ConsoleInv` therefore joins what is
true of the runner (`RunnerInv`) with what it has told (`RunnerTold`) and what the UI has made
of what it read (`UiRead`), the latter two as functions of the lines: an id's phase is that of its last line,
an id that was at work has ended later in the file unless it is that of the entry in hand, and a
count is the largest that a line tells, which reading lines again does not change. Once
everything is read the two agree; the counts of an id are those of its entry if it has one,
and no less than those of the last if it has several (`SoleSaved`).

**The host** (`ModelServiceProofs`). `StopHolds` and `UpIsOurs` speak of a command that has
ended, `ServiceInv` of one on its way: what it has achieved is a function of the stages it
has left (`Past`, `Cleared`), so the invariant has to know which lists of stages there are
(`Lists`). `OldRuns` says that what a command found when it began still runs as long as it
has not been killed, and that nothing of it does once the kill is behind; `Calm` says what
else is true when nothing interferes: after the bootout launchd has no process, after the
kill there is none that the command did not start itself. The proof changed the model:
`Bootstrap` had launchd forget a job that it had loaded when the plist was missing.

**One reply** (`ChatReplProofs`). `ReplyIsTheStream` compares what was shown and stored with
the stream, though reads cut it anywhere. `Parsed` is the invariant of the loop: there is a
number of lines that were parsed, the buffer and the connection hold the rest, and `Gathers`
tells what the parsed lines make of the reply. `HalvesOf` gives the halves of a
stream by position, `GathersMore` and `ToldUpTo` say what one more line does. For
`RequestAsksTheLine` the talk must be paired when a turn begins, which pruning keeps only
because it drops pairs behind the system message (`PrunedSome`). `PromptIsClean` needs that
between two reads the terminal is dim exactly when reasoning is shown.

**The runner lock** (`OfflineProofs`). `ActiveOwnsItsLock` and `TypeOK` are proved
for any number of runners and inodes without further hypotheses. The
strengthening `OwnersHold` (who holds the flock of an inode has that inode open) is
what excludes that a new file reuses an inode somebody still holds, and gives `LockNeverWedged`:
who holds a flock is a runner past it, so when there is none the next one gets it.

**One request** (`ChatExchangeProofs`). `OneResponse`, `RefusedNotSent` and
`EditsAreSent` are proved for any hooks, in any number and registered for any phases,
any requests and responses of any length. `OneResponse` is a fact about the finished
response, and what may still be written depends on the station at which something else
ends it: `StationInv` says what the client and the log have got at each. For
`RefusedNotSent`, `Standing` says that a refusal stands in the phase it was made in
until `maybeAbort` heeds it: no later hook of the phase is called, and an abandoned
hook can add an abort and never take one back. `EditsAreSent` needs `ListsTyped`
(the names a request goes by always name lists), `MutateAdds` (a mutation reaches the list it
names, whatever others it reaches) and `CarriedInv`, which says for each
station which list holds the replies and the edits, and that the hooks' context names
that list wherever an edit is heeded. It rests on `ListAssumption`, that the lists are
distinct objects.

**The watermark report** (`OfflineProofs`). `RowsAgree` is proved for any log, any
candidates below `Fill` and sessions of any length. It relates rows summed over
sessions, and is not inductive: what a session adds to a row depends on whether its
scan triggered the watermark, and whether the session filled on its peak. `ScanTrue`
connects the two while a session is scanned: a watermark has triggered exactly when
the peak so far reaches it, and not after the peak. `ScanStep` keeps that, and
`CloseStep` gets from it that a filled session adds to every row, that a row's false
positives grow exactly with the triggered sessions that did not fill, and that leads
are not negative. `SuggestsTheBest` follows from the agreement of the rows: with false
positives that differ from the triggers by the same number, comparing rates by cross
products comes to comparing triggers (`Products`).

**The sessions** (`OfflineProofs`). `SessionsFollowSilence` is proved for any log in any order.
`GroupInv` counts the session at hand as the last one: the places of the sessions hold each
record taken once (`Holds`), adjacent places are parted by a silence of more than the gap
exactly where a session ends (`Parted`), and the records not yet taken are no earlier
than the last one taken. `Continued` and `StartedAnew` say which place a step adds; the count of
the property comes from a bijection. `SyntheticSessionsFound` is proved for any days, overlapping ones too: a session is never
split, and two sessions of a day are run together only where requests of another day fall
into the break between them. Two facts meet there. `WrittenInv` tells of the log that the
records of one session are at most the gap apart, those on either side of a break more, and
that the records of a day are in the order of time. `OrderInv` tells of the sessions found
that the order of time holds between any two of their places, not only between neighbours.
The auxiliary `whose` remembers for which session a record was written.

**The other offline programs** (`OfflineProofs`). `JobsRunAsWritten`: `MergedReads` and
`MergedWritten` say what merging reads and in which order, and each job kept with its
defaults is asked what was written for it; of jobs whose prompt is in a file it says only that no
other text is sent for them. `SessionsAreRequests`: the talk of the
needle session alternates as a request must (`TalkInv`), and when the replay starts every
user turn has its body (`LinesInv`). `ReplaysTellTheTruth`: every line behind the
cursor has its report (`Seen`), and each report of an answer that
carried the statistics or the rewritten messages saves exactly the results that are stubs, a
difference of cardinalities. `FilesAlwaysWhole`: the rows of a file are
those of `k` runs of every cell, a cell being a fixture with a seed, counted by position so that
a fixture that is named twice is measured twice (`FileInv`). `FailuresAlwaysCost` follows from the
same invariant: a row that recalls the needle is of a shim that ran (`FoundRan`), so the recall of
the table, a quotient of two cardinalities, counts no other.

Left to TLC: the liveness properties (`RunEnds`, `ChatEnds`, `TurnEnds`, `EndIsShown`,
`KeepsServing`), and what the four other runs and the six configurations of section 4 refute.

## 7. Plan

Done in this order: `CompactProxy` (core), `BenchLife`/`BenchRunner`, `BenchLock`,
type correctness and the safety theorems of the proxy, the proofs of the lock;
then `ChatExchange`, `ChatRepl`, `BenchConsole`, the offline programs, the proofs
about one request and about `RowsAgree`, and `ModelService`; then the proofs about the runner and
its UI, the host, the window, the chat client and the offline programs, so that every safety
property of a passing run is a theorem. Next:

1. The control of the proxy (`proxy.sh`, `stop-proxy.sh`) next to `ModelService`, and
   `once-per-session` over several requests of `ChatExchange`.

## 8. Not modelled

Pure I/O or data handling: configuration merging, the writing of log records, the spawning of runs, the Tier 2
index (not wired in), the session store (its slot calls are stubs), the research client,
model download and build, quality and audit scripts, log rotation, the offline shims.
Of service control the scripts for the proxy and for Laya and the foreground starts are
left out, and a pid that is reused within the two seconds of a kill pass.
Of the modelled parts these details are left out: the session key and SEEN set of
`once-per-session`, the metrics of the proxy, the order of the token cache, the
planting and grading of needle texts, the hook columns of the A/B table, the layout of
the terminal UI. Each is listed with its reason in `PROJECT.json`.
