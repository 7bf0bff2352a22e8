# Verification of claude-c

TLA+ models of claude-c, configurations that check them with TLC, and proofs that TLAPS checks.
claude-c is a terminal coding agent: it sends a conversation to a language model, runs the tools the
model asks for, and sends the results back. Paths below are relative to `src/` of the repository.

## 1. The system

Three kinds of threads share one `ConversationState` and two queues.

```
 main thread (tui.c, claude.c)          worker thread (ai_worker.c, claude.c)      tool threads
 keys, frames, callbacks   --instructions-->  dequeue, call_api, process_response --create--> execute_tool
        ^                                         |   ^                                |  |
        |<------------- TUI messages -------------+   +------ tracker, results --------+  |
        |<------------- TUI messages -----------------------------------------------------+
 interrupt_requested: raised by Ctrl+C and by the exit, lowered by submissions and by the worker
```

| Component | State it keeps | Operations | What is hard, and what makes it correct |
|---|---|---|---|
| TUI message queue (`message_queue.c`) | ring of messages with owned texts, mutex, one condition | post, post_token_update, poll, wait, shutdown, free | eviction when full, wakeups, ownership of texts: newest messages in order, each text freed once |
| AI instruction queue (`message_queue.c`, `ai_worker.c`) | ring of instructions, mutex, two conditions | enqueue (blocks), dequeue (blocks), depth, shutdown, free | both sides block: nothing lost or reordered, no lost wakeup, shutdown frees everybody |
| Tool execution (`claude.c`) | tracker, argument and result arrays on the worker's stack | schedule, wait, cancel, join, record; thread body and cleanup handler | cancellation between any two steps, failed thread creation: each call has one result, no thread outlives the round |
| Conversation (`claude.c`, `openai_messages.c`) | message array, at most `MAX_MESSAGES` | add user/assistant/results, `ensure_tool_results`, clear, build request | main and worker append concurrently: every call answered once and where the protocol wants it |
| Interactive session (`claude.c`, `ai_worker.c`) | threads' lifetimes, `running`, `interrupt_requested` | submit, Ctrl+C, exit, stop, drain, teardown | forced cancellation: order of freeing, locks left behind, termination |
| API call and retries (`claude.c`) | attempt number, backoff, elapsed time | call_api_with_retries, token totals | limits, jitter, interrupt between attempts |
| Providers (`*_provider.c`, `provider.c`) | URL, key or AWS configuration | one HTTP exchange, translation of requests and answers between four formats | which failures are retried; calls, ids and results survive translation |
| AWS credentials (`aws_bedrock.c`) | access key, profile | load, login and poll, react to 400/401/403 | keys rotated from outside: a refused key is not sent again, logins are bounded |
| Bash tool (`claude.c`) | child process, pipe and stdio buffer, redirected `stderr` | run, time out, truncate, be cancelled | descriptors are per process, tools are threads: `stderr` comes back, output is complete or marked |
| File tools, patches (`claude.c`, `patch_parser.c`, `array_resize.c`) | files | read, write, edit, apply a patch | a patch that fails half way; capacity arithmetic |
| Todo list (`todo.c`) | growing array | add, update, remove, clear, TodoWrite | TodoWrite from two tool threads at once |
| MCP client (`mcp.c`) | child processes, pipes, message ids | connect, request, discover, call, disconnect | late answers, two callers on one pipe |
| Persistence, migrations (`persistence.c`, `migrations.c`) | SQLite database, schema version | log a call, rotate by age, count and size, migrate | sessions share the file: each opens, the oldest records go first, usage stays with its call |
| History file (`history_file.c`) | one escaped line per input | append, load recent | which texts escaping brings back; torn lines |
| Logger (`logger.c`) | file, numbered backups, mutex | log, rotate, shutdown | crash between renames; cancellation inside the lock |
| TUI input (`tui.c`, `paste_handler.h`) | buffer, cursor, mode, paste state, history position | keys in three modes, paste, recall | cursor and buffer bounds, and a paste that stays where its placeholder is, over long key sequences |
| Window manager (`window_manager.c`) | layout, pad capacity, scroll offset | resize, scroll, grow | windows fit, offset within the content, nothing lost from the pad after any resize |
| Commands, completion, voice, encodings, themes | little or none | slash commands, path completion, recording, base64, colours | mostly input and output |

`PROJECT.json` lists every component with its status and, under "hazards", the places where a test
would hardly reach.

## 2. The modules

| Module | Models | Correspondence |
|---|---|---|
| `CircularBuffer` | the ring both queues share | indices from 0, `Wrap` is `% capacity`, `Contents` reads from `tail` |
| `EvictingQueue` | abstract TUI queue | a sequence that drops its head when full |
| `TuiMessageQueue` | TUI message queue | one step per critical section; `strdup` before it, the wait and the dispatch are separate steps; texts are heap blocks |
| `BoundedFifo` | abstract instruction queue | a bounded lossless sequence that can be closed |
| `AIInstructionQueue` | instruction queue and the loop of `ai_worker_thread_main` | as above, with two wait sets |
| `ToolExecution` | `process_response`, `tool_thread_func`, `tool_thread_cleanup` | `phase` is the worker's place in `process_response`, `thread[i]` the place of a tool thread, `flag` the interrupt, `orphaned` that a cancelled tool kept `g_log_mutex` |
| `Conversation` | the message array and requests | `msgs` holds who called, answered or said what; `Add` is every append with its `MAX_MESSAGES` test |
| `Session` | composition of the above at the level of lifetimes | `main`, `worker`, `tool` are the threads' places, `doomed` those cancelled, `logOwner` and `convOwner` the two mutexes |
| `ApiCall` | `provider_init`, `call_api_with_retries`, `bedrock_call_api` and the key handling of `aws_bedrock.c` | `elapsed`, `attempt`, `backoff` are the loop's locals; a key is a number, `profile` what the AWS profile holds, `creds` what the provider sends, `refused` the key the server refused |
| `Translation` | the four request and reply converters | a message is a role and a sequence of blocks; `Ask` to `Send` is one exchange from the reply to the next request |
| `ToolRouting` | names of tools: `get_tool_definitions`, `execute_tool`, `mcp_find_tool_server` | a name is the sequence of its words between underscores, each with its length; a word may be cut by a buffer |
| `BashTool` | `tool_bash` in parallel threads | `stderr` is descriptor 2, `pipe` what `select` sees, `stdio` what `fgets` has already read ahead, `writers` whether anybody (the shell or a descendant) still has the pipe |
| `McpClient` | one server: connect, handshake, discovery, requests, disconnect | `open` holds each end of each pipe, `pipe` pieces of lines, `buffer` a caller's line so far; the server may answer late, in pieces, not read, write to `stderr`, or exit |
| `TodoList` | `todo.c` as TodoWrite and `/clear` use it | the array with its capacity; an append is three steps, as in `todo_add` |
| `FileTools` | Write, Edit in its modes, patches | a text is a sequence of lines; `size`, `read`, `open`, `fill` are the separate system calls; a text may be read short or up to a NUL, and written in part |
| `Persistence` | the database of API calls | one step per SQL statement or transaction, any number of sessions |
| `LogRotation` | the log and its backups | `slot[i]` is the file named `<path>.<i>`; one step per `rename`, a session may die between two |
| `HistoryFile` | the history of inputs | the file as characters, `Escape` and `Unescape` as in the code, the torn append as an action |
| `InputLine` | the line editor of `tui.c` | `line`, `cursor`, `capacity`, the paste and the recall; one action per key; `broken` once the length is below the cursor |
| `ConversationView` | entries, pad, windows | an entry is the lengths of its lines, a row what fits the width; one action per handler |
| `Services` | composition of `ApiCall` to `FileTools` above | a behaviour is about one component, chosen in `Init`; the properties of the run `services` |
| `Local` | composition of `Persistence` to `ConversationView` | the same for the run `local` |
| `*Proofs` | theorems | one per module of the core, `ServicesProofs` and `LocalProofs` for the two compositions |
| `SequenceLemmas` | lemmas on sequences of anything | no code: induction, recursion, `FlattenSeq`, `Picked` and `Among` for the two compositions' proofs |
| `MC*` modules | finite instances | the sets and values of the runs |

`Session` abstracts what the others model: queues to lengths, a round to its threads' lives. Texts,
tool arguments and server answers carry no content: the properties only tell identities apart.
Mutated forms of a definition stand before it, marked as mutants: each is a plausible slip in the code
that a property has to notice. Variables marked "history" in a module exist for the properties only
(which call a row is about, whether two tools overlapped); no guard of a program step reads them.

## 3. The runs

| Run | Configuration | Asks |
|---|---|---|
| `tui_queue` | 2 writers, 2 readers, capacity 2, 3 blocks, 4 posts | types, one owner per text, no lost wakeup, newest messages in order, refinement of `EvictingQueue`, shutdown releases readers |
| `tui_queue_tokens` | as small | violated: token totals dispatched are totals reported |
| `ai_queue` | 3 senders, 2 workers, capacity 2, 5 calls | types, lossless FIFO, texts balanced, refinement of `BoundedFifo`; `QueueMovesOn`: if handlers return, blocked calls return, accepted is taken, workers stop; shutdown releases callers in any case |
| `tools` | 2 calls, 2 rounds, 3 instructions, 1 submission while busy | every call answered, tracker outlives threads, each call written and counted once, an interrupt ends the round, an undisturbed round ends, both unless `g_log_mutex` was orphaned |
| `tools_hang` | the same | violated: a round ends if its tools return |
| `conversation` | 7 messages, 3 texts, 2 calls, all disturbances | every call of a request answered once, the instruction is in its request, answers directly behind calls when nothing disturbs |
| `conversation_submit`, `conversation_image` | one disturbance each | violated: answers directly behind their calls |
| `session` | 2 tools, 2 instructions, queues of 2 | queues outlive the worker, its messages are shown, no attempt after the stop, the exit completes |
| `session_abandon` | 1 of each | violated: no tool outlives the TUI queue |
| `services` | what the worker and its tools call, see below | see below |
| `local` | what a session keeps on disk and shows, see below | see below |

Why the bounds of the first ten are enough. A ring of two positions has every relation of head, tail
and count, wraps around, fills and empties; four or five operations cover two full turns. Two writers
and two readers (three senders) give every overlap of two critical sections and a third thread
waiting on the same condition. Two tool calls give "one before, one after" for each failure of the
scheduling loop, two rounds the reset between rounds, and an instruction submitted while tools run is
the one thing that can lower an interrupt. Seven messages reach the limit after two complete rounds.
The theorems below remove the bounds where they were proved. `MaxPosts`, `MaxInstructions`,
`MaxRounds`, `MaxLateSubmits`, `MaxTexts`, `MaxCalls` and `MaxSubmits` bound what the environment
does, not what the program does. Runs say `CHECK_DEADLOCK FALSE` because the program stops: the user
types nothing more, or the process has exited.

### `services` and `local`

The components of these two runs share no state, so each behaviour is about one `subject`, chosen in
`Init`; the others stay in their initial states. A property that speaks of several components is
the conjunction of what their modules promise. `Services` extends `ApiCall` and `Local` extends
`Persistence`, the other modules are instances; `MCServices` and `MCLocal` only give values, so that
the properties checked are the very ones the theorems of `ServicesProofs` and `LocalProofs` state.

`services` (513,744 distinct states):

| Subject | Instance | Properties |
|---|---|---|
| `mcp` | the main thread and one tool thread, 2 polls per request, a reply buffer of 2 pieces, answers in two pieces or in three (`McpCuts`), errors whole, 1 notification | `OwnAnswerWhenCalm`, `ResourcesReturned`, `CallsReturn` |
| `bash` | 2 tools, one of which prints up to 2 bytes, output limit 2 | `ReportsComplete`, `ResourcesReturned`, `CallsReturn` |
| `api` | backoff 4 to 8, time limit 13, attempts of 0 or 3, 2 looks at the profile per login, 2 keys, 2 calls | `RetriesStayInLimit`, `RefusedKeyReplaced`, `CallsReturn` |
| `translation` | 2 ids, replies of up to 3 blocks, up to `MaxQuestions` = 2 messages after the results | `ExchangeSurvives` |
| `routing` | server names `a`, `b`, `a_b` and a long one, tools `x` and `b_x`, 2 servers, `NameRoom` = 4 for 128 and `PrefixRoom` = 12 for 256 | `RoutesHome` |
| `todo` | 2 threads, first capacity 1, up to 2 items | `ReportsComplete` |
| `files` | one thread with every mode of Edit and patches of two files, one with a Write or an Edit; 3 initial disks; `Leftovers`: what memory that was not filled holds, a NUL or a line | `ReportsComplete` |

* 13 is more than one longest wait and less than two, and no sum of delays the jitter allows: the
  last delay has to be cut. A third key would be refused like the second.
* A reply buffer of two pieces is shorter than a line of three: the over-long line is among the cases.
* The names allow every way one name can be read as another: `a` with `b_x` and `a_b` with `x`. They
  collide, which is why `RoutesHome` asks for server names without an underscore. A server's name of
  four characters is one too long for a buffer of four, as one of 128 is in the code; `mcp_a_b_b_x`
  just fits its buffer of twelve and `mcp_a_lister` is cut, so both sides of both limits are there.
* With a first capacity of 1 the second item grows the array.
* The patterns match one line, one of two kinds of line, or two lines; the disks hold the anchor
  never, once beside itself, and twice apart, and one disk has a NUL. Replacements of 12 and 13 for
  a text of three lines just fill the doubled buffer of `regex_replace` and go one beyond it.

`local` (477,427 distinct states):

| Subject | Instance | Properties |
|---|---|---|
| `db` | 2 sessions, 3 calls, 2 records kept, 1 day of length 1, times 0 to 2, files of three ages | `SharedDatabaseHolds`, `OldestRecordsFirst` |
| `log` | 2 sessions, 3 backups, 5 files | `OldestLogsLost` |
| `history` | texts with newlines, carriage returns and backslashes, 3 appends, 2 lines read | `TextComesThrough` |
| `input` | buffer of 7, placeholder from 2 bytes on, 7 keys, 2 earlier lines; `Strays`: what a line that has lost its end reads as | `TextComesThrough` |
| `view` | entries of one long line or of 4 short ones, 3 entries, screens 1x4, 6x4, 12x2, pad of 4 rows, slack 2 | `TextComesThrough` |

Five files fill the three backups and the log, and once more. Seven keys are enough to paste, edit
before, in and behind the placeholder, recall and submit. The first screen has one row, the second no
room for a status line; the input box may take 40 percent of these small screens, 20 in the code, for
it never grows otherwise.

Some properties except what the code does not promise, each exception being a variable that records
the cause: `disturbed` (an answer may be in other hands; in `FileTools`, two tools on one file, or a
write past the buffer), `mixed` (overlapping or abandoned redirections), `spoiled` (a `dup` or `freopen`
failed), `crowded` (two users of the list), `misread` (a file read short or up to a NUL), `moved` (the
placeholder was edited, or a split character deleted), `broken` (the line has lost its end), `lost` and
`stale` (the pad could not be made in one piece), `damaged` (a torn append), `overlapped` (two rotations
at once), `orphaned` (a lock kept by a cancelled thread). These exceptions are wide: what overlapping
Bash tools do to `stderr`, two TodoWrites to their list, two tools to one file, an edit to its
placeholder or a growing pad to its rows goes wrong in the code and in the models; the properties say
that nothing else does.
Section 5 says what happens in those cases.

### Fairness

* A thread that can run does (weak fairness per thread): the scheduler's promise. In `Session` it is
  strong, because a thread alternates between log lines and progress, and it logs finitely often.
* A thread on which `pthread_cancel` was called reaches a cancellation point (every tool waits in
  `read`, `select` or `sleep`; the worker in the network, a wait or a join).
* Tools may run for ever and servers may never answer. `ToolsReturn` (`ToolExecution`) and
  `HandlersReturn` (`AIInstructionQueue`) are premises of the formulas that need them, not fairness
  assumptions. While a handler hangs, a full instruction queue blocks the thread that draws and
  reads Ctrl+C; only the shutdown, which `QueueMovesOn` treats without the premise, would release
  it.
* `CallsReturn` assumes that a thread in a request, in `tool_bash` or in an API call goes on. It does
  not assume that an MCP server, a command or the user at a login prompt does anything: a request
  that is answered by nobody ends by its polls, an API call by its time limit; a Bash tool only
  returns once its shell has ended and nobody has its pipe, and a call that waits for a login is not
  counted. Nor is the write of an MCP request, which waits for a server that does not read: a request
  counts from its first poll. And the polls do not come to an end while the server goes on writing to
  `stderr`, which each turn reads until there is no more: that it stops is a premise (`StderrEnds`).
* Mutexes and condition variables promise no order; a waiter may wake spuriously.

## 4. What is proved

All proofs are for arbitrary constants under named assumptions, which only say that capacities are
positive, names distinct, and times and counts numbers (`ThreadAssumption`, `BoundAssumption`,
`SessionAssumption`, ... of the modules; `Sensible`, `BashBounds`, `McpBounds`, `WordNames`,
`TodoBounds`, `Counts`, `CallBounds`, `LogBounds`, `HistoryTexts`, `InputBounds` and `ViewBounds`
are hypotheses of the theorems themselves). `FileWorld` says more: for some set of lines, the files
at the start and the patterns are over it and the line a tool puts in is not in it (so that what a
tool wrote can be told from what was there); a call has a change, what is searched for has at least
one line, and a patch names a file once. The calls of the run are such ones too: a patch with two
blocks for one file would need another property, as `ReportsTheFile` compares each change with the
file as it was when the call began. Each proof is the invariance argument `Init => IInv`, `IInv /\
[Next]_vars => IInv'`, `IInv => property`.

* `TuiMessageQueueProofs`: types, `RingConsistent`, `NewestPostsInOrder`, `OneOwnerPerText`,
  `NoLostWakeup`, and that every step is a step of `EvictingQueue` or a stutter. For the order the
  inductive invariant adds that the sequence numbers in the occupied window are consecutive. For the
  texts, `OwnerInv` says that a thread holds a pointer only between taking it and giving it away, that
  what is held is what is allocated, and that nothing is held twice.
* `AIInstructionQueueProofs`: types, `LosslessFifo`, `NoLostWakeup`, `TextsBalanced`, refinement of
  `BoundedFifo`. `NoLostWakeup` is inductive only with the capacity bound and counts waiting and woken
  threads on both sides, hence the lemmas on cardinalities; `TextsByOwner` counts the texts of the
  senders, of the workers and of the positions.
* `ToolExecutionProofs`: types, `EveryCallAnswered`, `TrackerOutlivesThreads` and `AccountedForOnce`,
  which joins one result per call and the exact count. The invariant relates, call by call, the state
  of the thread, whether the slot is filled and whether the call is counted; between filling and
  counting there is no cancellation point, which is what keeps the cleanup handler from overwriting
  a result.
* `ConversationProofs`: types, `AnsweredOnce` (every call of a request answered, and once),
  `RequestCarriesInstruction`, `PairedWhenCalm`. The strengthening says that calls in execution are
  unanswered and distinct from all earlier ones and that instructions in the queue are already in the
  history (or were taken by `/clear` or the limit). For the pairing, `PairInv` lets only the calls of
  the last assistant message be unanswered, and those are the ones in execution.
* `SessionProofs`: types, `QueuesOutliveWorker`, `UpdatesRendered`, `NoAttemptAfterStop`. The
  strengthening says that a running tool has a worker in its round or an abandoned one, and that
  after the stop the flag is up unless the worker has seen it and is on its way out.
* `ServicesProofs`, an API call: types and `RetriesStayInLimit` for any limit, backoffs and durations
  (`Sensible`: they are naturals, the first backoff at most the largest), `RefusedKeyReplaced` without
  an assumption. For the limit, `InLimit` adds that what was waited is part of what elapsed and that an
  attempt, once begun, began early; the delays are halves of a backoff plus a remainder, bounded by
  the lemma `Halves`. For the keys, `KeysReplaced` follows the refused key through the looks at the
  profile and the logins, and `LoginsCounted` bounds the logins by the place in the attempt.
* `ServicesProofs`, the Bash tool: types and `OutputAccounted` (`OutputComplete`) for any threads,
  sizes of output and limit (`BashBounds`). `BytesAccounted` says that, while the tool reads, what
  is kept plus what `fgets` has read ahead and what the pipe holds is what the command printed and
  no NUL hides. That `stderr` comes back is half of `ResourcesReturned`: unless redirections
  overlapped, a thread was cancelled in one or `dup` or `freopen` failed, `OneRedirection` lets one
  thread at most hold a saved descriptor, and that one is the terminal.
* `ServicesProofs`, an MCP server: types and `OwnAnswerWhenCalm` (`OwnAnswers`) for any number of
  callers, polls, notifications and any reply buffer (`McpBounds`). While nothing disturbs, `Calm` lets
  one request be out: its answer is still to be written, or on its way, or it is given away. In the
  second case the pieces in the caller's buffer, in the pipe and still to come make one line, and it is
  that answer. `ClosedInOrder` is the other half of `ResourcesReturned` (`AllReturned`, no assumption):
  behind each pipe only the descriptors made so far are open, which are those the error path there
  closes; after the connection only the client's ends and the log; none after the disconnect; and a
  server is down only when its child was waited for or there was none. Who is still in a call at the
  disconnect does not matter to it, only to `OwnAnswers`.
* `ServicesProofs`, tool names: `RoutesHome` (`ToolsReached`) for any server and tool names
  (`WordNames`: a name has at least one word) and any sizes of the buffers. The invariant `RoutesBack`
  rests on `NameLeadsBack`: where every server's name is one word, that word can only be the second of
  the name, so, if neither it nor the whole name was too long for its buffer (`Short`), the first server
  that fits is the one the name was made from. A tool of a server whose name is too long is advertised
  and never found; two tools whose names are cut may share one.
* `ServicesProofs`, the todo list: types and `Todo!ShowsWhatWasWritten` (`ListShown`) for any number of
  threads and items (`TodoBounds`). `ListAlone` says that, while no other thread has touched the list,
  it holds the valid ones of the items already taken and `Rest` that those to come are the rest of
  what was written; a step of the loop is then a step of the recursion of `Todo!Kept` (`KeptStep`).
* `ServicesProofs`, the file tools: `Files!ReportsTheFile` (`FilesReported`) for any number of tools,
  files, changes, patterns and texts (`FileWorld`), which with the two theorems on Bash and TodoWrite
  gives `ReportsComplete` (`ReportsTrue`). Half of it is about texts: `FindFirst`,
  `OccurrencesListed`, `OneTakenBack` and `AllMade` say what a search, the list of occurrences and a
  replacement return for every text and pattern, and `NewTextAsAsked` that the result is the change
  that was asked for. The other half is `Peace`: unless two tools worked on one file at once, a running
  tool has its files to itself (`Owns`), the line of a tool that has not begun is nowhere (`Clean`), and
  `Ledger` relates, change by change, what the tool sees now to what it saw when it began: made, begun
  (the first part of the new text is there), misread, or untouched. The texts
  must be in `Clean` because a line already there would make the change ambiguous.
* `ServicesProofs`, the translation: `ExchangeSurvives` (`ExchangesSurvive`, no assumption) for any ids,
  replies of any length and any number of questions behind the results. What has to come back are the
  `Marks` of the exchange: its words, its calls, their results. The invariant `Told` says that the
  history, read through in order, has the words, then the calls as they were parsed, then the
  results, and nothing else that is a mark; that they are in messages every builder delivers
  (`Deliverable`: no mark in the system's message, no result without an id in a user's); and that no
  call has two results and none has one it did not ask for (`Answering`). The step that sends is then
  a fact about the operators alone: repairing adds the missing results behind the others
  (`RepairedKeeps`), and each builder and converter keeps the marks and their order
  (`OpenAIKeeps`, `StateMessagesKeep`, `ConvertedKeeps`), because each is a `FlattenSeq` over messages
  that keeps the marks of one message; `Delivered` puts them together. That a call's result is behind
  the call follows from the order of the marks.
* `ServicesProofs`, all of `Services`: `TypesOK` (`TypesKept`) for the constants of all seven components
  together. `Places` and `Configured` bound the words of a tool's name by what was configured, listed
  or in the table; `FileShapes` says what files and buffers hold also where two tools meet and `Peace`
  says nothing: lines, or what a torn write left; `Reported`, that a tool's report is one of four.
* `LocalProofs`, the database: `OldestRecordsFirst` for any number of sessions, records and days,
  also where `days * 86400` wraps (`Counts`), and `SharedDatabaseHolds`. The strengthening `IdsOnce`
  says that no id in either table is above the AUTOINCREMENT counter and that a session with a usage
  row to write knows its own call's id; `Columns`, that whatever version is recorded, or was read by
  a session on its way through the migrations, the columns of that version are there.
* `LocalProofs`, the log: `OldestLogsLost` (`OldestLost`) for any number of sessions, backups (at least
  one) and files (`LogBounds`). As long as no two rotations overlap, `InOrder` says that the slots hold
  newer files before older ones, that a file that is gone is older than all there are, and that the
  rename to come meets a free slot; `Whole`, that if moreover no session died in a rotation the n-th
  slot has the n-th newest file, except for the gap the rotation is moving up.
* `LocalProofs`, the view: `ScreenShows` (`ScreenShowsConversation`), the part of `TextComesThrough`
  about the screen, for any entries, screens and layout constants (`ViewBounds`: a screen has a column,
  a pad a row, the conversation at least one line before there is a status line). The invariant is
  `ViewTypes`; its heart, `PadShows`, follows `FlattenSeq` through an added line (`FlattenAppend`,
  `WrappedAppend`) and through the loop that writes the entries again (`RebuiltShows`): after each turn
  the rows are those of the entries so far, or rows were lost. `DoubledEnough` says that the capacity
  the doubling ends with is what was asked for.
* `LocalProofs`, all of `Local`: `TypesOK` (`EverythingTyped`). For the input line that is more than
  types: `InputTypes` keeps the line in its buffer, the recalled position in the history and, until a
  split character is deleted, the cursor in the line, through cuts, words, pastes and recalls
  (`InputBounds`, which also says that the line without its end reads as something shorter than the
  buffer). After that deletion it keeps the cursor from -1 to one behind the line, until the line is
  cleared, recalled or submitted; inserting at -1 would write in front of the buffer, and is not
  followed. `Bounded` adds to `Typed` that
  ids and locals of a session stay below the number of calls, and `HistoryTypes` that the file holds
  characters (`HistoryTexts`).
* `LocalProofs`, the other two parts of `TextComesThrough` (`TextSurvives`). For the input line,
  `PasteInPlace` says that, unless the user has edited before or in the placeholder or deleted a
  split character (`moved`), either there is no placeholder and no bracket in the line, or the
  placeholder stands exactly where the paste began and its brackets are the only ones. Then Enter's
  search, which takes the first placeholder it finds, finds that one. Each kind of edit is one lemma
  on where the line's characters go (`CutAt`, `PutInside`). For the history file (`HistoryTexts`:
  the texts are made of plain characters, newlines, carriage returns and backslashes), `FileHolds`
  says that the file, read from its beginning, gives the submitted lines escaped, each ended, and no
  rest, unless an append was torn. `FoundAgain` needs of it that what escaping made is unescaped to
  the text itself (`Unescaped`, by induction on the text, for texts without a backslash before an n
  and without a carriage return at their end) and that an escaped line has no newline, so that an
  append is read as one line more (`LinesReads`, `ReadMore`).
* `SequenceLemmas`: what the two modules need of sequences of any elements. `AllNaturals` and
  `AllSequences` are induction, on a set instead of a predicate; `Recursion` shows from it that a
  recursive definition defines a function; then what `FlattenSeq` makes of concatenations and where
  each element of its result comes from (`FlattenConcat`, `FlattenLocated`), maps over the elements, and
  what is picked by position (`Picked`) or by membership (`Among`), with `Among` commuting with both.

Only model-checked: every liveness property (`ShutdownReleasesReaders`, `QueueMovesOn`,
`InterruptEndsRound`, `UndisturbedRoundEnds`, `ExitCompletes`, `CallsReturn`), as liveness under
fairness is outside TLAPS's reach. Every invariant of a passing run, and every other property of one
that is not about liveness, is stated by a theorem. For what is defined by recursion, such as
`Todo!Kept`, `Files!Occurrences`, `View!Rebuilt` or `Hist!Lines`, the induction is done by the set
form of well-foundedness (`AllNaturals`), which needs no operator as a parameter. What is selected
from a sequence is written with `FlattenSeq` and not with `SelectSeq`, of which the prover knows
nothing. The index arithmetic of the ring stands at the head of both queues' proofs.

## 5. Disagreements met

Shown by a run:

* `poll_tui_message` does not copy the token fields: the status line shows whatever the caller's
  message held (`tui_queue_tokens`).
* A submission between two reads of the interrupt leaves the worker waiting for tools that were never
  started (`tools_hang`).
* A submission while tools run puts the user's message between calls and results
  (`conversation_submit`); an interrupted image upload gets its synthetic result at the end of the
  history (`conversation_image`). `tests/test_cancel_flow.c` demands otherwise of a request.
* The worker is cancelled in the middle of a tool round and its tools outlive the queue they post to
  (`session_abandon`).

`ExitCompletes` has an exception for locks: a thread cancelled inside `log_message` keeps
`g_log_mutex`, and the exit then blocks. The model has that behaviour (`Orphaned`); the property
says it is the only one that keeps the program from ending. The same holds of a round:
`InterruptEndsRound` and `UndisturbedRoundEnds` except a tool cancelled inside `log_message`
(`orphaned`), after which the worker blocks in its next `LOG_INFO` or `LOG_ERROR` (`claude.c:5032`,
`5062`, `5115`) and no Ctrl+C ends the round.

Read from the code while modelling, by component. The models have these behaviours unless it says
otherwise, and the properties above except them; `PROJECT.json` quotes the lines of those that
contradict a comment or a schema.

* Bash: when `dup` fails `stderr` is redirected all the same and never restored, when `freopen` fails
  descriptor 2 stays closed; output behind a NUL in its line is dropped, and a read error looks like the
  end; a descendant that keeps the pipe open holds the tool after the shell's end; the timeout is for
  silence between two lines, not for the command; it signals
  `getpgid(fileno(pipe))`, which is not the command's process group, so `pclose` waits for the
  command. A signal during `select` fails the tool. Two overlapping tools, or a cancelled one, can
  leave the process's `stderr` on `/dev/null`. Output of exactly the limit counts as truncated.
* MCP: after a late answer or a notification every later request gets the line before its own. An
  answer to a request of another kind is returned as an empty success, a failed listing of resources
  as an empty list. Writing to a server that is gone ends the program, as `SIGPIPE` is not handled;
  writing to one that does not read waits for it, and one that never stops writing to `stderr` keeps
  its reader. An early return of `main` (`claude.c:6387` to `6411`) leaves its servers running. The
  exit disconnects whoever is still in a call: that caller goes on with a server that was freed,
  which is not followed.
* API call: the last rotation step of the Bedrock provider cannot be reached; any status 400 is
  taken for an authentication error; keys in the environment take priority over what a login writes;
  the interrupt is not looked at during a backoff, and a wait cut to the limit is followed by no
  attempt. Not modelled: `headers_json` is read after some error paths have freed it; `TRUE`
  switches Bedrock on in one file and not in the other; with `OPENAI_API_BASE` and
  `ANTHROPIC_API_URL` both set the Anthropic format goes to the OpenAI URL.
* Translation: Bedrock's builder repairs nothing; an image result loses its id; of several text
  blocks Anthropic's first and Bedrock's last is kept; a call without an id is executed and not
  recorded.
* Todo list: two TodoWrites, or one and a `/clear`, work on one list without a lock.
* Files: nothing is locked between reading and writing; opening for writing empties the file before
  the cancellation points of the write, which may leave the first part of the text; the result of
  `fclose` is ignored; a file is written back only up to its first NUL, or up to where it was read;
  `regex_replace` doubles its buffer once and copies beyond it if that was not enough; a patch that
  fails at its k-th file has changed the first k-1; an empty string to replace, or a pattern that
  matches one, never ends (not modelled: patterns are not empty). Below the level of lines, so not
  modelled: hunks that only delete leave an empty line, those that only add are glued to the first
  line. That the rest of a cancelled write, still in the stream's buffer, is written when the
  program ends is not modelled either.
* View: room for an entry is estimated from its characters, not its newlines; a pad that grows during
  a rebuild loses rows; a growing input box hides the latest lines until the next one is added.
* Persistence: rows of `token_usage` outlive their call, as foreign keys are never switched on;
  `days * 86400` overflows.
* Logger: two sessions that rotate at once can lose a full log; a session goes on writing to a file
  another one has renamed; a gap in the numbers costs one more backup.
* History and input: a typed backslash with an n comes back as a newline and a carriage return at a
  line's end is lost; a torn append takes the next line with it; deleting a character that Backspace
  has split (`tui.c:726`) takes more off the length than is left, and the line has no end until it
  is cleared, recalled or submitted (`Astray`; characters of three or four bytes are not followed);
  Ctrl+L, editing before the placeholder, a second paste or a recall put a paste in the wrong place.

## 6. What is not modelled, and the plan

Left out for good: HTTP, TLS, SQLite and process creation themselves, ncurses drawing, colours,
voice recording (a blocking call of the main thread around hardware and network), signing of AWS
requests, formatting and wording of messages. In `Session` the synchronous mode (a queue or the
worker could not be created) is left out, as are the closing of the database and the disconnection
of MCP servers at the exit (they are in `Persistence` and `McpClient`) and failed allocations inside
critical sections. The check of the interrupt before a request (`claude.c:3991`) and the start of
its attempt (`4025`) are one step there: a stop that falls between the two is not seen, so
`NoAttemptAfterStop` allows the code one attempt that had already passed its check. The weak memory
of plain `int` flags is not modelled: `running` and `interrupt_requested` are volatile and
word-sized. `ncurses_input.c` is a second line editor that nothing calls; `todo_update_status`,
`todo_remove`, `bedrock_handle_auth_error` and `bedrock_validate_credentials` are called by tests
only.

Not modelled yet, in the order in which it is worth doing:

1. The token totals and the ownership of the fields of an API result (`ApiCall`).
2. Whether Ctrl+C and a refused request act on the right instruction (`Session`: the actions are
   there, the repository does not say what should hold).
3. The burst heuristic and its timeout, by which a paste without brackets is recognised (`InputLine`).
4. `array_resize.c` and the encodings, as operators against a definition.
5. Path completion and the other slash commands; the status line.

Theorems worth adding: with the conversation's pairing composed with the translation, that a history
of several rounds reaches each provider with its calls answered (`Translation` follows one round);
that a model with an `ApiCall` below `Session`'s worker implements it.
