# Verification of capnp-ls

TLA+ models of [capnp-ls](../src/README.md), the language server for Cap'n Proto
schemas, with the TLC configurations that check them and TLAPS proofs of what
matters most. The reference is the source under `src/`; every definition that
stands for code names its lines in `PROJECT.json` (`map`).

## The system

One process, one thread, one kj event loop. A client (VS Code) writes LSP
messages to its stdin; it answers on stdout and runs `capnp compile` for every
schema it is told about.

| component | state | operations | correct when |
|---|---|---|---|
| `StdinReader` (`stdin_reader.cpp`) | a 1 MB `buffer`, `currentPos` | `monitorStdin`: read, `parseNextMessage` in a loop, compact, read again | each message reaches the handler whole, once, in order; end of input is the end of input |
| `LspMessageHandler` (`lsp_message_handler.cpp`) | settings, `diagnosticMap`, `fileSourceInfoMap`, `nodeLocationMap` | `handleMessage` dispatches `initialize`, `shutdown`, `definition`, `didOpen`, `didSave`, `formatting`; `publishDiagnostics` | every request is answered once; the client sees the diagnostics of the texts it has |
| `CompilationManager` (`compilation_manager.cpp`) | `isCapnpVersionCompatible` | `compile`: version check, clear the map, run, parse or resolve | only checked compilers run; failures lose nothing |
| `SubprocessRunner` (`subprocess_runner.cpp`) | pipes and a child per run | `run`: chdir, fork, exec, read both pipes, waitpid | every run ends, with the outcome the child had |
| `CompileErrorParser` (`compile_error_parser.cpp`) | - | `parse`, `addDiagnostic` | the compiler's lines about a file become that file's diagnostics |
| `SymbolResolver` (`symbol_resolver.cpp`) | the two symbol maps | `resolve` | definitions lead to where a symbol is now |
| `ServerContext`, `main` | the exit promise | signals, `shutdown` | pending answers are written before the end |
| `StdoutWriter`, `LspLogger` | stdout | `write`; every log line is a notification too | frames are never torn |
| client extension (`extension.ts`) | the server binary | find or download it, start, deactivate | a broken download is not kept |

How they interact: `monitorStdin` calls `handleMessage` synchronously and adds
the promise it gets to a task set, so it never waits for a compile. A
notification about a schema therefore starts a *chain* of promises,

    checkCapnpVersionCompatible -> clear, buildCommand, run -> waitpid, parse | resolve -> publishDiagnostics

and several chains are in flight together. Between two links the event loop runs
whatever else is ready: kj puts the continuation of a ready promise behind the
events that are already queued, so a link that waits for nothing is a separate
turn. All chains share `diagnosticMap`, the symbol maps and the cached version
answer, and nothing tells the results of one chain from another's.

What is hard here: the interleaving of chains over shared maps; compilers that end
in another order than they were started; texts that change while they are
compiled; compilers that fail, are killed or are cut short; reads that cut
messages anywhere, over a buffer that is never cleared; the end of the process
while work is pending. `PROJECT.json` lists each of these as a hazard at its line,
with the properties that would catch it.

## Modules

| module | models | used by |
|---|---|---|
| `Compilation` | the promise chains, the shared maps, the compiler processes and the client that saves files | `MCCompilation`, `CompilationProofs` |
| `DiagnosticsService` | abstract: every touched file is reported on | refined by `Compilation` (serial client) |
| `MCCompilation` | values of the constants for TLC | the `Compilation_*` runs |
| `CompilationProofs` | theorems about `Compilation` | `SerialProofs` |
| `SerialProofs` | the refinement of `DiagnosticsService`, proved | |
| `StdinReader` | the buffer, the reads, the parser and the compaction | the `StdinReader_*` runs |
| `StdinReaderProofs` | theorems about `StdinReader`, and the refinement of `MessageChannel` | |
| `MessageChannel` | abstract: whole messages in order, and then the end | refined by `StdinReader` |
| `SubprocessRunner` | one `run()`: fork, exec, two pipes, two readers, waitpid | the `SubprocessRunner_*` runs |
| `SubprocessRunnerProofs` | theorems about `SubprocessRunner` | |
| `SymbolIndex` | `resolve`, the two symbol maps and `handleDefinition`, over files that are saved at any time | `MCSymbolIndex` |
| `MCSymbolIndex` | three files and their texts for TLC | the `SymbolIndex_symbols` run |
| `SymbolIndexProofs` | theorems about `SymbolIndex` | |
| `ServerLoop` | the event loop from read to exit: messages, queued answers, the exit event, stdout | the `ServerLoop_*` runs |
| `ServerLoopProofs` | theorems about `ServerLoop`, and the refinement of `RequestService` | |
| `RequestService` | abstract: each request answered once, in order | refined by `ServerLoop` |
| `ExtensionBinary` | the windows of the client extension and the server binary they share | the `ExtensionBinary_binary` run |
| `ExtensionBinaryProofs` | theorems about `ExtensionBinary` | |
| `NatLemmas` | facts about natural numbers that the proofs share | `StdinReaderProofs`, `ServerLoopProofs`, `SymbolIndexProofs` |

What one module leaves out another has: `StdinReader` hands over the messages that
are in `ServerLoop`'s batch; `ServerLoop` knows of a compile that it ends with
frames on stdout, `Compilation` what happens in between; `Compilation` takes a run
of `SubprocessRunner` to be three steps (the start, the reading of the file, the end)
with its outcomes, and names the symbols of a file by
the text they come from, which `SymbolIndex` takes apart. The binary that
`ExtensionBinary` starts is the server of all the others.

### Compilation

State: `stage[n]` is how far the chain of notification `n` has got,
`compatible[n]`, `input[n]`, `result[n]` what it carries along (the captured
version answer, what the compiler process read, how it ended); `diagnosticMap`,
`fileSourceInfoMap` and `isCapnpVersionCompatible` are the members of the same
name; `inbox` is what waits on stdin; `disk` the texts; `shown` what the client
displays. `overlapped` is a history variable: the chains that were active beside
another.

Actions: `Initialize` (`handleInitialize`), `Send` (the client), `Receive`
(`handleMessage`, `handleDidOpenTextDocument`, `handleDidSave`,
`compileCapnpFile` and the synchronous part of the version check),
`AnswerVersion` (the `--version` process has ended: its answer, and in the same turn
what `compile` does with it), `StartCompile` (the same for an answer that was there at
once), `ReadInput` and `Exit` (the compiler process), `Finish` (waitpid and
`CompileErrorParser::parse` or `SymbolResolver::resolve`, one turn of the loop),
`Publish` (`publishDiagnostics`). `Proceed` is what the first two have in common: a
refusal, or the map is cleared and the compiler forked.

A process that is forked for a command that cannot be executed goes on as a *twin* of
the server (see `SubprocessRunner`). The chain it was forked for is `hung`: the twin
holds its pipes and never lets it go on; and `Steal` is the twin reading a notification
from the stdin it shares with the server. What the twin then does with it is not
followed.

Abstractions: a text is a value with a verdict; the diagnostics of one failed
compile are named by the text that was compiled; positions, wording, ids and
framing are left out. A compiler that exits with an error but names no line of
the compiled file (errors of an import, command not found) is the verdict
`importErrors`. A working directory that cannot be entered and a compiler killed
by a signal end with exit code 0 and no message, as in the code.

### StdinReader

A *cell* is a run of bytes: the two halves of `Content-Length: `, the number, the
delimiter, the cells of the body. The header name is in two halves because a
read that ends inside it is the one cut the parser does not survive; cuts inside
the number or the delimiter only delay the message, because the delimiter that
is found then lies behind `currentPos`. `Arrive` and `Return` together are
`tryRead`; `DispatchMessage`, `StopParsing` and `Compact` are the callback.
Stale bytes stay in the buffer exactly as `memmove` and later reads leave them.
The memory behind the buffer is taken to hold a NUL (it is the zeroed tail of the
allocation). Bodies have no delimiter and no header name in them.

Reads may end anywhere. `cutName` remembers that one ended inside a header name
with old bytes behind it (`OldBytesBehind`: the next cell of the buffer is no NUL): `MessageChannel` calls a layer to which that
has happened *disturbed*, and lets it go back to an earlier message and start over
from there, but neither skip one nor hand over anything that is not a message.
A layer that is not disturbed delivers each message once.

### SubprocessRunner

One call of `run()`. The child is a process of the model: `Exec` succeeds, finds
no command and exits, or fails otherwise and *throws* - out of `run()` and into
the child's copy of the event loop, where it goes on as a second server, a `twin`
(`Steal` is its read of the stdin it shares, `Garble` what its answers do to the
pipe it has for a stdout). A running command writes pieces to its two pipes in
any order and waits when one is full (`Write`), may close a pipe it has written
(`Close`), exits, or is killed by a signal. The parent reads whichever pipe is ready
(`Read`: `readAllText` to the end of the pipe, `tryReadMessage` to the end of the
message, and it throws when the pipe ends inside one). When both readers are through
(`joinPromises`), a failed one makes `run()` fail without a `waitpid` (`Reject`);
otherwise the parent calls it (`Wait`) and has a result when the child has ended
(`Reap`). In between, `waiting`, nothing else happens in the server, for `waitpid`
blocks: a command that closes both pipes and goes on stops the whole loop. A status of
a child killed by a signal has exit code 0, as
`WEXITSTATUS` makes it.

`Compilation` takes a run to end with one of these outcomes, or to hang as long as the
twin lives.

### SymbolIndex

A text is a sequence of lines with a width in bytes, each with a declaration or with
names at some of its columns (`refs`) that refer to nodes, which may be as close to each
other as `a.b`; the compiler describes places by byte offsets into the text it has read, and
`getPositionInFile` turns them into lines and characters of the text that is on
disk by then. `Save` is the user, `Compile` a compiler that has succeeded: its
output (`jobs`) waits to be resolved, in any order, while files change. `Resolve`
is the whole of `SymbolResolver::resolve`: the nodes of the output one after
another, until one of them is in a file that `extractFilePath` does not find; the
rest is dropped. `positionToNodeIdMap` is replaced for the compiled file;
`nodeLocationMap` only ever gains and overwrites. `handleDefinition` is an
operator: it reads the maps and changes nothing. It counts the character behind a name
as part of the name (`Matches`), and `DefinitionsLeadHome` asks at every character of
every line: at a name and right behind it the answer is where the name leads, anywhere
else there is none. One character more and a name would answer for the next.

`freshFiles` and `freshNodes` are history variables: what has not been saved since
the compile its entries come from. `DefinitionsLeadHome` speaks of fresh files and
nodes only. That is not much to ask of a stale map, and it is not what the map
gives by construction: a fresh file's entry sits beside locations that other
compiles, of other texts, have left or not come to.

Abstractions: a resolve is one step (the event loop runs nothing else meanwhile,
and a file saved during it is not fresh afterwards, so nothing is claimed of it);
a file is found or not, whatever the order of import paths; references are one
byte long, and two are never adjacent: something stands between two names. Whether the compiler describes the nodes of imported files is left
open (`Descriptions`).

### ServerLoop

`batch` is what is left of the messages of one read, which `handleMessage` handles
in a row; `ready` the answers, which are continuations at the end of the loop's
queue; `exiting` that the exit event is at its front, where kj puts an event that
is fulfilled from inside the loop (`PromiseFulfiller` arms depth first) - so the
answers to `shutdown` itself and to the requests that were read with it are
lost, and with them the compiles under way. `out` is stdout: what went into the
pipe, how much of it the client has not taken, whether anything was lost, and whether
anything was written behind a part of a notification (`garbled`).
`write` is `StdoutWriter::write` as its callers use it: a promise that is dropped
is cancelled, so what does not fit at once is never sent. `writeAll` writes frames in
a row: the errors a handler or a chain logs, and what `publishDiagnostics` finds in
`diagnosticMap` - a frame for each entry, or one when there is none. A chain clears
the map and adds at most its own file. `out.answered` is history: the requests
whose answers went into the pipe whole, which is what `RequestService` speaks of;
`asked`, too, is history: which of the client's messages were requests.

Actions: `Send`, `Close`, `Signal`, `TakeFromStdout` (the client);
`ReadMessages`, `ReadEof`, `HandleSignal` (only when the queue is empty),
`HandleMessage`, `Respond`, `Exit`, and the turns of a compile's chain, `StartCompile`,
`FinishCompile` and `Publish`. A message is its kind: whether it has a number as its id
(then it is answered), how many errors handling it may log (`LogCounts`: each is a frame
written on the spot), whether it starts a compile or asks for the end. A request whose
id is a string (`named`, `namedShutdown`) is logged, handled, and not answered. A log
line, an answer and a publication are frames of one size or another. The turns of a
chain come behind the answers that were queued before it; their order among newer
answers is left open, which allows more than the loop does.

### ExtensionBinary

A file is an inode and the one path beside the extension is a name for it: unlink
takes the name away, not what somebody writes to the inode or executes from it. A
window is one `phase`: `Activate`, `Find` (`findLanguageServer`), then the download
(`Refused`, `RequestFails`, `Redirect`, `Open`, `Chunk`, `WriteFails`, `Cut`,
`Finish`, `Stat`, `Chmod`, `Timeout`), `Start`, `Deactivate` and `Stopped`, and `Crash`
at any point. `timed` is the 30 s timer, which belongs to the
connection of the first request: it is left set when that is refused, gone when
it is redirected or breaks. `LateTimeout` is a timer that goes off when its download has
long been given up: it unlinks whatever is at the path by then, which may be the file of
another window. `overlapped` is a history variable: a download was begun while another
was under way.

## Runs

| run | what it shows |
|---|---|
| `chains` | two chains in flight over two files, every setting, every failure: diagnostics are genuine, nothing runs unchecked, isolated chains report their own outcome, and every chain whose processes end reaches its publish (liveness; but for a fork that fails for the version check, and a twin) |
| `serial` | a client that waits is served as `DiagnosticsService` says, its diagnostics and its symbols (refinement, with its liveness) |
| `cleared`, `indexed` | two things a comment and the README say and overlapping chains break: a file saved clean keeps its errors on display because another file's compile fails before it is published; of an open and a save the older compile ends last and its symbols stay |
| `framing` | reads that end anywhere: only whole messages, none left behind, each once and in order until a header name is cut over old bytes, no false end, and the reader implements `MessageChannel` (refinement, with liveness) |
| `twice` | a message handled twice after a cut in a header name over stale bytes |
| `pipes` | a child that writes, closes its pipes, is killed, or cannot be executed, against the readers and a `waitpid` that blocks the loop: messages are whole, no error line is lost, the exit code is the child's (0 for a killed one, which passes for a success), and `run()` ends however much the child writes to either pipe (liveness) |
| `twin` | a command that cannot be executed leaves two servers on one stdin |
| `symbols` | files saved, compiled and resolved in any order, whole or broken off: a definition request at any character of a fresh text leads home, or nowhere where there is no name |
| `service` | no request is forgotten on its way from the client to its answer; the loop implements `RequestService` (refinement, with liveness), and ends when it is asked to, whatever is queued, unread or hanging |
| `torn` | diagnostics that do not fit behind the log frames of their chain are cut off inside the frame, and a later answer is written behind the part |
| `binary` | two windows, every answer of the network, crashes anywhere: while no download overlaps another only whole binaries run, and only the late timer of a download that was given up takes one away; every activation ends, unless the network is waited for without a timer |

Divergences between the code and what is said of it that need no run, because one
line shows them:

- `src/README.md:63` calls `compilerPath` optional, and the version check
  (`compilation_manager.cpp:88`) refuses every compile without one, in front of the
  fallback to the bundled compiler.
- `initialize` claims notifications of watched files (`lsp_message_handler.cpp:566`)
  and the client sends them (`extension.ts:331`); `handleMessage` drops the method
  (`:93`), and nothing calls the handler there is for it (`:423`). It claims
  completion too (`:561`), which is an unknown method: an error is logged and the
  request is answered like one that has no result.
- A message of more than 1 MB fills the buffer, and the read of no bytes that
  follows is taken for the end of the input (`stdin_reader.cpp:50`). `framing` has a
  buffer that every message fits in.
- `buildCommand` quotes an argument with a blank, `buildArgs` splits at every blank
  (`compilation_manager.cpp:208`).
- A compiler that is killed by a signal has `WEXITSTATUS` 0 (`subprocess_runner.cpp:170`),
  and a workspace that cannot be entered the exit code 0 (`:76`): `compile` takes both for
  successes and clears the file's diagnostics.
- A definition whose node is gone is still found: nothing erases from
  `nodeLocationMap` (`symbol_resolver.cpp:167`). `DefinitionsLeadHome` is about nodes
  that are there.

Others that the models show are the conditions under which their properties are
stated: two windows that download at a time spoil each other's file (`overlapped`);
the timer of a refused request unlinks whatever is at the path 30 s later, which
`BinaryStays` names as the one way a whole binary is lost otherwise; a
download that was redirected, or cut in its body, is waited for with no timer
(`OnlyTheNetworkKnows`); the chain of a twin hangs, and one whose version check cannot
be forked ends without a publish (`EveryCompileIsReported`); an answer is lost to a full
pipe or to the exit event (`behind` and `ending` in `RequestService`).

### Bounds

Every bound is a constant of the cfg.

- `chains`: two notifications, both in flight. A chain meets the others through the
  three shared variables alone, so two chains show every meeting of a pair; what a
  chain finds left over by earlier ones is more than two notifications can build up,
  and that is what the proofs are for: all the safety properties of this run are
  proved for any number. `cleared` needs three: one to put errors on display, one that
  clears them and one that gets in between. `serial` has three notifications and three files, one of
  them no schema.
- `framing`: three messages and a buffer of 12 cells, each message of 5 to 7: one
  and a piece of the next, which is what stale bytes need to matter, in every
  alignment of old and new headers. `twice` needs a fourth.
- `pipes`: a pipe holds two pieces and a program writes up to four to each, so a
  pipe can be full while the other is empty, twice over, and a kill can come at any
  point of a message. Its invariants are proved for any size.
- `symbols`: an app that has three texts, a library with two (which move and lose a
  declaration), a line with two names a byte apart, and a file that cannot be found; two outputs waiting, so one may be
  overtaken by another of the same file or of the one it imports.
- `service`, `torn`: three messages (a read brings one, two or three), a pipe of
  three units of which one is atomic, answers and log lines of one unit and publications of one or two,
  so a write can fit, be refused or be torn; every kind of message.
- `binary`: two windows opened up to four times in all, a binary of two chunks, and
  three inodes: one for each window's hand and one at the path. The safety
  properties are proved for any number.

Deadlock is not checked (`CHECK_DEADLOCK FALSE`): a client may stop sending, and
a reader at the end of its input, a server that has ended or a window that nobody
opens again stops. That nothing else stops is what the liveness properties and the
refinements check.

### Fairness

`Compilation`: `Fairness` is `WF(Receive)` and `WF` of the continuations of each chain:
kj's loop runs every ready event in turn. That a process which was started ends is no
part of it, for the code has no timeout. `EveryCompileIsReported` therefore has, for each
chain, the hypothesis that it does not stay in `checking` or `compiling`; the `serial`
run, whose abstract service answers always, assumes `CompilersEnd` as well. `Initialize`,
`Send` and `Steal` are not fair: neither the client nor a twin need do anything.

`StdinReader`: `WF(Next)`: the client writes all its messages and closes stdin.

`SubprocessRunner`: the program makes progress and ends, and each reader is served
(`WF(Read(s))` each: two readers of one event loop); no signal need come. A
program that hangs would hang `run()`; and `RunEnds` makes an exception of a command
that cannot be executed, whose twin ends only when the client closes stdin, which is
not modelled.

`ServerLoop`: `WF` of each thing the loop does by itself: what is queued runs, and
when nothing is, a source that is ready (stdin, its end, a signal) is served.
The turns of a compile's chain are not fair, for a compiler may hang, nor is anything the client does,
taking from stdout included.

`ExtensionBinary`: `WF` of the extension's own steps, the callbacks of the local
file system and the timers. The network and the language client are not fair: no
answer, no body and no end of it need ever come, and nobody need close a window.

Every property has a mutant of the code (`PROJECT.json`, `mutants`) that its run
refutes; the mutated operators stand before the ones they replace, marked "Slip".

## Proofs

`CompilationProofs` proves, for every value of the constants (any number of
files, texts and notifications in flight, all settings, all failures), from the
assumptions `TextsAssumption` and `SettingAssumption` of `Compilation`:

- `TypeCorrect`: `TypeOK`. Not inductive alone: that an appended diagnostic is a
  text needs to know that a verdict is only ever the verdict of a text that was
  read (`ChainHasInput`), and that `Receive` touches a chain that has not begun
  needs `InboxIsSent` (stdin holds each unreceived notification once). `TypeInv`
  is the conjunction, and every other proof starts from it.
- `CompilersAreChecked`: `OnlyCompatibleCompilersRun`, through `CompilerInv`: a
  chain's own positive answer implies the cached one, the cache implies a
  compiler path, and the path is fixed before anything is sent.
- `DiagnosticsAreGenuine`: `DiagnosticsHaveACompile`, through `CompileInv`: the
  set of applied failed compiles only grows, and `Finish` is the only step that
  adds a diagnostic.
- `IsolatedCompilesAreReported`: the action property `IsolatedCompileIsReported`,
  through `IsolationInv`: two active chains are both marked as overlapped, so
  while an unmarked chain runs nobody else can touch the map it cleared.

`SerialProofs` proves `ServesWaitingClient`: under `Serial` (one notification of a
finite set in flight, a compiler that works, no failures), `Compilation` refines
`DiagnosticsService` as far as safety goes - its initial states are the service's,
and each of its steps is a `Touch`, a `Learn`, an `Answer` or nothing. `SerialInv` says
what the step `Publish => Answer` needs: the map holds the report of the text the chain
has read, its symbols are known if it compiles, and it is still the text on disk, because
the client has waited. The
hypothesis `Serial` is that of the `serial` run, but for the number of files, texts
and notifications; the fairness half of `ServesDiagnostics` is only model-checked.

`SubprocessRunnerProofs` proves the two invariants of the `pipes` run for pipes of
any capacity and programs that write any amount, from `PipeAssumption`. The
invariant they need (`Inv`) says when a reader can be done (`ReaderInv`: with a
whole message, or at the end of a pipe whose writer has closed it or ended), what a child
that has closed a pipe or ended has written (`ChildInv`), and that a result comes only of
a child that has ended, when both readers are done (`ResultInv`). `ResultIsGenuine` speaks
of killed children too: their exit code is 0, and a killed child that wrote no message
is the one thing, besides a program that writes nothing, that succeeds without one.

`ExtensionBinaryProofs` proves the three safety properties of the `binary` run for
any number of windows, starts and chunks, from `BinaryAssumption`. Until two
downloads overlap, at most one window has a download (`OneDownload`); until its body
comes there is nothing at the path (`NothingThere`); what is being written is at the
path, unless a late timer has unlinked it, is written from the front, and is not
executable (`BeingWritten`); the file that is looked at by
`stat` holds nothing or everything (`Written`). So what becomes executable is whole
(`ExecIsWhole`), and whoever unlinks or opens the path finds no whole binary there
(`StayStep`), except a timer, which is left only of a download that was given up
(`Left`). Why a broken download is harmless is in the last together:
it is never made executable, and the next window finds a file it does not start.
A late timer that unlinks a file in the middle of a download is harmless for the same
reason as a crash: nothing at the path becomes executable.

`StdinReaderProofs` proves the five invariants of the `framing` run, for any number
of messages of any lengths, a buffer of any size and reads that end anywhere, from
`SizeAssumption`. None is inductive. What carries them (`IInv`):

- `InOrder`: up to `currentPos` the buffer is a piece of the stream - each cell is
  followed by the one that follows it there, none is of a later message than what
  arrives next. Behind `currentPos` nothing is known, which is what makes `strstr`
  hard.
- `Aligned`: the buffer, and the place that is parsed next, begin with a message.
  So the first delimiter found is that of the message in front, or lies in old
  bytes, and then either the message is incomplete and nothing moves, or a header
  name was cut and `cutName` says so. Only then can the parser stop behind
  `currentPos`.
- `Delivered` and `Latest`: what was handed over is whole, includes every message
  that is no longer in the buffer, and ends with the one before the message in
  front, unless a cut name has made the reader go back.

`WholeMessages` follows from `Delivered`, `NothingLeftBehind` from it and what
`Settled` says of the reader at rest. `OnceInOrder` adds that, while no name is cut, the
number of the last message is how many there were (`Counted`): it says exactly when
what `twice` shows can happen. `EofOnlyAtTheEnd` and `DeliversAsAChannel` have a
hypothesis, `Fits`: every message has room in the buffer. It is the 1 MB limit
named above, the `framing` run meets it, and without it both are false. With it the
reader always has room for the rest of a message (`Room`), so a read of no bytes
is the end. `DeliversAsAChannel` then maps each step to one of `MessageChannel`, or
to nothing: a dispatch is a delivery (of the next message, or of an earlier one once a name was
cut), a return inside a name over old bytes is a disturbance, a read of nothing is
the end, and the rest changes nothing the channel has.

`ServerLoopProofs` proves `TypeCorrect`, `RequestsAreHeld` (the invariant
`NoRequestIsForgotten`) and `ServesRequests`, the safety half of `AnswersRequests`, from
the module's assumption. `IInv` adds to the types that messages
wait in the order the client numbered them (`Numbered`: `batch` and `inbox` hold
consecutive numbers behind the last one handled) and that what is queued or answered
was handled (`Taken`). So the request of the message at the front of the batch is
newer than any before it, which is what the service's `Take` asks for. What one
write does to the pipe is a lemma (`WriteType`), what several frames in a row do
follows from it frame by frame (`WriteAllType`).
`NoRequestIsForgotten` is a law of conservation: each step moves requests between the
inbox, the batch, the queue and the answers, and one that drops any sets `out.lost` or
`exiting` (`KeepsRequests`). `RequestService` alone would allow a loop that never queues
a request; this is what forbids it.

`SymbolIndexProofs` proves both invariants of the `symbols` run for any files, texts,
ids and number of outputs in flight. The lemmas about positions come first: a byte
offset within a line is found in that line, at its distance from the start
(`PositionInLine`); any offset at all, in any text, gives a position (`PositionType`),
so an output resolved against another text cannot break a map. `IInv` says that a
waiting output has read a text with a declaration for whatever it refers to
(`Resolvable`), and that entries of fresh files and locations of fresh nodes are
those of the texts on disk (`FreshIsTrue`). `Resolve` keeps it because what it enters is
fresh only if its text is still there, whatever nodes it has not come to.
`FreshDefinitionsLeadHome` then needs that at a character of a line the entry of the name
there, or right before it, matches and no other (`EntryAtColumn`), or an answer could be
another name's.
`NoneAssumption` says that the model value for "no location" is not one.

Recursion and least elements need no induction over data in these proofs. `NatLemmas`
states what they need about sets of numbers: a non-empty set has a least element
(`LeastNatural`), a set with 0 and every successor has all (`NaturalsByStep`), and a
function of a prefix of the numbers may be given by its values step by step
(`RecursionOverPrefix`); that `Start` and `writeAll` are what their recursive
definitions say follows from those.

All assumptions are conditions on constants that the runs evaluate.

Only model-checked: liveness - `EveryCompileIsReported`, `RunEnds`, `EndsWhenAsked`,
`ActivationEnds` - and the fairness halves of the three refinements
`ServesDiagnostics`, `IsAChannel` and `AnswersRequests`, for the prover has no `ENABLED` and
no fairness. The properties the code violates (`cleared`, `indexed`, `twice`, `twin`,
`torn`) are counterexamples and need no more than a run.

## Not modelled

- The pure functions on strings and numbers: `buildCommand`/`buildArgs` as text,
  the comparison of versions, the columns and the wording of an error line,
  `uriToPath`, the JSON codec, LSP type conversion. They keep no state and nothing
  interleaves with them; the models name what they return (a command or none,
  compatible or not, the file a line is about).
- `handleFormatting`, which refuses, and `handleDidChangeWatchedFiles`, which is never
  called, beyond what the dispatch makes of them.
- A client that closes its end of stdout (`SIGPIPE` or a failing write), and the
  memory that a client which sends faster than compilers run takes.
- What a twin does with the notifications it reads, beyond the pipes it holds; more than
  one server of one window otherwise; the substitution of variables in the
  client's settings; platforms on which nothing is downloaded.
- Build and CI scripts, sample schemas, the tests: no state of the program hangs on
  them. The tests under `src/samples` were read for what they expect.

What could be added next: the composition of `Compilation` with `SymbolIndex`, in which
a late compile of an older text (`indexed`) would meet the positions it is resolved
with; and a channel of frames that `ServerLoop` implements, with the condition under
which stdout is never torn, as a theorem.
