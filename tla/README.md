# rcurl in TLA+

A verification project for `rcurl`, a command line client for HTTP, FTP and a
handful of network diagnostics. The modules here are translated from the Rust
sources under `src/src/`; TLC checks them on small instances, and TLAPS proves
part of what TLC checks for every value of the constants.

`rcurl` is one process per invocation. Most of it runs on one task of a tokio
runtime; the exceptions are a thread that reads standard input (telnet), the
blocking pool (name resolution) and the parallel directory scan (disk). Nothing
is kept between invocations but one file, the request history, which all
invocations share without a lock.

## 1. Inventory

| part | source | state | operations | interacts with |
|---|---|---|---|---|
| dispatch | `main.rs`, `app/run.rs` | the parsed command line | `do_request`, `interactive_mode`, `execute_request`, `init_logging` | saves the history, then calls exactly one handler |
| request history | `history/storage.rs`, `types.rs`, `dirs.rs` | `~/.rcurl/rcurl.req`, a JSON array | `load_history`, `load_history_entries`, `save_request` | other rcurl processes, through the file |
| command line | `cli/app_config.rs`, `history/command.rs` | none | parse (clap), `command_from_cli` | what is saved is parsed again in interactive mode |
| HTTP transfer | `http/handler.rs` | current URL, loop counter, response, output file, progress | `http_request_with_redirects`, `send_request`, `handle_response`, `download_file_with_progress` | proxy selection, resolver, TLS, timing |
| request construction | `http/handler.rs` (`build_request`) | none | method, headers and body from the command line | called once per hop |
| proxy selection | `http/proxy.rs` | environment variables (read only) | `get_proxy_from_env`, `should_bypass_proxy`, two connectors | asked on every hop |
| resolver | `http/dns_logging_connector.rs` | none | `getaddrinfo` on the blocking pool | can outlive the request |
| request timing | `http/timing.rs` | ten optional instants | `start_total`, `end_*`, `Display` | filled in by the hops, printed once |
| TLS and certificates | `tls/rcurl_cert_verifier.rs`, `tls/info.rs` | none | verifier behind `-k`, `get_tls_info`, expiry classes | replaces the request under `--tls-info` |
| FTP client | `ftp/handler.rs` | one FTP session | connect, secure, login, cwd, type, then store, SITE or list; `output` | server, local files |
| telnet | `telnet/handler.rs` | a channel, a connection | stdin thread, polling loop | user, remote peer |
| port query and kill | `port/handler.rs` | none | scan, look up, kill | the process table, twice |
| whois | `whois/handler.rs` | response text | choose a server, query, read until end | server |
| disk usage | `disk/handler.rs` | sizes of entries | parallel scan, sort, column layout | file system |
| ping | `ping/handler.rs` | four samples | probe, statistics | host |
| DNS lookup | `dns/handler.rs` | none | one query, formatted output | resolver |

What is hard to get right, by part, and what correctness means there:

* **Request history.** Two invocations may overlap at any point of read, edit,
  truncate, write. Every failure is either swallowed (`unwrap_or_default`) or
  turned into a warning. Correct: no duplicates ever; nothing that was saved is
  lost except where saves overlap or fail; the newest command first; saving never
  prevents the request.
* **HTTP transfer.** A redirect chain, each hop with its own route, one 30 second
  timeout per hop that ends with the headers, and a body that no timeout covers.
  Correct: the output file is untouched until the final response; success means
  all bytes; the number of requests is bounded; `NO_PROXY` holds on every hop;
  everything ends but a body whose bytes or end mark never come.
* **Proxy selection.** Precedence of eight variables, values in several forms,
  two kinds of patterns.
* **Request timing.** One record lives through all hops, and different routes fill
  in different fields; the DNS phase is a constant, not a measurement.
* **Telnet.** Two threads, a channel that carries both the lines and the mark
  that ends the session, and a peer that negotiates. Correct: lines arrive in
  order, none lost; the session ends when asked to and only then; refusals do not
  breed refusals; a talkative peer does not starve the user.
* **FTP.** A sequence in which every command may be refused, and three results
  that are dropped. Correct: the order in which credentials, TLS, transfer type
  and files are touched; what is reported matches what happened.
* **Request construction.** Nine options that overwrite each other, and files that
  are read again on every hop. Correct: a redirect repeats the request; the body is
  labelled as what it is; the file that is sent is the file that was named.
* **Port.** A pid from one scan is used after a second look, while the kernel hands
  out pids anew. Correct: only a process that served the port is killed.
* **Whois.** A timeout per read, a response kept in memory until its end, a decoder
  that sees one read at a time. Correct: the whole answer or none; it ends.
* **Disk.** Parallel walks over a tree that shrinks meanwhile; columns, units and an
  ellipsis at their limits. Correct: every directory once, sizes that were true at
  some time, names that fill their column, figures that read back.
* **TLS.** Two set-ups of rustls that should agree; days rounded toward zero; a
  clock that is read twice.
* **Command line.** A saved line is read again by a shell splitter and by clap.
* **Dispatch.** One handler per run; errors that are told to a logger which may not
  be there yet.

## 2. Modules

| module | what it is |
|---|---|
| `RecentList` | abstract: the most-recently-used list a history promises |
| `History` | the history file and the invocations that rewrite it |
| `Proxy` | pure: where one request is routed |
| `HttpTransfer` | one HTTP request: redirects, hops, timeout, delivery; extends `Proxy` |
| `Timing` | the figures of `--time` across hops |
| `Telnet` | stdin thread, channel, polling loop, peer |
| `Lists` | pure: filtering and adding up a sequence, for the handlers and the history |
| `Task` | the main task of a process: its place and how its command ended |
| `BuildRequest`, `Tls`, `Ftp`, `Ping`, `Disk`, `Whois`, `Port` | one handler, or part of one, each; extend `Task` |
| `CommandLine` | pure: a command line written to the history and read back |
| `App` | one process from `main` to its end; composes `Task`, `CommandLine` and the seven handlers |
| `MCHistory`, `MCHttpTransfer`, `MCTelnet`, `MCTiming`, `MCApp` | instances for TLC |
| `ListProofs` | lemmas about `Lists`, about prefixes of sequences, and how recursive functions are proved about |
| `HistoryProofs`, `HttpTransferProofs`, `TelnetProofs`, `TimingProofs` | theorems about one part |
| `UrlProofs` | theorems about what a URL runs: `BuildRequest`, `Tls`, `Ftp` |
| `QuickProofs` | theorems about the quick commands: `Port`, `Ping`, `Whois`, `Disk` |
| `AppProofs` | theorems about a whole run, and about a line that is replayed; extends `UrlProofs` and `QuickProofs` |

A definition that begins with "Faulty variant" in its comment is what a plausible
bug would make of the definition after it. No action uses one; they exist to show
that each property tells the code from a broken version of it.

### History

A process is an invocation. Its place `st[p]` follows `do_request`: `load` is the
read of `load_history_entries`, `open` and `write` are the two system calls inside
`fs::write` (open with truncation, then `write_all`), `execute` is
`execute_request`. These are the points where another process can come in between.
`menu[p]` is the list the interactive prompt was given, which is not read again.
`Replay` is what a saved command becomes when `shell_words` and clap parse it and
`command_from_cli` renders it; it is a constant of the module, any function from
commands to commands or `Rejected`, so the results hold whatever that round trip
does. The text of the file is abstracted to the list it parses to and its length,
because a writer that started later may write a shorter text over a longer one,
and then the file does not parse. `Faults` turns on failures of opening, reading
and writing, and kills. A write is all or nothing: a `write(2)` that is cut short
leaves a text that parses to the empty list, like an empty one.

`disturbed` is a ghost that records that a save began while another held a copy of
the list, that a read failed, or that a process stopped between truncation and
write. It exists to say precisely when a command may be lost.

`RecentList` has one variable and one action, `Touch`. With `Serial` (the user runs
one rcurl at a time) the history implements it; the refinement mapping takes the
list that is about to be written while the file is truncated.

### HttpTransfer and Proxy

`pc` follows the task: `hop` is the top of the redirect loop, `resolve`, `connect`
and `await` are inside `timeout(30 s, ..)`, `received` is the redirect test and the
head of `handle_response`, `download` and `collect` are the two ways of reading a
body. `resolver` says that a `getaddrinfo` call is running on the blocking pool:
it is not cancelled by the timeout, and dropping the runtime waits for it (`Exit`).
`TimesOut` cannot fire while `get_tls_info` resolves, because that call blocks the
task's own thread. `build_request` is one step that succeeds or fails; connecting
(TCP, CONNECT, TLS, the proxy connectors) is part of `RequestSent` and `SendFails`.
A body is a number of bytes with one of four framings; a chunk is any number of
the bytes that are left. `open` says that the end mark of the body is still out: a
body of an announced length has none, the others end with a last chunk, trailers or
the close of the connection (`EndMark`), for which the server may let rcurl wait, or
before which the connection may break (`BodyFails`). `CollectEnds` has the ways in which
standard output can fail: `print!` panics, the `flush` after it returns an error, and
a part of the body may be on the terminal by then. A redirect's body is never read. `sent` is a ghost: the
requests that were put on the wire and their routes.

`Proxy` holds the operators of `http/proxy.rs`. A host is the sequence of its
labels; a proxy value is the record of its scheme, host and port; `UrlScheme`
says what `url::Url::parse` makes of it.

### Timing

Time is in milliseconds. The three phases are pairs of instants that may never have
been recorded. Each of the four kinds of hop is an action that writes exactly the
fields the code writes: a direct hop all of its phases (and an http hop leaves the
TLS fields of an earlier https hop), a proxied https hop only the end of TLS, every
other hop nothing.

### Telnet

The channel carries byte vectors; the empty vector is the mark that the user is
done. A blank line is encoded as CRLF, which is why it is not that mark. The loop
is one read (`ReadEvent`, `ReadNothing`, `ReadFails`, `Panic`) and one `try_recv`
(`TryRecv`, `LeaveLoop`) in turn, then `Join`. The peer and the telnet crate are
external: the peer may send data, open negotiations, acknowledge refusals, close.

### Task, and the modules that extend it

All command handlers are stretches of one task, so `pc` and `result` belong to
`Task`, and every handler module has variables of its own, an `Init` that takes the
sets of its inputs as arguments, a `Next`, and a `Spec` for the handler alone. `App`
takes the same definitions for the handler inside a process. The theorems are first
about the handler alone, then (`AppProofs`) about the process.

**BuildRequest.** `build_request` as the record it adds up to: method, the lines of
Content-Type, the other headers, and the body with the files it comes from. Header
values and contents are members of a small set. `Build` is one round of the redirect
loop, `FileChanges` another program at work on the files. A form file is read at
`BareName` of its path, because the code opens `Path::file_name`. One malformed
header stands for everything `http::request::Builder` refuses.

**Tls.** `send_https_request` and `get_tls_info` set up rustls in code of their own, and
the module has both: `LoadRequestRoots`, `ConfigureRequest`, `ShakeForRequest` on one
side, `LoadInfoRoots`, `ConfigureInfo`, `ShakeForInfo` on the other. A request always puts
a `RcurlCertVerifier` in place; `--tls-info` does so with `-k` only and keeps the
verifier of webpki otherwise, and it refuses a host in brackets. What they share is
rustls itself: a handshake asks the verifier of its configuration (`Shake`), and a
`RcurlCertVerifier` cannot be built for an empty store (`Constructible`), so `-c` with
an empty file fails a request even with `-k`. Time is counted in hours;
`NumDays` rounds toward zero as chrono does, and `Tick` lets up to `Gap` hours pass
between the handshake and the description, which reads the clock again.

**Ftp.** `pc` follows `ftp_request` and `output`. Every command of the session may be
refused. `-T`, `-Q` and a listing exclude each other in that order. A listing is the
number of its bytes, and `-r` a list of ranges; what `output` puts together is a list of
segments of the listing, one for each range, so that it can be compared with what was
asked for. The `suppaftp` crate, the server and the range parser are external:
`Satisfiable` is what `validate` lets through.

**Ping.** Probes that come back after a number of milliseconds or fail, and the
integer arithmetic of the statistics.

**Disk.** A tree is a sequence of entries; a name is the sequence of the widths of
its characters. `WalkFile(d)` is one step of the parallel walk of directory `d`, so
the walks interleave with each other and with `FileDeleted`. Both loops of
`truncate_for_display` and the rounding of `{:.2}` are operators, compared with
references in `NamesFill` and `FiguresReadBack`.

**Whois.** An answer is a sequence of bytes, some of which are halves of a character;
each `Read(n)` is decoded alone, as `from_utf8_lossy` is called per read. `quiet` says
that the timer of the read in progress is about to go off; every read clears it. The
server closes, falls silent, or trickles for ever. `print!` may fail with a part of the
answer out (`WhoisPrintPanics`).

**Port.** A process is a pid and how many processes have had that pid (`born`).
Between `Scan`, `LookUp` and `Signal` other processes end and start, and a pid can be
given out again. `holders` is a ghost: who served the port when it was scanned.

### CommandLine

Words are sequences of characters, of which only those are kept apart that
`shell_words::split` or clap treat differently. `Rendered` is `command_from_cli`,
`Split` the splitter, `Parsed` what clap makes of the words; both go through their
input one element at a time, as recursive functions (`Lexed`, `Filled`). `Clis` are
the command lines that clap can have accepted, so the ones that can be in a history:
a quick command has the number of targets it takes. `Rereadable` says
which lines are expected to survive: nothing in a place that is written without
quotes needs quotes, no value looks like an option, the URL is not the name of a
quick command. That it is needed at all is a weakness of the rendering: a URL with a
blank, a quote or a leading `#` in the history is replayed as something else.

### App

`handler` is what the run will turn out to be for; it is chosen at the start so that
only the inputs of that handler are varied (`Matters`), which keeps the sum of the
state spaces from becoming their product. A run is given a command or opens the
menu; `SelectLine` and `LineRefused` are the two outcomes for a saved line. The logger
is installed, the command saved, one handler run, and `Exit` is the end of `main`,
which tells an error to the logger only. What runs from the menu has fixed inputs:
the handlers do not know where their options came from. Over https `App` follows the
first handshake; how a request travels is `HttpTransfer`, what happens to the history
file is `History`, and telnet is `Telnet`: their actors run beside the task, and they
are checked as systems of their own.

## 3. What is checked

| run | question | instance |
|---|---|---|
| `history` | Does any interleaving of saves, with any failure, duplicate an entry, or lose one without a disturbance? | 2 processes, 3 commands (one twice as long, one that does not parse again), all faults |
| `history_serial` | Is the history the promised list when invocations do not overlap, and is the request executed even if saving fails? | as above, one at a time, open failures |
| `history_lost` | Is every saved command still there when all is quiet? **No.** | as above, no faults |
| `http` | Do redirects, failures, chunks and proxies in any order respect the output file, the terminal, the bounds and NO_PROXY, and does everything end but a body that stops coming? | 3 URLs, 3 redirects, bodies of 0, 1, 2, 3 bytes against a print limit of 2, 3 environments, 5 command lines |
| `http_redirects` | Does the limit message mean what it says? **No**: one redirect fewer is followed. | one command line |
| `telnet` | Order, end, negotiation, starvation. | 3 lines over 2 words, 1 option, 2 offers, queue of 2 |
| `timing` | Are the figures consistent when every direct hop takes at least its DNS estimate? | 3 hops, durations 3, 15, 20, 40 ms |
| `timing_stale` | And with a tunnelled https hop among them? **No**: phases overlap. | as above |
| `app` | For every command, from `main` to its end: is it the request that was asked for and the same on every hop, are credentials, files and the terminal respected, are figures and statuses right, is the right process killed, are errors shown, is a saved line replayed as it was, and do the quick commands end? | see below |
| `http_form` | Is the form file that is sent the one that was named? **No.** | the instance of `app` |
| `ftp_upload` | Does "upload success" mean the file is there? **No.** | the instance of `app` |
| `ftp_range` | Does `-r` deliver the bytes of its ranges? **No**: the last byte of each is missing. | the instance of `app` |

**Bounds.** Two processes are enough for every overlap of two saves, which is what a
lost or duplicated entry takes; the entry lengths 1, 1 and 2 give texts shorter,
equal and longer than what they overwrite. Three redirects let a chain leave a
spared host, pass a proxied one and come back, and reach the limit; body sizes
below, at and above the print limit, empty ones too, split in every way and ended in
every way. Three lines and a
peer queue of two let a line be typed before, between and after a flood, and two
offers let negotiations of both directions cross. Durations lie below, at and above
both DNS estimates. Every action of every specification is taken in these runs.

`MCApp` gives each handler inputs that reach all of its branches:

* http: eleven command lines over two files, one of them outside of the current
  directory, each of two contents or absent and changing at any time; three hops, so
  that a second and a third request can differ from the first.
* https: days of three hours, a warning two days ahead, a horizon of eight hours and a
  gap of two between handshake and description. A day must be longer than the gap and
  the horizon longer than a day and the gap; then certificates expire before, at and
  after every moment of interest. Six servers: a good one, one that is valid
  longer, and four with one flaw; with and without `-k`; `-c` with the right authority, with none, and unreadable.
* ftp: every command line the model distinguishes, six lists of ranges (within, across and
  beyond the end; two of them apart, out of order, overlapping), listings of 0, 1 and 3 bytes, an upload of 2 bytes.
* ping: four probes of 0, 1 or 3 milliseconds, in every combination with losses.
* disk: every name of up to six narrow or wide characters for a column of five;
  every size from 0 to 70 and around 256 with units of powers of 4, which covers both
  sides of four borders; trees with several directories that shrink while walked.
* whois: three targets, four answers with whole and broken characters and the empty
  one, read in every split with a buffer of three, and three ways in which a server
  ends.
* port: two pids with two lives each; a client with the same local port, an owner that
  cannot be seen, a socket that two processes share.
* the menu: in five places of a saved line that take a word (URL, `-X`, a quoted
  value, the target of a quick command with one and with two targets), every word of up
  to two out of eight characters, so that every character meets every other one.

Deadlock is not checked in runs whose command ends (`http`, `telnet`, `timing`, `app`
and the three runs on its instance, where the process exits); it is checked for the
history, which never stops.

**Fairness.** `History` (`FairSpec`): a started invocation continues, because
`do_request` waits for nobody; the prompt has no fairness, because it waits for
its user. `HttpTransfer`: rcurl's own steps, the resolver (which has a timeout of
its own), the 30 second timer, and noticing the end of a body once its bytes and its
end mark have arrived; nothing of the server, which owes neither. `Telnet`: the loop, which polls and never waits
except in `join`, and a peer that acknowledges what it is told; nothing of the user,
so the session is only claimed to end once the input has ended. `App`
(`AppFairSpec`): the program's own steps; the probes of ping, the walk of disk and
the calls of port, which return by themselves; the query and the timers of whois.
Nothing is assumed of the user at the prompt or of any server. `QuickCommandsEnd` has
an exception it names: a whois server that never stops sending is read for ever,
since every byte restarts the timeout.

**Where code and text disagree.** The violated properties state what the code or its
documents say. Each is a finding in `PROJECT.json` with its line:

* the history can be used to re-run previous requests (`README.md`, Interactive
  Mode), while an overlapping save removes entries;
* the redirect error means ten redirects were followed: nine were;
* `--time` breaks down the total (`README.md`): phases overlap after a tunnelled hop;
* `-F 'file=@/path/to/file'` uploads that file (help text in `cli/app_config.rs`): the
  directories of the path are dropped;
* an upload succeeded (`ftp/handler.rs`): the result of the transfer is not looked at;
* `-r` retrieves the bytes within a range (`README.md`): the inclusive end of the range
  is used as an exclusive one.

Further disagreements are modelled without a run: an FTP URL without a password is
refused although `README.md` shows one (`NoCredentials`), `sftp` speaks plain FTP
(`Connect`), and `-Q` sends SITE instead of a transfer and not before it (`Quote`). A
comment in `proxy.rs` says that a proxy value may be in `host:port` form, but a host name
before a port is taken for the scheme of a URL and the value ignored (`UrlScheme`).
`--tls-info` refuses an IPv6 address in brackets, with which a request has no trouble
(`NameValid`); an RSA key has no size and every curve has 256 bits (`KeySize`); a
certificate that ran out less than a day ago is not yet called EXPIRED (`NumDays`),
which `StatusSound` spells out.

## 4. What is proved

All proofs are checked by TLAPS with Z3, Zenon and LS4, for every value of the
constants that satisfies the named assumptions of the modules.

| theorem | module | states |
|---|---|---|
| `TypeCorrect`, `NeverTwice`, `LostOnlyByDisturbance` | `HistoryProofs` | `TypeOK`, `NoDuplicates`, `KeptUnlessDisturbed` |
| `TypeCorrect`, `LinesInOrder`, `NothingLeftBehind` | `TelnetProofs` | `TypeOK`, `HandedInOrder`, `QuitFlushes` |
| `TypeCorrect`, `PhasesAlwaysConsistent` | `TimingProofs` | `TypeOK`, `PhasesConsistent` |
| `TypeCorrect`, `OutputOfFinalOnly`, `SuccessMeansWholeBody`, `ProgressNeverDrifts`, `TerminalSparedOfParts`, `RequestsAlwaysBounded`, `BypassAlwaysHonoured` | `HttpTransferProofs` | `TypeOK`, `OutputBelongsToFinal`, `WholeBodyOnSuccess`, `ProgressExact`, `TerminalAllOrNothing`, `RequestsBounded`, `BypassHonoured` |
| `FileIsRecentList` | `HistoryProofs` | `ImplementsRecentList`, for one invocation at a time with saves that may fail to open the file |
| `FtpTypeCorrect`, `CredentialsAlwaysCovered`, `AlwaysStoredInBinary`, `OutputAlwaysOpenedLast`, `AlwaysDeliveredWithinRange` | `UrlProofs` | `FtpTypeOK`, `CredentialsCovered`, `StoredInBinary`, `OutputOpenedLast`, `DeliveredWithinRange` |
| `TlsTypeCorrect`, `VerdictsAgree`, `StatusAlwaysSound` | `UrlProofs` | `TlsTypeOK`, `SameVerdict`, `StatusSound` |
| `RedirectsRepeat`, `BodyAlwaysLabelled` | `UrlProofs` | `SameRequestEveryHop`, `BodyLabelled` |
| `VictimAlwaysServed` | `QuickProofs` | `PortTypeOK`, `VictimServedPort` |
| `StatisticsAlwaysSound` | `QuickProofs` | `PingTypeOK`, `StatisticsSound` |
| `AnswerAlwaysWhole` | `QuickProofs` | `WhoisTypeOK`, `WholeAnswerOrNone` |
| `ListingAlwaysRight` | `QuickProofs` | `DiskTypeOK`, `RowsRight`, `NamesFill`, `FiguresReadBack` |
| `FtpPromisesInEveryRun`, `TlsPromisesInEveryRun`, `RedirectsRepeatInEveryRun`, `RequestsLabelledInEveryRun`, `QuickPromisesInEveryRun` | `AppProofs` | the properties of the seven rows above, for whole runs |
| `FailuresAlwaysReported`, `LinesAlwaysReplayed`, `RunTypeCorrect` | `AppProofs` | `FailuresReported`, `ReplayExact`, `AppTypeOK` |

Every invariant that a passing run checks is proved, and so is the refinement of
`RecentList`.

**Assumptions.** Each module names what it assumes of its constants, and TLC evaluates
that in every run. Most give a constant its type or say that a set of inputs is not
empty (`Matters` picks one of them). The others are facts about the code: `ping` sends
four probes, and with more than a hundred one could be lost at 0%; a plain file has
one size; "no value" is not the name of a media type or of a file (`Absent`), nor a
word (`None`); a pid is a positive number; options, switches and subcommands have
different names, and none of them is a single mark of the shell; the history holds
what clap has accepted (`AppAssumption`); the warning of an expiring certificate is
not empty, and the clock moves by less than a day between handshake and description.

**Lists and ListProofs.** Filtering, adding up, splitting, parsing, flattening and
decoding are recursive functions over a sequence, and the provers know nothing about
these. `RecursionExists` shows once that such a function exists and is typed, by
induction on a set of numbers (`InductionOnSet`, from the well-foundedness of `<`);
each use then shows that what is chosen satisfies its equation, and draws its
conclusion by another induction on the prefix. So `Picked` returns the elements
at the given positions, each once and in order (`PickedInOrder`), and sums compare
when their terms do.

**History.** `KeptUnlessDisturbed` speaks of the file, but what decides is the copy a
saving process holds. The invariant adds: a copy has no duplicates (`Prepared`);
and, without disturbance, one process at most holds a copy, the copy lists
everything that was ever saved and the command being saved, and the file is empty
while it is being written (`Undisturbed`). `Load` establishes this from the file,
because no one else holds a copy; `Write` hands it back to the file, because an
empty file is never longer than the new text. That last step needs to know that
`Size` is a number and the first that `Updated` lists what it should.

For the refinement, `OneAtATime` says that at most one process is past its start, that
the copy it is about to write is the updated list, and that the file is empty while it
is written. The user would see the old list until the file is truncated and the new
one from then on (`Visible`), so `Truncate` is the step that maps to `Touch`
(`UpdatedTouches`: the command is in front, nothing is lost, no order changes), and
every other step maps to a stutter. Failing to open the file keeps the old list;
failing to write does not, and is excluded.

**Telnet.** Both properties relate the typed lines to the handed ones and say nothing
of the channel between them. The invariant says what is in it: position k holds the
encoding of the typed line k places after the last one handed over, or the mark
after the last line (`ChanHolds`), and while the mark has not been received the two
counts balance (`Conserved`). That the encoding of a line is never the mark
(`EncodeIsNotQuit`) is what makes the head of the channel decide between a line and
the end. A consequence: the branch of the loop for a channel without a sender is
never taken.

**Timing.** The invariant orders the recorded instants of each phase between zero and
the clock and, without tunnelled hops, the phases one after another; the halves of
the handshake are handled by a lemma on integer division.

**HttpTransfer.** All safety properties the runs check are proved, with three
invariants. `Typed` adds to the types that a response is in hand wherever one is
looked at. `Delivery` says what is true at each place of the body: before it, nothing
has been opened, collected or printed; in a download, what is written and what is
left make the size of a response that is not a redirect; while collecting, what is
got and what is left do. `Counted` relates the requests that were sent to the loop
counter, and gives every one of them the route of its URL (`Routed`). That turns
`BypassHonoured` into a statement about the route alone: `SparedIsCovered` shows that
a host which the reference says is spared is also covered by the suffix test of
`should_bypass_proxy`, and `FirstOfTwo` which of the two variables counts. Both need
that hosts are not empty, and the proofs need that the synthetic response of
`--tls-info` is not "no response"; these are assumptions of the module.

**Ftp.** What is delivered was decided several steps before it is. `Passed` carries
along what each place implies (secured under ftps, binary, upload or not, nothing
opened or shown yet), and `Deliverable` what `Cut` left of the listing. The arithmetic
is one lemma about a list of ranges (`CutWithinRange`): the piece cut for each lies
within what was asked for, only its last byte is missing, and since `validate` has refused
ranges that overlap, no two pieces share a byte.

**Tls.** What a set-up comes to as a whole (`RequestAccepts`, `InfoAccepts`) is compared
with the other one at the time of the verdict. The invariant follows the set-up that
runs: which roots and verifier it has put in place (`Loaded`), that its verdict is what
its definitions come to at that time, and how far the clock has moved since (`Judged`).
That the two come to the same is an argument about different verifiers (`SetUpsAgree`):
with `-k` both are a `RcurlCertVerifier` and need roots; without, webpki's own verifier
takes an empty store but no chain ends in one. That nobody else is accepted is
`AcceptedDeserves`.
`StatusSound` then is arithmetic about division rounded toward zero
(`DaysBelowZero`, `DaysEnough`) for any length of a day and of the warning. The proof
showed that the warning must not be empty: with `Soon = 0` a certificate that ran out
less than a day ago would be called OK, hence the assumption.

**BuildRequest.** As long as no file changes, every request built so far is what would
be built now, and nothing stands in the way of building it again (`Repeatable`). The
labels do not need the files: `Labels` says that every request has the Content-Type
lines of its options, and `LabelsFit` what those are.

**Port.** The victim is decided by a scan that is out of date when the signal is sent.
`Announced` keeps the link: the pid that will be signalled was given to a holder of
the port when it was scanned, and its births have only gone up since.

**Ping.** `Counted`: answers and losses make up the probes. The average lies between
minimum and maximum by an induction on the sum.

**Whois.** A read that ends between the two bytes of a character decodes them apart.
`Kept` says that until one does, the text so far is the decoding of the bytes so far
and the next read does not begin inside a character; decoding in two parts then is
decoding the whole (`DecodePieces`). In any case nothing is shortened, and what is printed
when `print!` fails is a beginning of the text.

**Disk.** The walks run in any order while files are deleted. `Walking` bounds what each
has counted: by what it has passed at the sizes of the beginning, and from below by
what of that is still there. The listing is sorted twice, by entries and by size; that
it holds every directory once is an argument about permutations and positions. The
columns of a name are a sum, so the two loops of `truncate_for_display` are compared
with the longest beginning that fits; the rounding of the figures is arithmetic.

**App.** `StepsOfTheRun` and `StepsAside` sort the steps of a process: those around the
handlers, which leave all their variables alone, `Dispatch`, and one handler's own. For
each of the seven handlers the invariant says that nothing has begun before the
handler is called or if it is another one's run, that the invariant of the handler
holds while the task is inside it, and that the promises hold in any case; the step
lemmas of the handler's module are used as they are. `Heard` says that without a
logger no command has been run; it needs to know of all seven handlers that they begin
and end inside of the process (`HandlersAreInside`).

**A line that is replayed.** `ReplayExact` is about three programs in a row: rendering,
splitting, parsing. `After(s, x, t)` says that reading the characters x takes the
splitting from s to t, and composes; `Sound(x, w)` that x is read as the word w. A plain
word is its own reading (`PlainSound`), and whatever the word, its quoted form reads
as that word (`QuotedSound`, by induction over the pieces that `Escaped` puts in for
each character). `Leads(x, p, q)` then says that the text x, behind a complete word,
takes the parsing from p to q: words lead (`WordsLead`), so options, values, switches,
targets and the URL do, in the order in which `Rendered` writes them, and their
composition ends in the command line they came from (`QuickReplayed`, `UrlReplayed`).
Two flaws of the model came to light on the way: the arms of the parsing overlapped,
which leaves the value of a `CASE` open, and the history was not said to hold only what
clap accepts. The arms exclude each other now, and `Clis` says what is accepted.

Only model-checked: liveness (`QuickCommandsEnd`, `SaveNeverBlocks`,
`OnlyTheBodyStalls`, `NegotiationSettles`, `LineServed`, `SessionEnds`), because fairness and ENABLED are outside what
the prover covers; and the disagreements of section 3, which are refutations by
counterexample.

## 5. Not modelled

* `dns/handler.rs`: one library call whose result is printed; no state and no
  decision of its own. In `App` it is the step `Elsewhere`.
* `tls/info.rs`: parsing and formatting of dates, names and the simplified issuer, and
  the text form of the description. What decides (validity, status, key size) is.
* Progress bars, spinners, `format_duration`, the widths of columns other than the
  name of `disk`, and the levels and filters of the logger (`RUST_LOG`, `-v`).
* The aliases of sub-commands and the optional number of `port` on the command line.
* HTTP/1.1, HTTP/2 and its negotiation, TLS, multipart encoding and FTP themselves,
  which are libraries: what they hand to this code is modelled, not how.
* A `println!` that panics because standard output is closed, where no property is about
  what was printed: it is modelled in `HttpTransfer`, `Ftp`, `Whois` and `Elsewhere`.
* Wording, colours, layout and logging, except for the message `ftp_upload` is about.

## 6. Plan

Done: the core (`RecentList`, `History`, `Proxy`, `HttpTransfer`, `Timing`, `Telnet`,
`Ftp`), the remaining handlers and their composition (`BuildRequest`, `Tls`, `Ping`,
`Disk`, `Whois`, `Port`, `CommandLine`, `App`), and the proofs of section 4.

Left, in the order of what they would add:

1. `Replay` of `History` instantiated by `CommandLine`, to see what a line that is not
   `Rereadable` does to the list over several replays.
2. The safety half of `QuickCommandsEnd`: a measure that every step lowers which a quick
   command takes by itself, as an action property with a proof. Fairness and ENABLED
   would be left to TLC.
