# TLA+ models of the openvocs scripts

The repository's `src/` holds test and operations tooling around the openvocs
backend binaries (mixer, multiplexer, resource manager, recorder, echo
canceller), which are built elsewhere. The tooling has these parts:

- **Ogg page checksum** (`src/test/ogg/ogg.py`). It reads a captured Ogg
  file and parses the first page's header and segment table. It copies the
  page, zeroes the checksum field and recomputes the Ogg CRC-32 with
  `crc32ogg` or `crc32ogg2`. spec.md documents this part.
- **Service supervisor** (`src/scripts/start_services.py`). It parses its
  options, decides whether to start a local resource manager or use a
  remote one, and builds the services' configs from a template. It starts
  tcpdump if asked, then the resource manager, the mixers and the
  multiplexers as child processes, each with a config file written for it. It cleans up on a failed start, installs a SIGINT handler,
  and polls the children once a second until none is left.
- **Comment header scanner** (`src/scripts/lheader.py`). A per-character
  automaton with two globals carried across lines. It reports the leading
  comment lines of a source file read on stdin.
- **Mixing pipeline** (`src/test/06-mixing_pipeline/mix.py`). It starts a
  mixer and a signalling server. The server's `add_destination` callback
  starts a recording client and one sending client per input file.
- **Signalling-server scenarios** (`ss_mixer.py`, `ss_multiplexer.py`,
  `ss_liege.py`, `ss_recorder.py`). They send initial commands through the
  external signalling-server library. Event callbacks on the replies start
  RTP clients in tmux windows.
- **Test session launchers** (`test/*/start.py`, `backend_start.py`,
  `screen_test.py`). They generate configs and start services and clients in
  a fixed order in tmux, with fixed sleeps in place of readiness checks.
- **Configuration generators** (`configuration.py`, `template.py`):
  constant dictionaries.
- **CPU load monitor** (`src/test/various/monitor_cpu_load.py`). Every
  interval it splits each line of `ps -heocomm,pid,pcpu` into name, pid and
  cpu and logs the processes at or above a threshold.
- **Release label** (`release_label.py`). It computes the next release
  number from `git describe`, tags HEAD with it and writes it to
  `build/release`.
- **Request printer** (`openvocs_requests.py`): prints requests.

The parts interact only through processes. The launchers and scenarios start
the backends and talk to them over the signalling server. The supervisor
owns the children it starts.

## Modules

| module | models | how |
|---|---|---|
| `PyInt` | Python's unbounded `int`, as used by ogg.py | An int is the set of its one-bit positions. `^` is symmetric difference and `<<` shifts the positions. `struct` `<I` packs and unpacks little-endian. This is needed because TLC's integers stop at 2^31 and the CRC reaches 2^33. |
| `Crc32Ogg` | the step functions of `crc32ogg` | `crc ^= b << 24` and the conditional shift-and-xor with `0x104c11db7`, unmasked as in the code. |
| `OggCrc` | `crc32ogg` (lines 4-11) | One action per loop step: `NextByte`, `ShiftBit`, `EndByte`, `Return`. Variables `i`, `n` and `crc` are the loop state. |
| `OggCrcRef`, `OggCrcSpec` | the Ogg CRC of spec.md 4.2 (reference) | The checksum as the polynomial remainder of M(x)·x^32 mod G(x), computed by linearity byte by byte. `OggCrcSpec` computes it in one step. |
| `OggPage` | ogg.py lines 26-54 | One action per statement group: unpack the header, unpack the segments, copy and zero, then one CRC byte per step. A `struct.error` is stage `"error"`. Slices clamp to the end of the data, as Python's do. |
| `Supervisor` | start_services.py `__main__`, `get_parsed_script_arguments`, `SERVICE_CONFIGS_TEMPLATE`, `generate_config_file`, `set_log_file`, `get_resmgr_socket`, `setup_netdump`, `start_service_type`, `start_services`, `stop_processes`, `stop_and_exit`, `remove_stopped` | `command_line` is chosen in `Init`. `ParseArgs` applies argparse's defaults and conversions; `type=bool` is `bool()` of the string. `Configure` is main up to line 495. `service_configs` is `SERVICE_CONFIGS`. Its `ss` and `minions` entries hold the marker `SS`, because they alias the `SIGNALLING_SERVER` dict that `json.dumps` reads when a file is written. `liege` and `monitor` copy the host. `written` is the config file of each instance, and `StartInstance` writes it before the Popen. `proc` holds each child's OS state (`none`, `running`, `term_sent`, `exited`). `running_services` and `running` are the code's lists. `stage` is where `main` is. The environment's actions are `ChildExits` (a crash, or obedience to SIGTERM) and a SIGINT with or without the handler. |
| `CommentScanner` | lheader.py `is_comment`, `is_comment_header`, the stdin loop | `CharStep` is the automaton of lines 68-139 and `ReadLine` is one call of `is_comment_header`. The globals `in_multiline_comment` and `still_header` are variables. |
| `CommentRef`, `CommentHeader` | C comment syntax (reference), and the scanner run beside it | The reference lexer observes the same lines and records whether every line read so far is comment-only and whether a block comment outside the header style was seen. |
| `MixingPipeline` | mix.py: `get_input_file_names`, `prepare_mixer`, the setup of `__main__` with its asserts, `make_add_destination_handler`, `start_record_client`, `start_send_client` | `stage` is where the script is. `inputs_left` is what the one-shot `zip` iterator still holds. `senders` and `recorders` count the clients started. The mixer (`MixerReadsConfig`, `MixerAnswers`, `MixerCrashes`) and the server console (`Resend`, a typed `add_destination`) are the environment. |
| `ResmgrSession` | 04-resmgr `start.py` `__main__` and `ss_liege.py` | The launcher's steps (`GenerateConfig`, `StartResmgr`, `StartMinion`, `StartSs`), ss_liege's connection and `start_user_clients`. The resource manager is the environment: it comes up, minions register on their own time, and it grants an acquire while a registered minion is free. |
| `ScenarioSession` | 02-mixer, 03-multiplexer and 05-recorder `start.py`, `ss_mixer.py`, `ss_multiplexer.py`, `ss_recorder.py` | The session is chosen in `Init`. Each has its own launch order (`MixerLaunch`, ...), initial commands and callbacks. `record_start_handler` is two steps, the sleep and the send, and no reply is dispatched between them. `KillSession` is `start.py --kill` run at any time. |
| `ReleaseLabel` | release_label.py `get_current_release_number` and `__main__` | `GetReleaseNumber`, `GetLastReleaseNumber` and `GetCurrentReleaseNumber` are the three functions, applied to the words `git describe` can print. The repository is a tree of commits (`parent`, `head`) with release tags (`tags`). `Commit` and `Checkout` are the developer's actions, and `Release` is one run of the script. `git describe` prints the tag of the nearest tagged ancestor, any of its tags if it has several, or a hash. |
| `MonitorCpuLoad` | monitor_cpu_load.py `process_list`, `to_3_tuple`, `decompose`, the loop of `__main__` | A `ps` line is a sequence of tokens: the words of the command name, the pid and the cpu share. `SplitMax2`, `To3Tuple` and `Decompose` are the parsing; `FloatOK` is whether `float()` accepts the cpu field. `Round` is one whole iteration: the processes and their shares are chosen, a failing `float()` ends the script before the round is written, and otherwise a non-empty set of overloaded processes is appended to `log`. |
| `RtpCliSession` | 01-rtp_cli `start.py`: `start_session`, `main` | `args` is the parsed command line, chosen in `Init`. `windows` is the tmux session's windows in start order, each a sender (with the signal it plays) or a receiver. `Kill`, `StartInfile` (lines 88-89) and `StartAndAttach` (line 91) are main's three steps. |
| `MCOgg` | ogg.py, both parts | Instances `OggCrc` (its `crc`, `pc` renamed `loop_crc`, `loop_pc`) and `OggPage`, chooses one in `Init` and holds the other at one initial state. |
| `MCTestSessions` | the test sessions, composed | Instances `ScenarioSession` and `ResmgrSession` (its `to_send`, `replies` renamed), chooses one session in `Init`, and runs its steps with its own fairness while the other's variables stay put. |
| `OggFixtures` | the Ogg files the script reads (fixtures) | The 70 distinct files of the page bounds below, built from the reference CRC. No constants, so `MCOggPage` and `MCOgg` can both use it. |
| `MC*` | model-checking instances | Constants, fixtures and bounds. |

## Runs

| run | result | what it shows |
|---|---|---|
| `ogg_checksum` (MCOgg.cfg) | pass | The two parts of ogg.py, one chosen per behaviour. `CrcFits32`: the unmasked accumulator never exceeds 32 bits. `ImplementsOggCrcSpec`: under the mapping "result = crc once returned", the loop refines `OggCrcSpec` for every input of up to 3 bytes over {0, 1, 128, 255}. `RoundTrip`: on a well-formed page the computed checksum equals the stored one. The fixtures are built from OggS and OggX captures, segment tables `<<>>`, `<<5>>` and `<<2,1>>`, correct or zero checksums, trailing bytes, and cuts of 0, 1 or 5 bytes. 4466 states. |
| `page_malformed` (MCOggPage_MalformedPageRejected.cfg) | violation | `MalformedPageRejected`: an OggX page is checksummed anyway, and so is a truncated page, over fewer than page_size bytes (two findings). |
| `rtp_cli_senders` (MCRtpCliSession.cfg) | violation | `OneSenderAsRequested`: `if 'infile' in args` is always true on `vars(parse_args())`, so `start_session(infile)` runs and `start_session().attach()` then starts a second sender and receiver. Without `--infile` two sine senders send to port 11111; with a file, a sine sender runs beside it (finding). |
| `supervisor` (MCSupervisor.cfg) | pass | `ServicesStoppedOnExit`: every exit through the code's own paths (the stop_and_exit of a failed start, the SIGINT handler, the end of the loop) leaves no service running. `ExitWhenAllStopped`: once all services have exited, the supervisor ends. `MinionsFindResmgr`: every config file written points at the socket main reports for the resource manager. This holds for a local and for a remote resource manager. It relies on main setting the host before building the template, because `liege` copies the host and `ss` does not. |
| `supervisor_orphans` | violation | `NoOrphans`: tcpdump is never terminated, and a SIGINT before line 511 leaves the started services running (two findings). TLC's shortest trace shows the tcpdump case; with a command line without `--netdump` it shows the SIGINT case. |
| `comment_header` (MCCommentHeader.cfg) | pass | `HeaderStyleRecognised`: a header made of `//` lines and `/** ... */` blocks, including blocks that span lines, is reported as header to its end. |
| `mixing_pipeline` (MCMixingPipeline.cfg) | pass | `EachInputReplayedOnce`: however often `add_destination` is answered, no input gets two senders, because the callback draws from the one-shot iterator. `PipelineStarts`: once the mixer is up and the server serves, every input gets its sender and the recorder runs, unless a client fails or the mixer dies. |
| `test_sessions` (MCTestSessions.cfg) | pass | In the mixer, multiplexer and recorder sessions, `SenderBeforePlayback`: `playback_start` is sent only once the RTP sender runs, and `ScenarioCompletes`: every command is answered and dispatched and every sender starts unless the session is killed. In the resource manager session, `EveryUserHandled`: every `acquire_user` is answered and handled. 1606 states. |
| `resmgr_defaults` (MCSupervisor_ResmgrDefaults.cfg) | violation | `ResmgrDefaultsAsRequested`: with `--normalize_input False --max_input_frames 5`, the resource manager's config has `normalize_input` true (`type=bool`) and `max_num_frames` 0 (the option is never applied). Two findings. |
| `release_collision` (MCReleaseLabel.cfg) | violation | `ReleaseFileNamesItsCommit`: a release is tagged on commit 2, commit 1 is checked out, and the next run computes `release/2` again. `git tag` refuses it and `build/release` names it anyway (finding). |
| `cpu_monitor` (MCMonitorCpuLoad.cfg) | violation | `MonitorKeepsRunning`: in the first round in which `ps` lists the tmux server, whose command name `tmux: server` holds a blank; `split(maxsplit=2)` puts `server <pid> <cpu>` into the cpu field, `float()` raises and the monitor ends (finding). |
| `comment_header_code` | violation | `NoCodeInHeader`: `x //c` is reported as header, and so is code after `/**/` (finding). |

Every property of a passing run has a mutant in PROJECT.json: a plausible
bug in the mapped code that TLC catches. Examples are `range(7)`, a missing
`stop_processes(running)`, `append` in place of `+=`, a `remove_stopped` that
rebinds its parameter, a result test without `LINE_START`, and a template built before the host is
set.

## Bounds

- **CRC.** Inputs are 3 bytes over {0, 1, 128, 255}. This exercises bit 31
  being set or clear, and the carry into bit 32 on every byte.
- **Ogg pages.** `MCOgg` holds the part not run at one initial state (the empty input, the shortest file), so the two parts add up rather than multiply. 70 distinct fixture files (two cuts coincide) cover well-formed pages, wrong captures,
  truncation in the header, the segment table and the body, and trailing
  data.
- **Supervisor.** OV_IP is set to a host other than 127.0.0.1, so that a
  host copied too early is seen. There are four command lines. The first
  has no options, giving a local resource manager alone. The second is
  `--mixers 2 --muxes 1 --log_dir --netdump`. The third is a remote
  `--resmgr` with one mixer and `--log_dir`. The fourth is a `--mixers`
  value that `int()` rejects. The full plan is one resource manager, two
  mixers and one multiplexer. Two mixers make "failure after part of a group started"
  possible, and three groups make "failure after earlier groups started"
  possible. There is at most one SIGINT. The first one already ends the
  supervisor.
- **Comment scanner.** The input is up to 8 lines of up to 5 characters over
  `/`, `*`, blank and `x`, where `x` stands for any other character, all of
  which the automaton treats alike. This covers `/***/`, `/**/`, `x//`,
  `/*//`, and block comments that open and close on different lines.
- **Mixing pipeline.** There are three inputs, so the zip has pairs to run out of. One `add_destination` can be typed at the console, which is enough for a second reply. The mixer may crash.
- **Resource manager session.** The users and the loop are exactly those of `configuration.py` (ymir, buri, ratatoskr). There are 5 minions, matching `NUM_MIXERS_TO_START + NUM_ECS_TO_START`. Minions register in any interleaving with the launcher and ss_liege.
- **Release label.** There are three commits and three runs of the script.
  This allows a release, a checkout below it and a second release, and
  also two tags on one commit. `git describe` does not fail in the checked
  configuration (`GitMayFail = FALSE`), as in any repository with a commit.
  The failure paths exist in the model.
- **CPU monitor.** Two processes, `bash` and the tmux server, with cpu shares
  0 or 60% against the default threshold 50%, and three rounds. Any set of
  the two may be running in a round.
- **rtp_cli session.** `--kill` given or not, and `--infile` absent, empty or one file: every way the command line reaches `main`'s branches.
- **Scenario sessions.** All three sessions are checked, with every backend answer being success or an error, and a kill at any point.

## Fairness

`Supervisor` assumes weak fairness for the supervisor's own steps: it is a
running process, and `time.sleep(1)` always returns. Child exits and signals
come from the environment and get no fairness. `OggCrc` is a terminating
loop and has weak fairness on `Next`; `MCOgg` keeps it for the loop part. `ReleaseLabel`, `MonitorCpuLoad` and `RtpCliSession` state no fairness.
Each has one property, a safety property. For `ReleaseLabel`, the developer
may stop at any point.

The session modules (`MixingPipeline`, `ResmgrSession`, `ScenarioSession`,
and `MCTestSessions`, which keeps the fairness of each) assume weak fairness for each process: the script, the backend and the
launcher keep running, and the TCP link delivers. Crashes, typed commands
and `--kill` are environment choices and get no fairness. The backends are
assumed to retry their connection until the server listens; that
behaviour is outside this repository.

## Not modelled

- Left out: the zlib CRC and the prints of ogg.py; the stderr trace,
  `state_to_string` and `current_comment` (text for that trace) of lheader.py; the configuration
  generators (data); `configuration.get_config`, which is outside this
  repository. In the supervisor, `--noise_db` (parsed and never read) and
  `process_name` (a print) are left out.
- The request printer (`openvocs_requests.py`) is not modelled. Its control
  is three early `sys.exit(1)` calls on the last argument, and then it
  prints what an external request factory returns. It has no state, and a
  property of it could only restate its guards.
- `template.py` holds a path prelude and a placeholder, no behaviour.
- CPU monitor: argument parsing, the timestamp, the sleep and the io buffer
  of the log file are left out. The log is opened with default buffering in
  a loop that never ends, so a SIGTERM, the usual way to stop it, loses the
  rounds still in the buffer. The model's `log` is what `main` writes, so no
  property is about this. `decode('ascii')` of a non-ASCII command name,
  which raises as well, is also left out.
- `terminate()` in `stop_processes` sends SIGTERM and never waits. Whether a
  backend binary obeys SIGTERM is outside this repository, so the model
  counts a terminated child as stopped.
- Release label: a tag that `--match release/*` accepts but whose digits
  are empty (`release/rc1`) is not generated. The script makes only
  numbered tags.
- The fixed sleeps of the test launchers (3 s in mix.py, 20 s in
  04-resmgr/start.py) are untimed in the model. The runs include the
  cases where a sleep is too short. A mixer started before its config
  file exists never answers; `PipelineStarts` promises nothing then. A
  user whose acquire fails because no minion has registered yet has its
  error logged, and `EveryUserHandled` counts it as handled. No run checks
  whether the sleeps are long enough.
- `assert mixer_process` (mix.py:267) is not modelled. `prepare_mixer`
  returns what `start_service` of the external `python.service` module
  returns, and the model takes that to be a started process.
- `start_user_clients` (ss_liege.py:110-118) catches any exception of a
  malformed reply and logs it. Replies in the model are well formed, so
  this branch is left out.
- Left out as well: `serve_forever` is taken never to return, so mix.py's
  cleanup loop is unreachable in the model. The request factories and
  message formatting of the signalling server are external.
- `MixingPipeline` counts recording clients in `recorders`. A second
  `add_destination` reply starts a second recorder on the same output
  file. No run checks this, because only a command typed at the console
  causes it.
- `backend_start.py` and `screen_test.py` are not modelled. backend_start
  starts the backend services in tmux in a fixed order, with no branch,
  callback or shared state; their order and readiness are what
  `ResmgrSession` already checks for 04-resmgr. screen_test is two lines
  that start and attach a screen session.
