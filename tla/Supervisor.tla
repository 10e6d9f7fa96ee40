----------------------------- MODULE Supervisor -----------------------------
(***************************************************************************)
(* The service supervisor of src/scripts/start_services.py: the main      *)
(* block (lines 467-519) with get_parsed_script_arguments, the config      *)
(* template, setup_netdump, start_services, start_service_type with       *)
(* generate_config_file, get_resmgr_socket, stop_processes, stop_and_exit *)
(* and remove_stopped.                                                    *)
(*                                                                         *)
(* main parses its arguments, points SIGNALLING_SERVER at the resource    *)
(* manager (a remote one given by --resmgr, or a local one on listen_on), *)
(* copies the VAD and normalisation options into globals and builds       *)
(* SERVICE_CONFIGS from the template.  It optionally starts tcpdump, then *)
(* starts the resource manager, the mixers and the multiplexers group by  *)
(* group; each instance gets a config file written from the shared        *)
(* SERVICE_CONFIGS entry of its type, with its own log file set into that *)
(* entry first.  start_service_type, on an exception, terminates the      *)
(* instances of its group it has started and re-raises, after which       *)
(* start_services terminates every service started before and exits.     *)
(* Once all started, main reads the liege socket back from               *)
(* SERVICE_CONFIGS, installs a SIGINT handler and polls the children once *)
(* a second until none is left.                                           *)
(*                                                                         *)
(* The template's "ss" and "minions" entries are the SIGNALLING_SERVER    *)
(* dict itself, not a copy: json.dumps reads its host when the file is    *)
(* written.  The template's "liege" and "monitor" copy the host when the  *)
(* template is built.  The model keeps that difference (the SS marker).   *)
(* configuration.get_config merges the entry into a template that is not  *)
(* part of this repository; the model writes the entry as it is.          *)
(*                                                                         *)
(* The children are OS processes that may exit at any time (a crash, or   *)
(* after the SIGTERM of Popen.terminate, which main never waits for).     *)
(* A SIGINT is sent to the supervisor alone (kill -INT); before the       *)
(* handler is installed Python raises KeyboardInterrupt, which no         *)
(* "except Exception" catches.  Writing a config file and Popen are the   *)
(* calls that may raise.                                                  *)
(***************************************************************************)
EXTENDS Integers, Sequences, SequencesExt, FiniteSets

CONSTANTS
  ArgvChoices,  \* the command lines the script may be started with
  OV_IP,        \* the OV_IP environment variable, or Absent
  Absent,       \* an option not given on the command line
  None,         \* Python's None
  BadInt,       \* an option value int() rejects
  TCPDUMP,      \* the tcpdump child of setup_netdump
  Signals       \* whether a SIGINT may be sent to the supervisor

\* Module constants of start_services.py (lines 66-76).
DEFAULT_HOST == "127.0.0.1"
PORT == 10001
ZERO_CROSSINGS_RATE_HZ == 9000
POWERLEVEL_DENSITY_DBFS == -50
NORMALIZE_INPUT == FALSE
MAX_INPUT_FRAMES == 0

\* The template's reference to the SIGNALLING_SERVER dict.
SS == "SIGNALLING_SERVER"

IntOptions == {"mixers", "muxes", "max_input_frames", "vad_zeroc_hz",
               "vad_powerlevel_db"}

\* bool(s) of a command-line string: only the empty string is False.
PyBool(s) == s # ""

DefaultTo(v, d) == IF v = Absent THEN d ELSE v

\* argparse rejects the command line (exit status 2) when int() fails.
ParseOK(argv) == \A o \in IntOptions : argv[o] # BadInt

\* get_parsed_script_arguments: the defaults, the OV_IP fallback of
\* listen_on, and the type conversions (type=int values are kept as the
\* numbers they denote; type=bool is Python's bool of the string).
\* --noise_db is parsed and never read; it is left out.
ParseArgs(argv) ==
  [listen_on |-> DefaultTo(argv.listen_on, DefaultTo(OV_IP, DEFAULT_HOST)),
   mixers |-> DefaultTo(argv.mixers, 0),
   muxes |-> DefaultTo(argv.muxes, 0),
   resmgr |-> DefaultTo(argv.resmgr, None),
   log_dir |-> DefaultTo(argv.log_dir, None),
   netdump |-> argv.netdump,
   normalize_input |-> IF argv.normalize_input = Absent THEN NORMALIZE_INPUT
                       ELSE PyBool(argv.normalize_input),
   max_input_frames |-> DefaultTo(argv.max_input_frames, MAX_INPUT_FRAMES),
   vad_zeroc_hz |-> DefaultTo(argv.vad_zeroc_hz, ZERO_CROSSINGS_RATE_HZ),
   vad_powerlevel_db |-> DefaultTo(argv.vad_powerlevel_db,
                                   POWERLEVEL_DENSITY_DBFS)]

\* The resource manager template's "log"/"file" entry.
RESMGR_LOG == [file |-> "/tmp/resmgr.log", num_files |-> 5,
               messages_per_file |-> 10000]

\* SERVICE_CONFIGS_TEMPLATE(), reading the globals as they are when it is
\* called.  log_file is the entry's "log"/"file" key.
SERVICE_CONFIGS_TEMPLATE(host, normalize, zeroc, powerlevel) ==
  [mixer |-> [ss |-> SS, log_file |-> None],
   multiplexer |-> [ss |-> SS, log_file |-> None],
   resource_manager |->
     [minions |-> SS,
      liege |-> [host |-> host, port |-> PORT + 1],
      monitor |-> [host |-> host, port |-> PORT + 2],
      defaults |-> [zero_crossings_rate_hertz |-> zeroc,
                    powerlevel_density_dbfs |-> powerlevel,
                    normalize_input |-> normalize,
                    max_num_frames |-> MAX_INPUT_FRAMES],
      log_file |-> RESMGR_LOG]]

\* f"{log_dir}/ov_{service_type}_{num}.log", as the parts it is made of.
LogFile(dir, type, num) == [dir |-> dir, service |-> type, num |-> num]


\* json.dumps of an entry: the SS reference becomes the dict's contents.
Dump(type, entry, host) ==
  LET sock == [host |-> host, port |-> PORT]
  IN  IF type = "resource_manager"
      THEN [entry EXCEPT !.minions = IF @ = SS THEN sock ELSE @]
      ELSE [entry EXCEPT !.ss = IF @ = SS THEN sock ELSE @]

\* get_resmgr_socket: the liege host and port of the resource manager.
GetResmgrSocket(configs) == configs.resource_manager.liege

\* The groups start_services starts, in order, for parsed arguments a and
\* start_resmgr: the resource manager, range(mixers), range(muxes).  An
\* instance is <<service_type, num>>.
Group(type, n) == [k \in 1..n |-> <<type, k - 1>>]
PlanOf(a, start_resmgr) ==
  (IF start_resmgr THEN << Group("resource_manager", 1) >> ELSE << >>)
  \o (IF a.mixers # 0 THEN << Group("mixer", a.mixers) >> ELSE << >>)
  \o (IF a.muxes # 0 THEN << Group("multiplexer", a.muxes) >> ELSE << >>)

MaxOf(o) == LET vs == {argv[o] : argv \in ArgvChoices} \ {Absent, BadInt}
            IN  CHOOSE m \in vs \cup {0} : \A v \in vs : v <= m
Services == {<<"resource_manager", 0>>}
              \cup {<<"mixer", k>> : k \in 0..(MaxOf("mixers") - 1)}
              \cup {<<"multiplexer", k>> : k \in 0..(MaxOf("muxes") - 1)}
Children == Services \cup {TCPDUMP}

ASSUME /\ TCPDUMP \notin Services /\ Signals \in BOOLEAN
       /\ \A argv \in ArgvChoices : \A o \in IntOptions :
            argv[o] \in Nat \cup {Absent, BadInt} \/ o = "vad_powerlevel_db"

VARIABLES
  command_line,      \* the command line the script was started with
  args,              \* the parsed arguments, or None before parsing
  ss_host,           \* SIGNALLING_SERVER['host']
  service_configs,   \* SERVICE_CONFIGS, or None before main builds it
  plan,              \* the groups start_services starts
  written,           \* the config file written for each instance, or None
  resmgr_socket,     \* main's (host, port) of get_resmgr_socket, or None
  proc,              \* the state of each child process
  running_services,  \* start_services' list, then main's
  running,           \* start_service_type's list for the group grp
  grp,               \* index in plan of the group being started
  stage,             \* where main is
  handler,           \* the SIGINT handler of line 511 is installed
  sigint,            \* the SIGINT has been sent
  exit_reason        \* how the supervisor ended

vars == <<command_line, args, ss_host, service_configs, plan, written,
          resmgr_socket, proc, running_services, running, grp, stage,
          handler, sigint, exit_reason>>

\* Variables of the configuration, which the process steps leave alone.
config_vars == <<command_line, args, ss_host, service_configs, plan, written,
                 resmgr_socket>>

ProcStates == {"none", "running", "term_sent", "exited"}

PlannedServices == UNION {ToSet(plan[g]) : g \in DOMAIN plan}

\* stop_processes(ps): p.terminate() sends SIGTERM to each child that has
\* not exited; it does not wait.
Terminate(ps) ==
  [c \in Children |-> IF c \in ToSet(ps) /\ proc[c] = "running"
                      THEN "term_sent" ELSE proc[c]]

Hosts == ({DEFAULT_HOST, OV_IP}
           \cup UNION {{argv.listen_on, argv.resmgr} : argv \in ArgvChoices})
         \ {Absent}
Socket == [host : Hosts, port : Nat]
LogFiles == {None, RESMGR_LOG}
              \cup {LogFile(d, s[1], s[2]) :
                     d \in {argv.log_dir : argv \in ArgvChoices},
                     s \in Services}
Defaults == [zero_crossings_rate_hertz : Int, powerlevel_density_dbfs : Int,
             normalize_input : BOOLEAN, max_num_frames : Int]
MinionConfig == [ss : Socket, log_file : LogFiles]
ResmgrConfig == [minions : Socket, liege : Socket, monitor : Socket,
                 defaults : Defaults, log_file : LogFiles]

TypeOK ==
  /\ args = None \/ args \in {ParseArgs(argv) : argv \in ArgvChoices}
  /\ ss_host \in Hosts
  /\ written \in [Services -> {None} \cup MinionConfig \cup ResmgrConfig]
  /\ resmgr_socket = None \/ resmgr_socket \in Socket
  /\ plan \in Seq(Seq(Services))
  /\ proc \in [Children -> ProcStates]
  /\ running_services \in Seq(Services)
  /\ running \in Seq(Services)
  /\ grp \in 1..(Len(plan) + 1)
  /\ stage \in {"args", "netdump", "starting", "failed", "started", "loop",
                "exited"}
  /\ handler \in BOOLEAN
  /\ sigint \in BOOLEAN
  /\ exit_reason \in {"none", "usage", "crashed", "stop_and_exit",
                      "interrupted", "sigint", "done"}

\* The script is started with one of the command lines; OPENVOCS_ROOT is
\* set and GEN_DIR_PREFIX exists (lines 469-472).
Init ==
  /\ command_line \in ArgvChoices
  /\ args = None
  /\ ss_host = DEFAULT_HOST
  /\ service_configs = None
  /\ plan = << >>
  /\ written = [s \in Services |-> None]
  /\ resmgr_socket = None
  /\ proc = [c \in Children |-> "none"]
  /\ running_services = <<>>
  /\ running = <<>>
  /\ grp = 1
  /\ stage = "args"
  /\ handler = FALSE
  /\ sigint = FALSE
  /\ exit_reason = "none"

\* parse_args fails on a value int() rejects: usage and exit status 2.
ArgsRejected ==
  /\ stage = "args"
  /\ ~ParseOK(command_line)
  /\ stage' = "exited"
  /\ exit_reason' = "usage"
  /\ UNCHANGED <<command_line, args, ss_host, service_configs, plan, written,
                 resmgr_socket, proc, running_services, running, grp,
                 handler, sigint>>

\* Mutant: SERVICE_CONFIGS is built before SIGNALLING_SERVER['host'] is
\* set.
Configure_template_first ==
  /\ stage = "args"
  /\ ParseOK(command_line)
  /\ LET a == ParseArgs(command_line)
         local == a.resmgr = None
     IN  /\ args' = a
         /\ ss_host' = IF local THEN a.listen_on ELSE a.resmgr
         /\ service_configs' =
              SERVICE_CONFIGS_TEMPLATE(ss_host, a.normalize_input,
                                       a.vad_zeroc_hz, a.vad_powerlevel_db)
         /\ plan' = PlanOf(a, local)
  /\ stage' = "netdump"
  /\ UNCHANGED <<command_line, written, resmgr_socket, proc,
                 running_services, running, grp, handler, sigint,
                 exit_reason>>

\* main up to line 495: parse the arguments; SIGNALLING_SERVER['host'] is
\* --resmgr, or listen_on with start_resmgr when --resmgr is not given;
\* NORMALIZE_INPUT and the VAD globals take the options (max_input_frames
\* is not copied); SERVICE_CONFIGS = SERVICE_CONFIGS_TEMPLATE().
Configure ==
  /\ stage = "args"
  /\ ParseOK(command_line)
  /\ LET a == ParseArgs(command_line)
         local == a.resmgr = None
         host == IF local THEN a.listen_on ELSE a.resmgr
     IN  /\ args' = a
         /\ ss_host' = host
         /\ service_configs' =
              SERVICE_CONFIGS_TEMPLATE(host, a.normalize_input,
                                       a.vad_zeroc_hz, a.vad_powerlevel_db)
         /\ plan' = PlanOf(a, local)
  /\ stage' = "netdump"
  /\ UNCHANGED <<command_line, written, resmgr_socket, proc,
                 running_services, running, grp, handler, sigint,
                 exit_reason>>

\* setup_netdump(args): no netdump, or Popen(["sudo", "tcpdump", ...]).
\* The returned Popen is dropped by main (line 497).
SetupNetdump ==
  /\ stage = "netdump"
  /\ proc' = IF args.netdump THEN [proc EXCEPT ![TCPDUMP] = "running"]
             ELSE proc
  /\ stage' = "starting"
  /\ UNCHANGED <<config_vars, running_services, running, grp, handler, sigint,
                 exit_reason>>

\* Popen of tcpdump raises: nothing catches it.
NetdumpFails ==
  /\ stage = "netdump"
  /\ args.netdump
  /\ stage' = "exited"
  /\ exit_reason' = "crashed"
  /\ UNCHANGED <<config_vars, proc, running_services, running, grp, handler,
                 sigint>>

\* set_log_file(config, log_file): config['log']['file'] = log_file.
SetLogFile(config, log_file) == [config EXCEPT !.log_file = log_file]

\* generate_config_file's entry for instance p: SERVICE_CONFIGS[type], with
\* set_log_file storing the instance's own log file into it when --log_dir
\* is given.  The entry is the shared dict, so the change stays.
ConfigEntry(p) ==
  LET e == service_configs[p[1]]
  IN  IF args.log_dir # None
      THEN SetLogFile(e, LogFile(args.log_dir, p[1], p[2]))
      ELSE e

\* start_service_type, one iteration of "for num in range(...)":
\* generate_config_file writes the instance's config file, then
\* running.append(start_service(config_file)).
StartInstance ==
  /\ stage = "starting"
  /\ grp <= Len(plan)
  /\ Len(running) < Len(plan[grp])
  /\ LET p == plan[grp][Len(running) + 1]
         entry == ConfigEntry(p)
     IN  /\ service_configs' = [service_configs EXCEPT ![p[1]] = entry]
         /\ written' = [written EXCEPT ![p] = Dump(p[1], entry, ss_host)]
         /\ proc' = [proc EXCEPT ![p] = "running"]
         /\ running' = Append(running, p)
  /\ UNCHANGED <<command_line, args, ss_host, plan, resmgr_socket,
                 running_services, grp, stage, handler, sigint,
                 exit_reason>>

\* Mutant: the except clause of start_service_type re-raises without
\* stopping the instances of its group.
StartFails_no_cleanup ==
  /\ stage = "starting"
  /\ grp <= Len(plan)
  /\ Len(running) < Len(plan[grp])
  /\ running' = <<>>
  /\ stage' = "failed"
  /\ UNCHANGED <<config_vars, proc, running_services, grp, handler, sigint,
                 exit_reason>>

\* The same iteration raises: open() of the config file (after set_log_file)
\* or Popen (after the file is written). the except clause of
\* start_service_type calls stop_processes(running) and re-raises.
StartFails ==
  /\ stage = "starting"
  /\ grp <= Len(plan)
  /\ Len(running) < Len(plan[grp])
  /\ LET p == plan[grp][Len(running) + 1]
         entry == ConfigEntry(p)
     IN  /\ service_configs' = [service_configs EXCEPT ![p[1]] = entry]
         /\ written' \in {written,
                          [written EXCEPT ![p] = Dump(p[1], entry, ss_host)]}
  /\ proc' = Terminate(running)
  /\ running' = <<>>
  /\ stage' = "failed"
  /\ UNCHANGED <<command_line, args, ss_host, plan, resmgr_socket,
                 running_services, grp, handler, sigint, exit_reason>>

\* Mutant: running_services.append(...) in place of +=.
GroupStarted_append ==
  /\ stage = "starting"
  /\ grp <= Len(plan)
  /\ Len(running) = Len(plan[grp])
  /\ running_services' = Append(running_services, running)
  /\ running' = <<>>
  /\ grp' = grp + 1
  /\ UNCHANGED <<config_vars, proc, stage, handler, sigint, exit_reason>>

\* start_service_type returns: running_services += ...
GroupStarted ==
  /\ stage = "starting"
  /\ grp <= Len(plan)
  /\ Len(running) = Len(plan[grp])
  /\ running_services' = running_services \o running
  /\ running' = <<>>
  /\ grp' = grp + 1
  /\ UNCHANGED <<config_vars, proc, stage, handler, sigint, exit_reason>>

\* start_services' except clause: error(...), stop_and_exit(running_services)
StopAndExit ==
  /\ stage = "failed"
  /\ proc' = Terminate(running_services)
  /\ stage' = "exited"
  /\ exit_reason' = "stop_and_exit"
  /\ UNCHANGED <<config_vars, running_services, running, grp, handler, sigint>>

\* start_services returns; main takes (host, port) = get_resmgr_socket(...)
\* and prints it.
AllStarted ==
  /\ stage = "starting"
  /\ grp > Len(plan)
  /\ stage' = "started"
  /\ resmgr_socket' = GetResmgrSocket(service_configs)
  /\ UNCHANGED <<command_line, args, ss_host, service_configs, plan, written,
                 proc, running_services, running, grp, handler, sigint,
                 exit_reason>>

\* signal.signal(SIGINT, lambda ...: stop_and_exit(running_services))
InstallHandler ==
  /\ stage = "started"
  /\ handler' = TRUE
  /\ stage' = "loop"
  /\ UNCHANGED <<config_vars, proc, running_services, running, grp, sigint,
                 exit_reason>>

\* Mutant: remove_stopped rebinds its parameter to the filtered list
\* (processes = [...]) instead of removing from the caller's list.
Poll_rebind ==
  /\ stage = "loop"
  /\ running_services # <<>>
  /\ UNCHANGED <<config_vars, proc, running_services, running, grp, stage,
                 handler,
                 sigint, exit_reason>>

\* One pass of "while running_services": remove_stopped drops every child
\* whose poll() is not None (it has exited), then time.sleep(1).
Poll ==
  /\ stage = "loop"
  /\ running_services # <<>>
  /\ running_services' = SelectSeq(running_services,
                                   LAMBDA p : proc[p] # "exited")
  /\ UNCHANGED <<config_vars, proc, running, grp, stage, handler, sigint,
                 exit_reason>>

\* The list is empty: the while loop ends and so does the script.
LoopEnd ==
  /\ stage = "loop"
  /\ running_services = <<>>
  /\ stage' = "exited"
  /\ exit_reason' = "done"
  /\ UNCHANGED <<config_vars, proc, running_services, running, grp, handler,
                 sigint>>

\* SIGINT with the handler installed: stop_and_exit(running_services).
SigIntHandled ==
  /\ Signals /\ ~sigint /\ handler
  /\ stage # "exited"
  /\ sigint' = TRUE
  /\ proc' = Terminate(running_services)
  /\ stage' = "exited"
  /\ exit_reason' = "sigint"
  /\ UNCHANGED <<config_vars, running_services, running, grp, handler>>

\* SIGINT before: KeyboardInterrupt propagates out of main.
SigIntDefault ==
  /\ Signals /\ ~sigint /\ ~handler
  /\ stage # "exited"
  /\ sigint' = TRUE
  /\ stage' = "exited"
  /\ exit_reason' = "interrupted"
  /\ UNCHANGED <<config_vars, proc, running_services, running, grp, handler>>

\* A child exits: it crashed, ended, or obeyed a SIGTERM.
ChildExits(c) ==
  /\ proc[c] \in {"running", "term_sent"}
  /\ proc' = [proc EXCEPT ![c] = "exited"]
  /\ UNCHANGED <<config_vars, running_services, running, grp, stage, handler,
                 sigint,
                 exit_reason>>

SupervisorNext ==
  \/ ArgsRejected \/ Configure
  \/ SetupNetdump \/ NetdumpFails
  \/ StartInstance \/ StartFails \/ GroupStarted \/ StopAndExit
  \/ AllStarted \/ InstallHandler
  \/ Poll \/ LoopEnd

Next ==
  \/ SupervisorNext
  \/ SigIntHandled \/ SigIntDefault
  \/ \E c \in Children : ChildExits(c)

\* The supervisor is a running process: it keeps taking its steps.  No
\* fairness for the environment (children, signals).
Spec == Init /\ [][Next]_vars /\ WF_vars(SupervisorNext)

-----------------------------------------------------------------------------
(* Properties                                                              *)

\* When the supervisor ends through its own code (stop_and_exit after a
\* failed start, the SIGINT handler, or the loop running dry), no service
\* it started is left running: each has exited or been sent SIGTERM.  A
\* failure in the middle of a group must stop that group's instances
\* (start_service_type) and the groups before it (start_services).
ServicesStoppedOnExit ==
  stage = "exited" /\ exit_reason \in {"stop_and_exit", "sigint", "done"}
    => \A s \in Services : proc[s] # "running"

\* Once every service has exited, the polling loop notices and the
\* supervisor ends (remove_stopped drops exactly the exited children).
ExitWhenAllStopped ==
  (stage = "loop" /\ \A s \in Services : proc[s] = "exited")
    ~> stage = "exited"

\* Whenever the supervisor has ended, no child it started is still running
\* without having been sent SIGTERM: the SIGINT handler and stop_and_exit
\* exist so that the supervisor does not leave its children behind.
NoOrphans ==
  stage = "exited" => \A c \in Children : proc[c] # "running"


\* The socket a minion's config file gives it (its "ss", or the resource
\* manager's own "minions").
MinionSocket(w) == IF "ss" \in DOMAIN w THEN w.ss ELSE w.minions

\* Every config file written points its service at the one resource
\* manager main reports: each mixer's and multiplexer's "ss", and the
\* local resource manager's "minions", are the host main prints and the
\* port below the liege port, and the resource manager's own liege socket
\* is the one printed.  The "ss" entries alias SIGNALLING_SERVER while
\* "liege" copies its host, so this depends on main setting the host
\* before it builds SERVICE_CONFIGS, and on no instance changing it.
MinionsFindResmgr ==
  resmgr_socket # None =>
    \A s \in Services :
      written[s] # None =>
        /\ MinionSocket(written[s]) = [host |-> resmgr_socket.host,
                                       port |-> resmgr_socket.port - 1]
        /\ s[1] = "resource_manager" => written[s].liege = resmgr_socket

\* What the command line asks of the resource manager's defaults: the help
\* texts say --normalize_input turns normalisation on and
\* --max_input_frames restricts the number of frames to mix.
RequestedNormalize(cl) ==
  IF cl.normalize_input = Absent THEN NORMALIZE_INPUT
  ELSE cl.normalize_input = "True"
RequestedMaxFrames(cl) == DefaultTo(cl.max_input_frames, MAX_INPUT_FRAMES)

\* The resource manager's config file carries the normalisation and
\* max_num_frames the command line asked for.
ResmgrDefaultsAsRequested ==
  LET w == written[<<"resource_manager", 0>>]
  IN  w # None =>
        /\ w.defaults.normalize_input = RequestedNormalize(command_line)
        /\ w.defaults.max_num_frames = RequestedMaxFrames(command_line)

=============================================================================
