---------------------------- MODULE MCSupervisor ----------------------------
(***************************************************************************)
(* start_services.py with OV_IP set, started with one of four command     *)
(* lines: no options (a local resource manager alone); two mixers, one    *)
(* multiplexer, --log_dir and --netdump (three groups, and a failure is    *)
(* possible after a group has started some but not all of its            *)
(* instances); a remote --resmgr with one mixer; and a --mixers value     *)
(* int() rejects.                                                         *)
(***************************************************************************)
EXTENDS Supervisor

CONSTANTS ovip, remote, logs

\* No option given: every field is Absent and --netdump is not set.
NoOptions ==
  [listen_on |-> Absent, mixers |-> Absent, muxes |-> Absent,
   resmgr |-> Absent, log_dir |-> Absent, netdump |-> FALSE,
   normalize_input |-> Absent, max_input_frames |-> Absent,
   vad_zeroc_hz |-> Absent, vad_powerlevel_db |-> Absent]

\* --mixers 2 --muxes 1 --log_dir logs --netdump
FullSystem ==
  [NoOptions EXCEPT !.mixers = 2, !.muxes = 1, !.log_dir = logs,
                    !.netdump = TRUE]

MCArgvChoices ==
  { NoOptions,
    FullSystem,
    [NoOptions EXCEPT !.resmgr = remote, !.mixers = 1, !.log_dir = logs],
    [NoOptions EXCEPT !.mixers = BadInt] }

\* The full system only: tcpdump is started.
MCArgvNetdump == {FullSystem}

\* --normalize_input False --max_input_frames 5 --vad_zeroc_hz 8000
MCArgvOptions ==
  {[NoOptions EXCEPT !.normalize_input = "False", !.max_input_frames = 5,
                     !.vad_zeroc_hz = 8000]}

=============================================================================
