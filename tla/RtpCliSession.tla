---------------------------- MODULE RtpCliSession ----------------------------
(***************************************************************************)
(* src/test/01-rtp_cli/start.py: start the rtp_cli test session, an RTP   *)
(* sender and an RTP receiver on port 11111 in the tmux session           *)
(* "rtp_cli", the sender playing a sine ("-t 1200") or, with --infile,    *)
(* the file ("-a <infile>"); or, with --kill, kill the session.           *)
(*                                                                         *)
(* The tmux Session class is external: start_rtp_sender and               *)
(* start_rtp_receiver are taken to open one window each, kill to end      *)
(* every window.  A window is a record of its kind and the signal its     *)
(* sender plays.  The script's prints are left out.                       *)
(***************************************************************************)
EXTENDS Sequences, SequencesExt

CONSTANTS
  InFiles,   \* the values --infile may be given
  None,      \* Python's None: --infile not given
  Empty      \* the empty string: --infile ""

\* The command lines: vars(parser.parse_args()).
CommandLines == [kill : BOOLEAN, infile : InFiles \cup {None, Empty}]

\* The sender's signal: the sine of '-t 1200', or the file.
Sine == "sine"

VARIABLES
  args,      \* the parsed command line
  stage,     \* "main", "started" (line 89 done), "attached", "exited"
  windows    \* the windows of the tmux session rtp_cli, in start order

vars == <<args, stage, windows>>

\* start_session(infile): the sender plays the file when infile is truthy,
\* the sine otherwise; then the receiver.
StartSession(infile) ==
  windows' = windows \o << [kind |-> "send",
                            signal |-> IF infile \in InFiles THEN infile
                                       ELSE Sine],
                           [kind |-> "recv", signal |-> None] >>

Init ==
  /\ args \in CommandLines
  /\ stage = "main"
  /\ windows = << >>

\* --kill: get_session().kill(); exit(0).
Kill ==
  /\ stage = "main"
  /\ args.kill
  /\ windows' = << >>
  /\ stage' = "exited"
  /\ UNCHANGED args

\* "if 'infile' in args: start_session(infile=args['infile'])": vars()
\* always has the key, so this runs whether or not --infile was given.
StartInfile ==
  /\ stage = "main"
  /\ ~args.kill
  /\ "infile" \in DOMAIN args
  /\ StartSession(args.infile)
  /\ stage' = "started"
  /\ UNCHANGED args

\* start_session().attach()
StartAndAttach ==
  /\ stage = "started"
  /\ StartSession(None)
  /\ stage' = "attached"
  /\ UNCHANGED args

Next == Kill \/ StartInfile \/ StartAndAttach

Spec == Init /\ [][Next]_vars

-----------------------------------------------------------------------------
(* Properties                                                              *)

\* The signals of the session's senders, in start order.
SenderSignals(w) ==
  LET senders == SelectSeq(w, LAMBDA x : x.kind = "send")
  IN  [k \in DOMAIN senders |-> senders[k].signal]

\* The session that is attached plays what the command line asked for:
\* --infile is the "file to replay instead of sine test signal" (its help
\* text), so there is one sender, playing the file if one is given and
\* the sine otherwise.
OneSenderAsRequested ==
  stage = "attached" =>
    SenderSignals(windows) =
      << IF args.infile \in InFiles THEN args.infile ELSE Sine >>

=============================================================================
