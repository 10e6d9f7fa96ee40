--------------------------- MODULE ScenarioSession ---------------------------
(***************************************************************************)
(* The signalling-server test sessions of src/test/02-mixer,              *)
(* 03-multiplexer and 05-recorder.  Each start.py writes the backend's    *)
(* config and starts, in tmux windows and without waiting for any of      *)
(* them, the backend, the scenario script ss_*.py and an RTP receiver, in *)
(* an order of its own.  The scenario script runs the signalling server   *)
(* the backend connects to and sends its initial commands; its            *)
(* reconfigure callback starts the RTP senders to the media port of the   *)
(* reply.  ss_recorder's record_start callback sleeps 30 s inside the     *)
(* server's loop and then sends playback_start.                           *)
(*                                                                         *)
(* The backends and the signalling-server library are external.  A        *)
(* backend connects once the server listens, and answers each command in  *)
(* order, with success or an error; the server sends the initial commands *)
(* on the connection and dispatches each reply, in order, to the callback *)
(* registered for its event.  A callback runs inside the loop, so nothing *)
(* else is dispatched while it sleeps.  Sleeps are untimed.               *)
(***************************************************************************)
EXTENDS Naturals, Sequences

CONSTANTS
  Scenarios   \* the sessions: "mixer", "multiplexer", "recorder"

ASSUME Scenarios \subseteq {"mixer", "multiplexer", "recorder"}

VARIABLES
  scenario,   \* the session start.py belongs to
  launched,   \* steps of start.py's main done so far
  ss,         \* the scenario script: "none", "starting", "serving"
  backend,    \* "none", "starting", "connected"
  receiver,   \* the RTP receiver window has been started
  handlers,   \* events the scenario script has a callback for
  to_send,    \* commands the server has still to send to the backend
  replies,    \* the backend's replies, not yet dispatched
  sender,     \* the port the RTP senders were started to: "not_started",
              \* "media", or "UNKNOWN" (media_port_from_reply's fallback)
  nsenders,   \* RTP sender windows started
  playback,   \* record_start_handler: "none", "sleeping", "sent"
  killed      \* "start.py --kill" has killed the tmux session

vars == <<scenario, launched, ss, backend, receiver, handlers, to_send,
          replies, sender, nsenders, playback, killed>>

Events == {"reconfigure", "add_source", "add_destination", "record_start",
           "playback_start"}

\* The body of each main after the --kill branch, as steps.
MixerLaunch == <<"config", "ss", "backend", "receiver">>
MultiplexerLaunch == <<"config", "backend", "ss", "receiver">>
RecorderLaunch == <<"config", "ss", "backend", "receiver">>

Launch(sc) == CASE sc = "mixer"       -> MixerLaunch
                [] sc = "multiplexer" -> MultiplexerLaunch
                [] sc = "recorder"    -> RecorderLaunch

\* The initial_commands of each scenario script, by event.
MixerCommands ==
  <<"reconfigure", "add_source", "add_source", "add_destination">>
MultiplexerCommands ==
  <<"reconfigure", "add_source", "add_destination", "add_destination">>

\* Mutant: record_start listed before reconfigure.
RecorderCommands_swapped == <<"record_start", "reconfigure">>

RecorderCommands == <<"reconfigure", "record_start">>

InitialCommands(sc) == CASE sc = "mixer"       -> MixerCommands
                         [] sc = "multiplexer" -> MultiplexerCommands
                         [] sc = "recorder"    -> RecorderCommands

\* Mutant: the reconfigure callback registered under a misspelt event.
Handlers_misspelt(sc) ==
  IF sc = "recorder" THEN {"reconfig", "record_start"} ELSE {"reconfig"}

\* The event_handler calls of each main.
Handlers(sc) ==
  IF sc = "recorder" THEN {"reconfigure", "record_start"} ELSE {"reconfigure"}

\* The RTP senders each start_rtp_sender (start_sender) starts.
MixerSenders == 2
MultiplexerSenders == 1
RecorderSenders == 1

Senders(sc) == CASE sc = "mixer"       -> MixerSenders
                 [] sc = "multiplexer" -> MultiplexerSenders
                 [] sc = "recorder"    -> RecorderSenders

\* media_port_from_reply: the port of the reply's media parameters; an
\* error reply has none and the bare except returns "UNKNOWN".
MediaPortFromReply(r) == IF r.ok THEN "media" ELSE "UNKNOWN"

TypeOK ==
  /\ scenario \in Scenarios
  /\ launched \in 0..4
  /\ ss \in {"none", "starting", "serving"}
  /\ backend \in {"none", "starting", "connected"}
  /\ receiver \in BOOLEAN
  /\ handlers \subseteq Events
  /\ to_send \in Seq(Events)
  /\ replies \in Seq([ev : Events, ok : BOOLEAN])
  /\ sender \in {"not_started", "media", "UNKNOWN"}
  /\ nsenders \in 0..2
  /\ playback \in {"none", "sleeping", "sent"}
  /\ killed \in BOOLEAN

Init ==
  /\ scenario \in Scenarios
  /\ launched = 0
  /\ ss = "none"
  /\ backend = "none"
  /\ receiver = FALSE
  /\ handlers = {}
  /\ to_send = <<>>
  /\ replies = <<>>
  /\ sender = "not_started"
  /\ nsenders = 0
  /\ playback = "none"
  /\ killed = FALSE

\* start.py's main is at step s.
LaunchStep(s) ==
  /\ launched < Len(Launch(scenario))
  /\ Launch(scenario)[launched + 1] = s
  /\ launched' = launched + 1

\* generate_config(): writes the backend's config file.
GenerateConfig ==
  /\ LaunchStep("config")
  /\ UNCHANGED <<scenario, ss, backend, receiver, handlers, to_send, replies,
                 sender, nsenders, playback>>

\* start_ss() (start_ss_multiplexer()): a window runs the scenario script.
StartSs ==
  /\ LaunchStep("ss")
  /\ ss' = "starting"
  /\ UNCHANGED <<scenario, backend, receiver, handlers, to_send, replies,
                 sender, nsenders, playback>>

\* start_mixer() (start_multiplexer(), start_recorder()): a window runs
\* the backend binary.
StartBackend ==
  /\ LaunchStep("backend")
  /\ backend' = "starting"
  /\ UNCHANGED <<scenario, ss, receiver, handlers, to_send, replies, sender,
                 nsenders, playback>>

\* start_receiver(), then get_session().attach().
StartReceiver ==
  /\ LaunchStep("receiver")
  /\ receiver' = TRUE
  /\ UNCHANGED <<scenario, ss, backend, handlers, to_send, replies, sender,
                 nsenders, playback>>

\* The scenario script's main: start_signalling_server, add the request
\* sets, register the callbacks, serve_forever.
SsServes ==
  /\ ss = "starting"
  /\ ss' = "serving"
  /\ handlers' = Handlers(scenario)
  /\ UNCHANGED <<scenario, launched, backend, receiver, to_send, replies,
                 sender, nsenders, playback>>

\* The backend connects to the listening server, which queues the initial
\* commands for it.
BackendConnects ==
  /\ backend = "starting"
  /\ ss = "serving"
  /\ backend' = "connected"
  /\ to_send' = InitialCommands(scenario)
  /\ UNCHANGED <<scenario, launched, ss, receiver, handlers, replies, sender,
                 nsenders, playback>>

\* The backend answers the next command, with success or an error.
BackendAnswers ==
  /\ backend = "connected"
  /\ to_send # <<>>
  /\ \E ok \in BOOLEAN :
       replies' = Append(replies, [ev |-> Head(to_send), ok |-> ok])
  /\ to_send' = Tail(to_send)
  /\ UNCHANGED <<scenario, launched, ss, backend, receiver, handlers, sender,
                 nsenders, playback>>

\* serve_forever takes the next reply, unless a callback is still running.
Dispatch(ev) ==
  /\ ss = "serving"
  /\ playback # "sleeping"
  /\ replies # <<>>
  /\ Head(replies).ev = ev
  /\ replies' = Tail(replies)

\* A reply no callback is registered for.
DispatchOther ==
  /\ \E ev \in Events \ handlers : Dispatch(ev)
  /\ UNCHANGED <<scenario, launched, ss, backend, receiver, handlers,
                 to_send, sender, nsenders, playback>>

\* reconfigure_handler: start_rtp_sender(media_port_from_reply(msg)).  It
\* does not look at the reply's error.
ReconfigureHandler ==
  /\ "reconfigure" \in handlers
  /\ Dispatch("reconfigure")
  /\ sender' = MediaPortFromReply(Head(replies))
  /\ nsenders' = Senders(scenario)
  /\ UNCHANGED <<scenario, launched, ss, backend, receiver, handlers,
                 to_send, playback>>

\* record_start_handler: prints, then time.sleep(30) inside the loop.
\* It does not look at the reply's error either.
RecordStartHandler ==
  /\ "record_start" \in handlers
  /\ Dispatch("record_start")
  /\ playback' = "sleeping"
  /\ UNCHANGED <<scenario, launched, ss, backend, receiver, handlers,
                 to_send, sender, nsenders>>

\* The sleep ends: execute(server, fd, msg_start_replay) sends
\* playback_start to the recorder, and the callback returns.
SendPlayback ==
  /\ playback = "sleeping"
  /\ playback' = "sent"
  /\ to_send' = Append(to_send, "playback_start")
  /\ UNCHANGED <<scenario, launched, ss, backend, receiver, handlers,
                 replies, sender, nsenders>>

LauncherNext == GenerateConfig \/ StartSs \/ StartBackend \/ StartReceiver

SsNext ==
  \/ SsServes \/ DispatchOther \/ ReconfigureHandler \/ RecordStartHandler
  \/ SendPlayback

BackendNext == BackendConnects \/ BackendAnswers

\* "start.py --kill", run at any time: get_session().kill() ends every
\* window of the session, and with them the attached launcher.
KillSession ==
  /\ ~killed
  /\ killed' = TRUE
  /\ UNCHANGED <<scenario, launched, ss, backend, receiver, handlers,
                 to_send, replies, sender, nsenders, playback>>

\* A step of a process of the live session.
Live(A) == ~killed /\ A /\ UNCHANGED killed

Next == Live(LauncherNext \/ SsNext \/ BackendNext) \/ KillSession

\* Every process keeps running and the link is TCP; a backend started
\* before its scenario script is taken to retry its connection until the
\* server listens.  Nobody has to kill the session.
Spec == /\ Init /\ [][Next]_vars
        /\ WF_vars(Live(LauncherNext)) /\ WF_vars(Live(SsNext))
        /\ WF_vars(Live(BackendNext))

-----------------------------------------------------------------------------
(* Properties                                                              *)

\* The recording is played back only once the RTP sender feeding it runs:
\* the two callbacks of ss_recorder are independent, and only the order of
\* the initial commands and the in-order dispatch of their replies put the
\* sender first.
SenderBeforePlayback ==
  playback = "sent" => sender # "not_started"

\* Each session runs to its end unless it is killed: every command is
\* answered and dispatched, all the scenario's RTP senders run, and the
\* recorder is asked to play back; whatever order start.py's windows come
\* up in and whatever the backend answers.
ScenarioCompletes ==
  <>(\/ killed
     \/ /\ to_send = <<>> /\ replies = <<>>
        /\ nsenders = Senders(scenario)
        /\ scenario = "recorder" => playback = "sent")

=============================================================================
