--------------------------- MODULE MixingPipeline ---------------------------
(***************************************************************************)
(* src/test/06-mixing_pipeline/mix.py: mix N input files with a mixer.    *)
(*                                                                         *)
(* The script writes a mixer config to a temporary file, starts the mixer, *)
(* sleeps 3 s and removes the file (prepare_mixer).  It then starts a     *)
(* signalling server with initial commands (reconfigure, one add_source   *)
(* per input, add_destination), registers an add_destination callback and *)
(* serves.  The mixer answers every command it receives over its TCP link *)
(* to the server; the callback starts a recording client and, drawing     *)
(* from a one-shot zip of the inputs with their sids, one sending client  *)
(* per input.  A start_client that fails calls panic, which ends the      *)
(* script.                                                                 *)
(*                                                                         *)
(* The mixer and the signalling server are external: the mixer reads its  *)
(* config once it runs, and a missing file makes it exit; the server      *)
(* forwards commands in order, a command typed at its console included,   *)
(* and dispatches each reply to the callback registered for its event.    *)
(* serve_forever is taken not to return, so the cleanup loop after it is  *)
(* not reached.  The 3 s sleep is untimed: any interleaving is possible.  *)
(***************************************************************************)
EXTENDS Naturals, Sequences, SequencesExt, FiniteSets

CONSTANTS
  Inputs,   \* the input file names, in command-line order
  MaxDup    \* add_destination commands typed at the server's console

ASSUME IsInjective(Inputs) /\ MaxDup \in Nat

VARIABLES
  stage,        \* where the script is
  config,       \* the temporary config file: "absent", "present", "removed"
  mixer,        \* "none", "starting", "up", "no_config", "exited"
  handler,      \* the event the registered callback is for, or "none"
  to_send,      \* commands the server has still to send to the mixer
  replies,      \* replies on the mixer's link, not yet dispatched
  inputs_left,  \* what the zip iterator has left
  senders,      \* sending clients started, per input index
  recorders,    \* recording clients started
  dups          \* console commands typed so far

vars == <<stage, config, mixer, handler, to_send, replies, inputs_left,
          senders, recorders, dups>>

Idx == DOMAIN Inputs

Events == {"reconfigure", "add_source", "add_destination"}

\* generate_sids(no): [i for i in range(2, no + 2)]
GenerateSids(no) == [k \in 1..no |-> k + 1]

\* Mutant: zip(sids, input_file_names), the arguments swapped.
ZipInputs_swapped(sids) ==
  [k \in 1..(IF Len(sids) < Len(Inputs) THEN Len(sids) ELSE Len(Inputs))
     |-> <<sids[k], k>>]

\* zip(input_file_names, sids): pairs of an input index and a sid, as
\* long as the shorter of the two.
ZipInputs(sids) ==
  [k \in 1..(IF Len(sids) < Len(Inputs) THEN Len(sids) ELSE Len(Inputs))
     |-> <<k, sids[k]>>]

\* initial_commands: reconfigure, add_source per sid, add_destination
InitialCommands(sids) ==
  <<"reconfigure">> \o [k \in DOMAIN sids |-> "add_source"]
                    \o <<"add_destination">>

TypeOK ==
  /\ stage \in {"args", "start", "sleeping", "setup", "serving", "exited"}
  /\ config \in {"absent", "present", "removed"}
  /\ mixer \in {"none", "starting", "up", "no_config", "exited"}
  /\ handler \in Events \cup {"none"}
  /\ to_send \in Seq(Events)
  /\ replies \in Seq(Events)
  /\ inputs_left \in Seq(Idx \X Nat)
  /\ senders \in [Idx -> Nat]
  /\ recorders \in Nat
  /\ dups \in 0..MaxDup

Init ==
  /\ stage = "args"
  /\ config = "absent"
  /\ mixer = "none"
  /\ handler = "none"
  /\ to_send = <<>>
  /\ replies = <<>>
  /\ inputs_left = <<>>
  /\ senders = [k \in Idx |-> 0]
  /\ recorders = 0
  /\ dups = 0

\* parse_command_line and get_input_file_names: every input file opens;
\* the script goes on.
GetInputFileNames ==
  /\ stage = "args"
  /\ stage' = "start"
  /\ UNCHANGED <<config, mixer, handler, to_send, replies, inputs_left,
                 senders, recorders, dups>>

\* file_exists fails for an input: panic("File does not exist: ...").
InputMissing ==
  /\ stage = "args"
  /\ stage' = "exited"
  /\ UNCHANGED <<config, mixer, handler, to_send, replies, inputs_left,
                 senders, recorders, dups>>

\* prepare_mixer: prepare_config_for_mixer writes the file, start_service
\* starts the mixer.
PrepareMixer ==
  /\ stage = "start"
  /\ config' = "present"
  /\ mixer' = "starting"
  /\ stage' = "sleeping"
  /\ UNCHANGED <<handler, to_send, replies, inputs_left, senders, recorders,
                 dups>>

\* time.sleep(3); remove_file(path_of_config_file); then main appends the
\* mixer to running_processes.
RemoveConfig ==
  /\ stage = "sleeping"
  /\ config' = "removed"
  /\ stage' = "setup"
  /\ UNCHANGED <<mixer, handler, to_send, replies, inputs_left, senders,
                 recorders, dups>>

\* Mutant: the callback is registered after serve_forever, which does not
\* return, so no callback is ever registered.
Setup_handler_late ==
  /\ stage = "setup"
  /\ LET sids == GenerateSids(Len(Inputs))
     IN  IF Len(Inputs) > 0 /\ Len(sids) = Len(Inputs)
         THEN /\ stage' = "serving"
              /\ to_send' = InitialCommands(sids)
              /\ inputs_left' = ZipInputs(sids)
         ELSE /\ stage' = "exited"
              /\ UNCHANGED <<to_send, inputs_left>>
  /\ UNCHANGED <<config, mixer, handler, replies, senders, recorders, dups>>

\* Lines 273-302: build initial_commands and the sids, check them with the
\* two asserts (an AssertionError ends the script), start the signalling
\* server and register the add_destination callback over zip(...).
Setup ==
  /\ stage = "setup"
  /\ LET sids == GenerateSids(Len(Inputs))
     IN  IF Len(Inputs) > 0 /\ Len(sids) = Len(Inputs)
         THEN /\ stage' = "serving"
              /\ to_send' = InitialCommands(sids)
              /\ inputs_left' = ZipInputs(sids)
              /\ handler' = "add_destination"
         ELSE /\ stage' = "exited"
              /\ UNCHANGED <<to_send, inputs_left, handler>>
  /\ UNCHANGED <<config, mixer, replies, senders, recorders, dups>>

\* The mixer process opens its config file: there, or already removed.
MixerReadsConfig ==
  /\ mixer = "starting"
  /\ mixer' = IF config = "present" THEN "up" ELSE "no_config"
  /\ UNCHANGED <<stage, config, handler, to_send, replies, inputs_left,
                 senders, recorders, dups>>

\* The server sends the next command and the running mixer answers it.
MixerAnswers ==
  /\ stage = "serving"
  /\ mixer = "up"
  /\ to_send # <<>>
  /\ replies' = Append(replies, Head(to_send))
  /\ to_send' = Tail(to_send)
  /\ UNCHANGED <<stage, config, mixer, handler, inputs_left, senders,
                 recorders, dups>>

\* The mixer dies.
MixerCrashes ==
  /\ mixer = "up"
  /\ mixer' = "exited"
  /\ UNCHANGED <<stage, config, handler, to_send, replies, inputs_left,
                 senders, recorders, dups>>

\* "msg add_destination ..." typed again at the server's console.
Resend ==
  /\ stage = "serving"
  /\ dups < MaxDup
  /\ to_send' = Append(to_send, "add_destination")
  /\ dups' = dups + 1
  /\ UNCHANGED <<stage, config, mixer, handler, replies, inputs_left,
                 senders, recorders>>

\* serve_forever dispatches a reply no callback is registered for.
DispatchOther ==
  /\ stage = "serving"
  /\ replies # <<>>
  /\ Head(replies) # handler
  /\ replies' = Tail(replies)
  /\ UNCHANGED <<stage, config, mixer, handler, to_send, inputs_left,
                 senders, recorders, dups>>

\* add_destination_handler: start_record_client fails, panic.
RecorderFails ==
  /\ stage = "serving"
  /\ replies # <<>>
  /\ Head(replies) = handler
  /\ replies' = Tail(replies)
  /\ stage' = "exited"
  /\ UNCHANGED <<config, mixer, handler, to_send, inputs_left, senders,
                 recorders, dups>>

\* Senders started for the first k pairs the iterator yields.
Started(k) ==
  [i \in Idx |-> senders[i] + Cardinality({j \in 1..k : inputs_left[j][1] = i})]

\* Mutant: the callback iterates a list, which every call starts over.
HandleAddDestination_list(k) ==
  /\ stage = "serving"
  /\ replies # <<>>
  /\ Head(replies) = handler
  /\ replies' = Tail(replies)
  /\ recorders' = recorders + 1
  /\ senders' = Started(k)
  /\ stage' = IF k < Len(inputs_left) THEN "exited" ELSE stage
  /\ UNCHANGED <<config, mixer, handler, to_send, inputs_left, dups>>

\* add_destination_handler: the recording client starts, then "for infile,
\* sid in inputs" starts a sending client per pair the iterator still has;
\* k of them start, and if k is short of all, the next fails and panics.
\* The iterator is consumed either way.
HandleAddDestination(k) ==
  /\ stage = "serving"
  /\ replies # <<>>
  /\ Head(replies) = handler
  /\ replies' = Tail(replies)
  /\ recorders' = recorders + 1
  /\ senders' = Started(k)
  /\ inputs_left' = SubSeq(inputs_left, k + 2, Len(inputs_left))
  /\ stage' = IF k < Len(inputs_left) THEN "exited" ELSE stage
  /\ UNCHANGED <<config, mixer, handler, to_send, dups>>

ScriptNext ==
  \/ GetInputFileNames \/ InputMissing
  \/ PrepareMixer \/ RemoveConfig \/ Setup
  \/ DispatchOther \/ RecorderFails
  \/ \E k \in 0..Len(inputs_left) : HandleAddDestination(k)

Next ==
  \/ ScriptNext
  \/ MixerReadsConfig \/ MixerAnswers \/ MixerCrashes \/ Resend

\* The script and the mixer are running processes and the mixer's link is
\* TCP: each keeps taking its steps.  Crashes and typed commands need not
\* happen.
Spec == /\ Init /\ [][Next]_vars
        /\ WF_vars(ScriptNext)
        /\ WF_vars(MixerReadsConfig) /\ WF_vars(MixerAnswers)

-----------------------------------------------------------------------------
(* Properties                                                              *)

\* Every input file is replayed by at most one sending client, however
\* often add_destination is answered: the callback draws from the one-shot
\* zip iterator, which a second call finds empty.
EachInputReplayedOnce ==
  \A i \in Idx : senders[i] <= 1

AllStarted == recorders >= 1 /\ \A i \in Idx : senders[i] = 1

\* Once the mixer is up and the server serving, the pipeline does not
\* hang: every input gets its sender and the recorder runs, unless a
\* client fails to start (panic) or the mixer dies.
PipelineStarts ==
  (stage = "serving" /\ mixer = "up")
    ~> (AllStarted \/ stage = "exited" \/ mixer = "exited")

=============================================================================
