--------------------------- MODULE MCTestSessions ---------------------------
(***************************************************************************)
(* The test sessions of src/test: each start.py launches one session in   *)
(* its own tmux session.  A run of the sessions is a run of one of them:  *)
(* a signalling-server scenario (02-mixer, 03-multiplexer, 05-recorder,   *)
(* ScenarioSession) or the resource manager session (04-resmgr,           *)
(* ResmgrSession).  Which one is chosen at the start; the other's         *)
(* variables stay at their initial values.  The two modules share the     *)
(* names to_send and replies; the resource manager session's are renamed  *)
(* liege_to_send and liege_replies here.                                   *)
(***************************************************************************)
EXTENDS Naturals, Sequences

CONSTANTS ymir, buri, ratatoskr

VARIABLES
  session,
  \* ScenarioSession
  scenario, launched, ss, backend, receiver, handlers, to_send, replies,
  sender, nsenders, playback, killed,
  \* ResmgrSession
  launch, started, resmgr, registered, granted, liege, handler,
  liege_to_send, liege_replies, clients, failed

svars == <<scenario, launched, ss, backend, receiver, handlers, to_send,
           replies, sender, nsenders, playback, killed>>
rvars == <<launch, started, resmgr, registered, granted, liege, handler,
           liege_to_send, liege_replies, clients, failed>>
vars == <<session, svars, rvars>>

S == INSTANCE ScenarioSession
       WITH Scenarios <- {"mixer", "multiplexer", "recorder"}

\* USERS and LOOPS of 04-resmgr/configuration.py (lines 75-92); the minions
\* are NUM_MIXERS_TO_START = len(USERS) + len(LOOPS) mixers and
\* NUM_ECS_TO_START = len(USERS) echo cancellators.
MCUserOrder == <<ymir, buri>>
MCLoopOrder == <<ratatoskr>>
MCNumMinions == 2 * Len(MCUserOrder) + Len(MCLoopOrder)

R == INSTANCE ResmgrSession
       WITH UserOrder <- MCUserOrder, LoopOrder <- MCLoopOrder,
            NumMinions <- MCNumMinions,
            to_send <- liege_to_send, replies <- liege_replies

\* A step of the chosen session.
Signalling(A) == session = "signalling" /\ A /\ UNCHANGED <<session, rvars>>
Resmgr(A) == session = "resmgr" /\ A /\ UNCHANGED <<session, svars>>

Init == session \in {"signalling", "resmgr"} /\ S!Init /\ R!Init

Next == Signalling(S!Next) \/ Resmgr(R!Next)

\* The fairness of each session's own specification.
Spec == /\ Init /\ [][Next]_vars
        /\ WF_vars(Signalling(S!Live(S!LauncherNext)))
        /\ WF_vars(Signalling(S!Live(S!SsNext)))
        /\ WF_vars(Signalling(S!Live(S!BackendNext)))
        /\ WF_vars(Resmgr(R!LauncherNext)) /\ WF_vars(Resmgr(R!LiegeNext))
        /\ WF_vars(Resmgr(R!ResmgrUp)) /\ WF_vars(Resmgr(R!MinionRegisters))
        /\ WF_vars(Resmgr(R!ResmgrAnswers))

-----------------------------------------------------------------------------
(* Properties                                                              *)

TypeOK == session \in {"signalling", "resmgr"} /\ S!TypeOK /\ R!TypeOK

\* ss_recorder's playback_start is sent only once its RTP sender runs (the
\* two callbacks are independent; only the command order and the in-order
\* dispatch of replies put the sender first).
SenderBeforePlayback == S!SenderBeforePlayback

\* A signalling-server session runs to its end unless killed: every command
\* answered and dispatched, every RTP sender started, the recording played.
ScenarioCompletes == session = "signalling" => S!ScenarioCompletes

\* In the resource manager session every acquire_user is answered and
\* handled: each user ends with clients started or its error logged.
EveryUserHandled == session = "resmgr" => R!EveryUserHandled

=============================================================================
