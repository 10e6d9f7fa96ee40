---------------------------- MODULE ResmgrSession ----------------------------
(***************************************************************************)
(* The resource manager test session: src/test/04-resmgr/start.py starts  *)
(* the resource manager, the mixers and echo cancellators ("minions") in  *)
(* tmux windows, sleeps 20 s "to allow minions to register with resmgr",  *)
(* then starts ss_liege.py.  ss_liege connects to the resource manager's  *)
(* liege port as a client, sends acquire_user for every user and          *)
(* acquire_loop for every loop, and its acquire_user callback              *)
(* (start_user_clients) starts an RTP sender and receiver for the user,   *)
(* or logs an error reply and returns.                                     *)
(*                                                                         *)
(* The backends are external.  A started process comes up on its own      *)
(* time; a minion registers once the resource manager is up; the          *)
(* resource manager grants an acquire while it has a registered minion    *)
(* left and answers with an error otherwise.  Requests and replies travel *)
(* in order over the liege connection.  The 20 s sleep is untimed.        *)
(***************************************************************************)
EXTENDS Naturals, Sequences, SequencesExt, FiniteSets

CONSTANTS
  UserOrder,    \* the users of USERS, in dict order
  LoopOrder,    \* LOOPS
  NumMinions    \* NUM_MIXERS_TO_START + NUM_ECS_TO_START

Users == ToSet(UserOrder)
Loops == ToSet(LoopOrder)

ASSUME IsInjective(UserOrder) /\ IsInjective(LoopOrder)
       /\ Users \cap Loops = {} /\ NumMinions \in Nat

VARIABLES
  launch,      \* where start.py's main is
  started,     \* minions start.py has started
  resmgr,      \* "none", "starting", "up"
  registered,  \* minions registered with the resource manager
  granted,     \* users and loops the resource manager has granted
  liege,       \* ss_liege: "none", "starting", "connected"
  handler,     \* the event of ss_liege's registered callback, or "none"
  to_send,     \* requests ss_liege has still to send
  replies,     \* replies on the liege connection, not yet dispatched
  clients,     \* users whose sender and receiver were started
  failed       \* users whose acquire_user error was logged

vars == <<launch, started, resmgr, registered, granted, liege, handler,
          to_send, replies, clients, failed>>

Requests == [ev : {"acquire_user"}, who : Users]
              \cup [ev : {"acquire_loop"}, who : Loops]

\* initial_commands: acquire_user per user, then acquire_loop per loop.
InitialCommands ==
  [k \in DOMAIN UserOrder |-> [ev |-> "acquire_user", who |-> UserOrder[k]]]
    \o [k \in DOMAIN LoopOrder |-> [ev |-> "acquire_loop", who |-> LoopOrder[k]]]

TypeOK ==
  /\ launch \in {"config", "resmgr", "minions", "ss", "attached"}
  /\ started \in 0..NumMinions
  /\ resmgr \in {"none", "starting", "up"}
  /\ registered \in 0..NumMinions
  /\ granted \subseteq Users \cup Loops
  /\ liege \in {"none", "starting", "connected"}
  /\ handler \in {"none", "acquire_user"}
  /\ to_send \in Seq(Requests)
  /\ replies \in Seq([req : Requests, ok : BOOLEAN])
  /\ clients \subseteq Users
  /\ failed \subseteq Users

Init ==
  /\ launch = "config"
  /\ started = 0
  /\ resmgr = "none"
  /\ registered = 0
  /\ granted = {}
  /\ liege = "none"
  /\ handler = "none"
  /\ to_send = <<>>
  /\ replies = <<>>
  /\ clients = {}
  /\ failed = {}

\* generate_config() writes the three config files.
GenerateConfig ==
  /\ launch = "config"
  /\ launch' = "resmgr"
  /\ UNCHANGED <<started, resmgr, registered, granted, liege, handler,
                 to_send, replies, clients, failed>>

\* start('resource_manager'): a tmux window runs the binary.
StartResmgr ==
  /\ launch = "resmgr"
  /\ resmgr' = "starting"
  /\ launch' = "minions"
  /\ UNCHANGED <<started, registered, granted, liege, handler, to_send,
                 replies, clients, failed>>

\* Mutant: the loops run range(NUM + 1).
StartMinion_off_by_one ==
  /\ launch = "minions"
  /\ started <= NumMinions
  /\ started' = started + 1
  /\ UNCHANGED <<launch, resmgr, registered, granted, liege, handler,
                 to_send, replies, clients, failed>>

\* One iteration of the two "for i in range(...): start(...)" loops.
StartMinion ==
  /\ launch = "minions"
  /\ started < NumMinions
  /\ started' = started + 1
  /\ UNCHANGED <<launch, resmgr, registered, granted, liege, handler,
                 to_send, replies, clients, failed>>

\* time.sleep(20), start_ss(), _session.attach().
StartSs ==
  /\ launch = "minions"
  /\ started = NumMinions
  /\ liege' = "starting"
  /\ launch' = "attached"
  /\ UNCHANGED <<started, resmgr, registered, granted, handler, to_send,
                 replies, clients, failed>>

\* A started process is up: the resource manager listens.
ResmgrUp ==
  /\ resmgr = "starting"
  /\ resmgr' = "up"
  /\ UNCHANGED <<launch, started, registered, granted, liege, handler,
                 to_send, replies, clients, failed>>

\* A started minion registers with the running resource manager.
MinionRegisters ==
  /\ resmgr = "up"
  /\ registered < started
  /\ registered' = registered + 1
  /\ UNCHANGED <<launch, started, resmgr, granted, liege, handler, to_send,
                 replies, clients, failed>>

\* Mutant: the callback is registered for a misspelt event.
LiegeConnects_misspelt ==
  /\ liege = "starting"
  /\ resmgr = "up"
  /\ liege' = "connected"
  /\ to_send' = InitialCommands
  /\ UNCHANGED <<launch, started, resmgr, registered, granted, handler,
                 replies, clients, failed>>

\* ss_liege main: build initial_commands, start_signalling_server as a
\* client of the liege port, add the request sets and register
\* start_user_clients for acquire_user.  The connection is made once the
\* resource manager listens.
LiegeConnects ==
  /\ liege = "starting"
  /\ resmgr = "up"
  /\ liege' = "connected"
  /\ to_send' = InitialCommands
  /\ handler' = "acquire_user"
  /\ UNCHANGED <<launch, started, resmgr, registered, granted, replies,
                 clients, failed>>

\* The resource manager answers the next request: it grants it while a
\* registered minion is free, and replies with an error otherwise.
ResmgrAnswers ==
  /\ liege = "connected"
  /\ to_send # <<>>
  /\ LET req == Head(to_send)
         ok  == Cardinality(granted) < registered
     IN  /\ replies' = Append(replies, [req |-> req, ok |-> ok])
         /\ granted' = IF ok THEN granted \cup {req.who} ELSE granted
  /\ to_send' = Tail(to_send)
  /\ UNCHANGED <<launch, started, resmgr, registered, liege, handler,
                 clients, failed>>

\* serve_forever dispatches a reply no callback is registered for
\* (acquire_loop).
DispatchOther ==
  /\ replies # <<>>
  /\ Head(replies).req.ev # handler
  /\ replies' = Tail(replies)
  /\ UNCHANGED <<launch, started, resmgr, registered, granted, liege,
                 handler, to_send, clients, failed>>

\* start_user_clients: an error reply is logged and dropped; otherwise the
\* user's sender and receiver are started in tmux windows.
StartUserClients ==
  /\ replies # <<>>
  /\ Head(replies).req.ev = handler
  /\ LET r == Head(replies)
     IN  IF r.ok
         THEN /\ clients' = clients \cup {r.req.who}
              /\ UNCHANGED failed
         ELSE /\ failed' = failed \cup {r.req.who}
              /\ UNCHANGED clients
  /\ replies' = Tail(replies)
  /\ UNCHANGED <<launch, started, resmgr, registered, granted, liege,
                 handler, to_send>>

LauncherNext == GenerateConfig \/ StartResmgr \/ StartMinion \/ StartSs

LiegeNext == LiegeConnects \/ DispatchOther \/ StartUserClients

BackendNext == ResmgrUp \/ MinionRegisters \/ ResmgrAnswers

Next == LauncherNext \/ LiegeNext \/ BackendNext

\* Every process keeps running and the liege link is TCP: all take their
\* steps.  Nothing bounds how long a minion takes to register.
Spec == /\ Init /\ [][Next]_vars
        /\ WF_vars(LauncherNext) /\ WF_vars(LiegeNext)
        /\ WF_vars(ResmgrUp) /\ WF_vars(MinionRegisters)
        /\ WF_vars(ResmgrAnswers)

-----------------------------------------------------------------------------
(* Properties                                                              *)

\* Every acquire_user is answered and handled: each user ends with its
\* clients started or its error logged, none waits forever.
EveryUserHandled ==
  <>[](clients \cup failed = Users)

=============================================================================
