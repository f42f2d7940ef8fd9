----------------------------- MODULE CosmoparkSetup -----------------------------
(***************************************************************************)
(* setup() starts the containers and decides when the tests may begin       *)
(* (src/helpers/setup.ts), while the hermes container opens the IBC channel  *)
(* and then starts relaying (setup/dockerbuilds/Dockerfile.hermes and        *)
(* setup/hermes/).  The two never speak to each other: setup() polls the     *)
(* chains' REST servers and otherwise sleeps.                                *)
(*                                                                           *)
(* Time is counted in whole units.  The code's sleeps are exact; what hermes *)
(* does before the channel is acknowledged takes any time at all.            *)
(***************************************************************************)
EXTENDS Naturals, Sequences

CONSTANTS
  START_BLOCK_HEIGHT,
  HttpTimeout,       \* timeout of waitForHTTP
  ChannelTimeout,    \* timeout of waitForChannel
  Sleep,             \* the 20 seconds setup() sleeps, three times
  HermesSleep,       \* `sleep 20` before hermes is started
  ConfirmDelay,      \* at most this from ChanOpenAck to ChanOpenConfirm
  BootDelay,         \* at most this from `hermes start` to relaying
  MaxConnections     \* bound: connections that hermes leaves behind

ASSUME TimesAssumption ==
  /\ START_BLOCK_HEIGHT \in Nat \ {0}
  /\ {HttpTimeout, ChannelTimeout, Sleep} \subseteq Nat \ {0}
  /\ {HermesSleep, ConfirmDelay, BootDelay, MaxConnections} \subseteq Nat

(* Three sleeps outlast what hermes still does once channel A is open.      *)
ASSUME HermesInTime == ConfirmDelay + HermesSleep + BootDelay < 3 * Sleep

Flag == {"NO_WAIT_CHANNEL1", "NO_WAIT_HTTP2", "NO_WAIT_CHANNEL2", "NO_WAIT_DELAY"}
Host == {1, 2}      \* host1 is Neutron (test-1), host2 is Gaia (test-2)

VARIABLES
  flags,          \* the NO_WAIT_ variables of the environment that are set
  pc,             \* where setup() is
  elapsed,        \* units since setup() came there
  height,         \* height[h]: blocks of chain h, 0 while it is not up
  hermes,         \* where the container's command is
  hermesElapsed,  \* units since it came there
  connections,    \* the ends "open" or "init", connection-0 first
  channel         \* channel[h]: state of the transfer channel's end on h

vars == <<flags, pc, elapsed, height, hermes, hermesElapsed, connections, channel>>
setupVars == <<flags, pc, elapsed>>
hermesVars == <<hermes, hermesElapsed, connections, channel>>

Polls == {"http1", "channel1", "http2", "channel2"}
Sleeps == {"sleep1", "sleep2", "delay"}
HermesPC == {"connection", "client", "channel", "confirm", "sleep", "boot",
             "started", "dead"}

Init ==
  /\ flags \in SUBSET Flag
  /\ pc = "http1" /\ elapsed = 0
  /\ height = [h \in Host |-> 0]
  /\ hermes = "connection" /\ hermesElapsed = 0
  /\ connections = <<>>
  /\ channel = [h \in Host |-> "none"]

-------------------------------------------------------------------------------
(* setup()                                                                  *)

(* a slip: a stage goes on counting from where the one before it stopped *)
GotoSameTimer(place) == pc' = place /\ UNCHANGED <<elapsed, flags>>

Goto(place) == pc' = place /\ elapsed' = 0 /\ UNCHANGED flags

(* The next statement of setup() that its flag does not skip.               *)
AfterChannel2 == IF "NO_WAIT_DELAY" \in flags THEN "done" ELSE "delay"
AfterHttp2 == IF "NO_WAIT_CHANNEL2" \in flags THEN AfterChannel2 ELSE "channel2"
AfterChannel1 == IF "NO_WAIT_HTTP2" \in flags THEN AfterHttp2 ELSE "http2"
AfterHttp1 == IF "NO_WAIT_CHANNEL1" \in flags THEN AfterChannel1 ELSE "channel1"

(* waitForHTTP: the block START_BLOCK_HEIGHT is served. *)
SeesBlock(h) ==
  /\ pc = IF h = 1 THEN "http1" ELSE "http2"
  /\ height[h] >= START_BLOCK_HEIGHT
  /\ Goto(IF h = 1 THEN AfterHttp1 ELSE AfterHttp2)
  /\ UNCHANGED <<height, hermesVars>>

(* a slip: a channel is enough, whether its counterparty is known or not *)
AnyChannel(h) == channel[h] # "none"

(* There is a channel and every counterparty has an id: the end that sent   *)
(* ChanOpenInit learns it from the Ack, the other one from the Try already. *)
CounterpartyKnown(h) == channel[h] \in {"TRYOPEN", "OPEN"}

(* a slip: waitForChannel returns as soon as it sees the channel *)
SeesChannelNoSleep(h) ==
  /\ pc = IF h = 1 THEN "channel1" ELSE "channel2"
  /\ CounterpartyKnown(h)
  /\ Goto(IF h = 1 THEN AfterChannel1 ELSE AfterChannel2)
  /\ UNCHANGED <<height, hermesVars>>

(* waitForChannel: the channel is seen, and 20 seconds are added. *)
SeesChannel(h) ==
  /\ pc = IF h = 1 THEN "channel1" ELSE "channel2"
  /\ CounterpartyKnown(h)
  /\ Goto(IF h = 1 THEN "sleep1" ELSE "sleep2")
  /\ UNCHANGED <<height, hermesVars>>

WakesUp ==
  /\ pc \in Sleeps
  /\ elapsed = Sleep
  /\ Goto(CASE pc = "sleep1" -> AfterChannel1
            [] pc = "sleep2" -> AfterChannel2
            [] pc = "delay" -> "done")
  /\ UNCHANGED <<height, hermesVars>>

Timeout(place) ==
  IF place \in {"http1", "http2"} THEN HttpTimeout ELSE ChannelTimeout

(* a slip: waitForChannel polls for ever *)
TimesOutHttpOnly ==
  /\ pc \in {"http1", "http2"}
  /\ elapsed = Timeout(pc)
  /\ Goto("failed")
  /\ UNCHANGED <<height, hermesVars>>

(* 'Chain did not start', 'No channel opened'. *)
TimesOut ==
  /\ pc \in Polls
  /\ elapsed = Timeout(pc)
  /\ Goto("failed")
  /\ UNCHANGED <<height, hermesVars>>

SetupNext ==
  \/ \E h \in Host : SeesBlock(h) \/ SeesChannel(h)
  \/ WakesUp
  \/ TimesOut

-------------------------------------------------------------------------------
(* The hermes container and the chains                                      *)

HermesGoto(place) == hermes' = place /\ hermesElapsed' = 0

(* `create connection`, retried until it succeeds.  A handshake given up    *)
(* half-way leaves a connection behind and the next one gets a new id.      *)
CreateConnection ==
  /\ hermes = "connection"
  /\ \A h \in Host : height[h] > 0
  /\ Len(connections) < MaxConnections
  /\ \/ connections' = Append(connections, "init")
        /\ UNCHANGED <<hermes, hermesElapsed>>
     \/ connections' = Append(connections, "open")
        /\ HermesGoto("client")
  /\ UNCHANGED <<setupVars, height, channel>>

(* The client that is left to expire, retried until it succeeds. *)
CreateClient ==
  /\ hermes = "client"
  /\ HermesGoto("channel")
  /\ UNCHANGED <<setupVars, height, connections, channel>>

(* `create channel --a-connection connection-0`, tried once: Init on        *)
(* Neutron, Try on Gaia, Ack on Neutron, Confirm on Gaia.                   *)
ChanOpenInit ==
  /\ hermes = "channel" /\ channel[1] = "none"
  /\ Head(connections) = "open"
  /\ channel' = [channel EXCEPT ![1] = "INIT"]
  /\ UNCHANGED <<setupVars, height, hermes, hermesElapsed, connections>>

ChanOpenTry ==
  /\ hermes = "channel" /\ channel[1] = "INIT" /\ channel[2] = "none"
  /\ channel' = [channel EXCEPT ![2] = "TRYOPEN"]
  /\ UNCHANGED <<setupVars, height, hermes, hermesElapsed, connections>>

ChanOpenAck ==
  /\ hermes = "channel" /\ channel[2] = "TRYOPEN"
  /\ channel' = [channel EXCEPT ![1] = "OPEN"]
  /\ HermesGoto("confirm")
  /\ UNCHANGED <<setupVars, height, connections>>

ChanOpenConfirm ==
  /\ hermes = "confirm"
  /\ channel' = [channel EXCEPT ![2] = "OPEN"]
  /\ HermesGoto("sleep")
  /\ UNCHANGED <<setupVars, height, connections>>

(* `create channel` fails and the commands after && are not run. *)
ChannelFails ==
  /\ hermes \in {"channel", "confirm"}
  /\ HermesGoto("dead")
  /\ UNCHANGED <<setupVars, height, connections, channel>>

HermesStart ==
  /\ hermes = "sleep" /\ hermesElapsed = HermesSleep
  /\ HermesGoto("boot")
  /\ UNCHANGED <<setupVars, height, connections, channel>>

HermesRelays ==
  /\ hermes = "boot"
  /\ HermesGoto("started")
  /\ UNCHANGED <<setupVars, height, connections, channel>>

HermesNext ==
  CreateConnection \/ CreateClient \/ ChanOpenInit \/ ChanOpenTry \/ ChanOpenAck
    \/ ChanOpenConfirm \/ ChannelFails \/ HermesStart \/ HermesRelays

NewBlock(h) ==
  /\ height[h] < START_BLOCK_HEIGHT
  /\ height' = [height EXCEPT ![h] = @ + 1]
  /\ UNCHANGED <<setupVars, hermesVars>>

-------------------------------------------------------------------------------
(* A unit of time passes.  Nobody oversleeps or polls past its timeout, and *)
(* hermes keeps the delays it is granted.                                   *)

Patient == /\ pc \in Sleeps => elapsed < Sleep
           /\ pc \in Polls => elapsed < Timeout(pc)

HermesPatient == CASE hermes = "confirm" -> hermesElapsed < ConfirmDelay
                   [] hermes = "sleep" -> hermesElapsed < HermesSleep
                   [] hermes = "boot" -> hermesElapsed < BootDelay
                   [] OTHER -> TRUE

Tick ==
  /\ pc \in Polls \union Sleeps
  /\ Patient
  /\ HermesPatient
  /\ elapsed' = elapsed + 1
  /\ hermesElapsed' = IF hermes \in {"confirm", "sleep", "boot"}
                        THEN hermesElapsed + 1 ELSE hermesElapsed
  /\ UNCHANGED <<flags, pc, height, hermes, connections, channel>>

Next == SetupNext \/ HermesNext \/ (\E h \in Host : NewBlock(h)) \/ Tick

Fairness == WF_vars(SetupNext) /\ WF_vars(Tick)
              /\ WF_vars(HermesStart) /\ WF_vars(HermesRelays)
              /\ WF_vars(ChanOpenConfirm)

Spec == Init /\ [][Next]_vars /\ Fairness

-------------------------------------------------------------------------------
TypeOK ==
  /\ flags \subseteq Flag
  /\ pc \in Polls \union Sleeps \union {"done", "failed"}
  /\ elapsed \in Nat
  /\ pc \in Sleeps => elapsed <= Sleep
  /\ pc \in Polls => elapsed <= Timeout(pc)
  /\ height \in [Host -> 0 .. START_BLOCK_HEIGHT]
  /\ hermes \in HermesPC
  /\ hermesElapsed \in Nat
  /\ connections \in Seq({"init", "open"}) /\ Len(connections) <= MaxConnections
  /\ channel \in [Host -> {"none", "INIT", "TRYOPEN", "OPEN"}]

(* When setup() returns with no flag set, hermes relays and both ends of    *)
(* the channel are open, unless `create channel` failed on the last step:   *)
(* the three sleeps together outlast the container's own sleep and start,   *)
(* which is what the FIXME of the last sleep hopes for.                     *)
RelayerReady ==
  pc = "done" /\ flags = {} /\ hermes # "dead" =>
    /\ hermes = "started"
    /\ \A h \in Host : channel[h] = "OPEN"

(* Whatever else is skipped, a channel that is waited for on Neutron is     *)
(* there, over connection-0 (GAIA_CONNECTION of the tests), and the block   *)
(* that is waited for exists.                                               *)
ChannelReady ==
  pc = "done" =>
    /\ height[1] >= START_BLOCK_HEIGHT
    /\ "NO_WAIT_CHANNEL1" \notin flags =>
         channel[1] = "OPEN" /\ Head(connections) = "open"

(* setup() ends: the tests begin, or it throws.                             *)
SetupEnds == <>(pc \in {"done", "failed"})
===============================================================================
