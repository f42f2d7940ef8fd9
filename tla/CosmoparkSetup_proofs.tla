------------------------- MODULE CosmoparkSetup_proofs -------------------------
(***************************************************************************)
(* Proofs about setup(): for any durations that satisfy HermesInTime, when  *)
(* setup() returns without any NO_WAIT_ flag, hermes is relaying.           *)
(*                                                                          *)
(* The argument compares two clocks.  Once channel A is seen open, setup()  *)
(* still sleeps SetupLeft units, and hermes needs at most HermesLeft units  *)
(* more; HermesLeft < SetupLeft from then on, and SetupLeft is 0 at "done". *)
(***************************************************************************)
EXTENDS CosmoparkSetup, Integers, TLAPS

Busy == {"confirm", "sleep", "boot"}

HermesNeeds(place, e) ==
  CASE place = "confirm" -> (ConfirmDelay - e) + HermesSleep + BootDelay
    [] place = "sleep" -> (HermesSleep - e) + BootDelay
    [] place = "boot" -> BootDelay - e
    [] OTHER -> 0

SetupSleeps(place, e) ==
  CASE place = "sleep1" -> 3 * Sleep - e
    [] place \in {"http2", "channel2"} -> 2 * Sleep
    [] place = "sleep2" -> 2 * Sleep - e
    [] place = "delay" -> Sleep - e
    [] OTHER -> 0

HermesLeft == HermesNeeds(hermes, hermesElapsed)
SetupLeft == SetupSleeps(pc, elapsed)

PastChannel1 == {"sleep1", "http2", "channel2", "sleep2", "delay", "done"}

(* The channel is opened over connection-0 and in the order of the handshake *)
ChannelInv ==
  /\ hermes # "connection" => connections # <<>>
  /\ channel[1] # "none" => Head(connections) = "open" /\ hermes # "connection"
  /\ channel[1] # "TRYOPEN"
  /\ channel[2] # "none" => channel[1] # "none"
  /\ channel[1] = "OPEN" => hermes \in Busy \union {"started", "dead"}
  /\ hermes \in Busy \union {"started"} => channel[1] = "OPEN"
  /\ hermes \in {"sleep", "boot", "started"} => channel[2] = "OPEN"

(* What setup() has waited for has been seen. *)
SeenInv ==
  /\ pc \notin {"http1", "failed"} => height[1] >= START_BLOCK_HEIGHT
  /\ pc \in PastChannel1 =>
       ("NO_WAIT_CHANNEL1" \notin flags => channel[1] = "OPEN")

(* Nobody is late. *)
TimeInv ==
  /\ hermes = "confirm" => hermesElapsed <= ConfirmDelay
  /\ hermes = "sleep" => hermesElapsed <= HermesSleep
  /\ hermes = "boot" => hermesElapsed <= BootDelay
  /\ flags = {} /\ hermes \in Busy
       /\ pc \in PastChannel1 =>
       HermesLeft < SetupLeft

IInv == TypeOK /\ ChannelInv /\ SeenInv /\ TimeInv

LEMMA NaturalTimes ==
  /\ START_BLOCK_HEIGHT \in Nat /\ HttpTimeout \in Nat /\ ChannelTimeout \in Nat
  /\ Sleep \in Nat /\ HermesSleep \in Nat /\ ConfirmDelay \in Nat
  /\ BootDelay \in Nat /\ MaxConnections \in Nat
BY TimesAssumption

(* What the two clocks are, place by place.                                 *)
LEMMA HermesNeedsIs ==
  ASSUME NEW e
  PROVE  /\ HermesNeeds("confirm", e) = (ConfirmDelay - e) + HermesSleep + BootDelay
         /\ HermesNeeds("sleep", e) = (HermesSleep - e) + BootDelay
         /\ HermesNeeds("boot", e) = BootDelay - e
BY DEF HermesNeeds

LEMMA SetupSleepsIs ==
  ASSUME NEW e
  PROVE  /\ SetupSleeps("sleep1", e) = 3 * Sleep - e
         /\ SetupSleeps("http2", e) = 2 * Sleep
         /\ SetupSleeps("channel2", e) = 2 * Sleep
         /\ SetupSleeps("sleep2", e) = 2 * Sleep - e
         /\ SetupSleeps("delay", e) = Sleep - e
         /\ SetupSleeps("done", e) = 0
BY DEF SetupSleeps

LEMMA LeftInt ==
  ASSUME NEW e \in Nat
  PROVE  /\ \A place \in Busy : HermesNeeds(place, e) \in Int
         /\ \A place \in PastChannel1 : SetupSleeps(place, e) \in Int
BY NaturalTimes, HermesNeedsIs, SetupSleepsIs DEF Busy, PastChannel1

LEMMA InitIInv == Init => IInv
<1> SUFFICES ASSUME Init PROVE IInv
  OBVIOUS
<1>1. TypeOK
  BY NaturalTimes DEF Init, TypeOK, Host, Polls, Sleeps, HermesPC, Timeout
<1>2. ChannelInv /\ SeenInv /\ TimeInv
  BY DEF Init, ChannelInv, SeenInv, TimeInv, Busy, PastChannel1, Host
<1> QED BY <1>1, <1>2 DEF IInv

(* The statement after a poll or a sleep is a poll, a sleep or the end; and *)
(* with no flag set nothing is skipped.                                     *)
LEMMA AfterStage ==
  /\ AfterHttp1 \in {"channel1", "http2", "channel2", "delay", "done"}
  /\ AfterChannel1 \in {"http2", "channel2", "delay", "done"}
  /\ AfterHttp2 \in {"channel2", "delay", "done"}
  /\ AfterChannel2 \in {"delay", "done"}
  /\ AfterHttp1 # "channel1" => "NO_WAIT_CHANNEL1" \in flags
  /\ flags = {} => /\ AfterHttp1 = "channel1" /\ AfterChannel1 = "http2"
                   /\ AfterHttp2 = "channel2" /\ AfterChannel2 = "delay"
BY DEF AfterHttp1, AfterChannel1, AfterHttp2, AfterChannel2

LEMMA SetupStep == IInv /\ SetupNext => IInv'
<1> SUFFICES ASSUME IInv, SetupNext PROVE IInv'
  OBVIOUS
<1> USE DEF IInv
<1>1. UNCHANGED <<flags, height, hermesVars>>
  BY DEF SetupNext, SeesBlock, SeesChannel, WakesUp, TimesOut, Goto
<1>2. ChannelInv'
  BY <1>1 DEF hermesVars, ChannelInv
<1>3. TypeOK' <=> /\ pc' \in Polls \union Sleeps \union {"done", "failed"}
                  /\ elapsed' \in Nat
                  /\ pc' \in Sleeps => elapsed' <= Sleep
                  /\ pc' \in Polls => elapsed' <= Timeout(pc)'
  BY <1>1 DEF hermesVars, TypeOK
<1>4. ASSUME NEW place \in Polls \union Sleeps \union {"done", "failed"}, Goto(place)
      PROVE  TypeOK'
  BY <1>3, <1>4, NaturalTimes DEF Goto, Timeout, Polls, Sleeps
<1>5. TimeInv' <=> (flags = {} /\ hermes \in Busy
         /\ pc' \in PastChannel1 =>
         HermesLeft < SetupLeft')
  BY <1>1 DEF hermesVars, TimeInv, HermesLeft
<1>6. ASSUME NEW place, Goto(place), pc \in PastChannel1,
             flags = {} => SetupSleeps(place, 0) \in Int /\ SetupLeft <= SetupSleeps(place, 0)
      PROVE  TimeInv'
  <2> SUFFICES ASSUME flags = {}, hermes \in Busy PROVE HermesLeft < SetupLeft'
    BY <1>5
  <2>1. HermesLeft < SetupLeft
    BY <1>6 DEF TimeInv
  <2>2. HermesLeft \in Int /\ SetupLeft \in Int
    BY <1>6, LeftInt DEF HermesLeft, SetupLeft, TypeOK
  <2>3. SetupLeft' = SetupSleeps(place, 0)
    BY <1>6 DEF SetupLeft, Goto
  <2> QED BY <1>6, <2>1, <2>2, <2>3
<1>7. ASSUME NEW h \in Host, SeesBlock(h) PROVE IInv'
  <2>1. CASE h = 1
    <3>1. pc = "http1" /\ height[1] >= START_BLOCK_HEIGHT /\ Goto(AfterHttp1)
      BY <1>7, <2>1 DEF SeesBlock
    <3>2. TypeOK'
      BY <1>4, <3>1, AfterStage DEF Polls, Sleeps
    <3>3. SeenInv'
      BY <1>1, <3>1, AfterStage DEF SeenInv, PastChannel1, Goto, hermesVars
    <3>4. TimeInv'
      BY <1>5, <3>1, AfterStage DEF Goto, PastChannel1
    <3> QED BY <1>2, <3>2, <3>3, <3>4
  <2>2. CASE h = 2
    <3>1. pc = "http2" /\ Goto(AfterHttp2)
      BY <1>7, <2>2 DEF SeesBlock
    <3>2. TypeOK'
      BY <1>4, <3>1, AfterStage DEF Polls, Sleeps
    <3>3. SeenInv'
      BY <1>1, <3>1, AfterStage DEF SeenInv, PastChannel1, Goto, hermesVars
    <3>4. flags = {} => SetupSleeps(AfterHttp2, 0) \in Int /\ SetupLeft <= SetupSleeps(AfterHttp2, 0)
      BY <3>1, AfterStage, NaturalTimes, SetupSleepsIs
         DEF SetupLeft, TypeOK
    <3>5. TimeInv'
      BY <1>6, <3>1, AfterStage, <3>4 DEF PastChannel1
    <3> QED BY <1>2, <3>2, <3>3, <3>5
  <2> QED BY <2>1, <2>2 DEF Host
<1>8. ASSUME NEW h \in Host, SeesChannel(h) PROVE IInv'
  <2>1. CASE h = 1
    <3>1. pc = "channel1" /\ channel[1] \in {"TRYOPEN", "OPEN"} /\ Goto("sleep1")
      BY <1>8, <2>1 DEF SeesChannel, CounterpartyKnown
    <3>2. TypeOK'
      BY <1>4, <3>1 DEF Polls, Sleeps
    <3>3. SeenInv'
      BY <1>1, <3>1 DEF SeenInv, PastChannel1, Goto, hermesVars, ChannelInv
    <3>4. hermes \in Busy => HermesLeft < 3 * Sleep
      BY NaturalTimes, HermesNeedsIs, HermesInTime DEF HermesLeft, Busy, TypeOK
    <3>5. TimeInv'
      BY <1>5, <3>1, <3>4, NaturalTimes, SetupSleepsIs DEF Goto, SetupLeft, PastChannel1
    <3> QED BY <1>2, <3>2, <3>3, <3>5
  <2>2. CASE h = 2
    <3>1. pc = "channel2" /\ Goto("sleep2")
      BY <1>8, <2>2 DEF SeesChannel
    <3>2. TypeOK'
      BY <1>4, <3>1 DEF Polls, Sleeps
    <3>3. SeenInv'
      BY <1>1, <3>1 DEF SeenInv, PastChannel1, Goto, hermesVars
    <3>4. flags = {} => SetupSleeps("sleep2", 0) \in Int /\ SetupLeft <= SetupSleeps("sleep2", 0)
      BY <3>1, NaturalTimes, SetupSleepsIs
         DEF SetupLeft, TypeOK
    <3>5. TimeInv'
      BY <1>6, <3>1, <3>4 DEF PastChannel1
    <3> QED BY <1>2, <3>2, <3>3, <3>5
  <2> QED BY <2>1, <2>2 DEF Host
<1>9. ASSUME WakesUp PROVE IInv'
  <2>1. CASE pc = "sleep1"
    <3>1. elapsed = Sleep /\ Goto(AfterChannel1)
      BY <1>9, <2>1 DEF WakesUp
    <3>2. TypeOK'
      BY <1>4, <3>1, AfterStage DEF Polls, Sleeps
    <3>3. SeenInv'
      BY <1>1, <2>1, <3>1, AfterStage DEF SeenInv, PastChannel1, Goto, hermesVars
    <3>4. flags = {} => SetupSleeps(AfterChannel1, 0) \in Int /\ SetupLeft <= SetupSleeps(AfterChannel1, 0)
      BY <2>1, <3>1, AfterStage, NaturalTimes, SetupSleepsIs
         DEF SetupLeft, TypeOK
    <3>5. TimeInv'
      BY <1>6, <2>1, <3>1, AfterStage, <3>4 DEF PastChannel1
    <3> QED BY <1>2, <3>2, <3>3, <3>5
  <2>2. CASE pc = "sleep2"
    <3>1. elapsed = Sleep /\ Goto(AfterChannel2)
      BY <1>9, <2>2 DEF WakesUp
    <3>2. TypeOK'
      BY <1>4, <3>1, AfterStage DEF Polls, Sleeps
    <3>3. SeenInv'
      BY <1>1, <2>2, <3>1, AfterStage DEF SeenInv, PastChannel1, Goto, hermesVars
    <3>4. flags = {} => SetupSleeps(AfterChannel2, 0) \in Int /\ SetupLeft <= SetupSleeps(AfterChannel2, 0)
      BY <2>2, <3>1, AfterStage, NaturalTimes, SetupSleepsIs
         DEF SetupLeft, TypeOK
    <3>5. TimeInv'
      BY <1>6, <2>2, <3>1, AfterStage, <3>4 DEF PastChannel1
    <3> QED BY <1>2, <3>2, <3>3, <3>5
  <2>3. CASE pc = "delay"
    <3>1. elapsed = Sleep /\ Goto("done")
      BY <1>9, <2>3 DEF WakesUp
    <3>2. TypeOK'
      BY <1>4, <3>1 DEF Polls, Sleeps
    <3>3. SeenInv'
      BY <1>1, <2>3, <3>1 DEF SeenInv, PastChannel1, Goto, hermesVars
    <3>4. flags = {} => SetupSleeps("done", 0) \in Int /\ SetupLeft <= SetupSleeps("done", 0)
      BY <2>3, <3>1, NaturalTimes, SetupSleepsIs
         DEF SetupLeft, TypeOK
    <3>5. TimeInv'
      BY <1>6, <2>3, <3>1, <3>4 DEF PastChannel1
    <3> QED BY <1>2, <3>2, <3>3, <3>5
  <2> QED BY <1>9, <2>1, <2>2, <2>3 DEF WakesUp, Sleeps
<1>10. ASSUME TimesOut PROVE IInv'
  <2>1. Goto("failed")
    BY <1>10 DEF TimesOut
  <2>2. TypeOK'
    BY <1>4, <2>1 DEF Polls, Sleeps
  <2>3. SeenInv' /\ TimeInv'
    BY <1>5, <2>1 DEF SeenInv, PastChannel1, Goto
  <2> QED BY <1>2, <2>2, <2>3
<1> QED BY <1>7, <1>8, <1>9, <1>10 DEF SetupNext

(* A step of hermes that does not put off its start keeps the comparison.   *)
LEMMA LeftStaysShort ==
  ASSUME IInv, UNCHANGED setupVars, hermes \in Busy,
         HermesLeft \in Int, HermesLeft' \in Int, HermesLeft' <= HermesLeft,
         hermes' \in Busy, hermesElapsed' = 0
  PROVE  TimeInv'
<1>1. SetupLeft' = SetupLeft /\ UNCHANGED <<flags, pc>>
  BY DEF setupVars, SetupLeft
<1>2. pc \in PastChannel1 => SetupLeft \in Int
  BY LeftInt DEF IInv, TypeOK, SetupLeft
<1>3. flags = {} /\ pc \in PastChannel1
        => HermesLeft < SetupLeft
  BY DEF IInv, TimeInv
<1>4. flags' = {} /\ pc' \in PastChannel1
        => HermesLeft' < SetupLeft'
  BY <1>1, <1>2, <1>3
<1> QED BY <1>4, NaturalTimes DEF TimeInv

LEMMA HermesStep == IInv /\ HermesNext => IInv'
<1> SUFFICES ASSUME IInv, HermesNext PROVE IInv'
  OBVIOUS
<1> USE DEF IInv
<1>1. UNCHANGED <<setupVars, height>>
  BY DEF HermesNext, CreateConnection, CreateClient, ChanOpenInit, ChanOpenTry,
         ChanOpenAck, ChanOpenConfirm, ChannelFails, HermesStart, HermesRelays
<1>2. TypeOK' <=> /\ hermes' \in HermesPC
                  /\ hermesElapsed' \in Nat
                  /\ connections' \in Seq({"init", "open"})
                  /\ Len(connections') <= MaxConnections
                  /\ channel' \in [Host -> {"none", "INIT", "TRYOPEN", "OPEN"}]
  BY <1>1 DEF setupVars, TypeOK, Timeout
<1>3. ASSUME channel'[1] = "OPEN" \/ channel'[1] = channel[1]
      PROVE  SeenInv'
  BY <1>1, <1>3 DEF setupVars, SeenInv
<1>4. SetupLeft' = SetupLeft
  BY <1>1 DEF setupVars, SetupLeft
<1>5. ASSUME CreateConnection PROVE IInv'
  <2>1. PICK end \in {"init", "open"} :
          /\ connections' = Append(connections, end)
          /\ IF end = "open" THEN HermesGoto("client")
                             ELSE UNCHANGED <<hermes, hermesElapsed>>
    BY <1>5 DEF CreateConnection
  <2>2. hermes = "connection" /\ channel' = channel /\ Len(connections) < MaxConnections
    BY <1>5 DEF CreateConnection
  <2>3. TypeOK'
    BY <1>2, <2>1, <2>2, NaturalTimes DEF TypeOK, HermesGoto, HermesPC
  <2>4. ChannelInv'
    BY <2>1, <2>2 DEF ChannelInv, TypeOK, HermesGoto, Busy
  <2>5. TimeInv'
    BY <2>1, <2>2 DEF TimeInv, HermesGoto, Busy
  <2> QED BY <1>3, <2>2, <2>3, <2>4, <2>5
<1>6. ASSUME CreateClient PROVE IInv'
  <2>1. TypeOK'
    BY <1>2, <1>6 DEF TypeOK, CreateClient, HermesGoto, HermesPC
  <2>2. ChannelInv' /\ TimeInv'
    BY <1>6 DEF CreateClient, HermesGoto, ChannelInv, TimeInv, Busy
  <2> QED BY <1>3, <1>6, <2>1, <2>2 DEF CreateClient
<1>7. ASSUME ChanOpenInit PROVE IInv'
  <2>1. /\ hermes = "channel" /\ hermes' = hermes /\ connections' = connections
        /\ hermesElapsed' = hermesElapsed
        /\ channel' = [channel EXCEPT ![1] = "INIT"]
        /\ channel[1] = "none" /\ Head(connections) = "open"
    BY <1>7 DEF ChanOpenInit
  <2>2. channel'[1] = "INIT" /\ channel'[2] = channel[2]
    BY <2>1 DEF TypeOK, Host
  <2>3. TypeOK'
    BY <1>2, <2>1 DEF TypeOK, Host
  <2>4. ChannelInv' /\ TimeInv'
    BY <2>1, <2>2 DEF ChannelInv, TimeInv, Busy
  <2>5. SeenInv'
    BY <1>1, <2>1 DEF SeenInv, setupVars
  <2> QED BY <2>3, <2>4, <2>5
<1>8. ASSUME ChanOpenTry PROVE IInv'
  <2>1. /\ hermes = "channel" /\ hermes' = hermes /\ connections' = connections
        /\ hermesElapsed' = hermesElapsed
        /\ channel' = [channel EXCEPT ![2] = "TRYOPEN"] /\ channel[1] = "INIT"
    BY <1>8 DEF ChanOpenTry
  <2>2. channel'[1] = channel[1]
    BY <2>1 DEF TypeOK, Host
  <2>3. TypeOK'
    BY <1>2, <2>1 DEF TypeOK, Host
  <2>4. ChannelInv' /\ TimeInv'
    BY <2>1, <2>2 DEF ChannelInv, TimeInv, Busy
  <2> QED BY <1>3, <2>2, <2>3, <2>4
<1>9. ASSUME ChanOpenAck PROVE IInv'
  <2>1. /\ hermes = "channel" /\ HermesGoto("confirm") /\ connections' = connections
        /\ channel' = [channel EXCEPT ![1] = "OPEN"]
        /\ channel[2] = "TRYOPEN"
    BY <1>9 DEF ChanOpenAck
  <2>2. channel'[1] = "OPEN" /\ channel'[2] = channel[2]
    BY <2>1 DEF TypeOK, Host
  <2>3. TypeOK'
    BY <1>2, <2>1 DEF TypeOK, Host, HermesGoto, HermesPC
  <2>4. ChannelInv'
    BY <2>1, <2>2 DEF ChannelInv, HermesGoto, Busy
  <2>5. TimeInv'
    <3>1. /\ hermes' = "confirm" /\ hermesElapsed' = 0
          /\ hermes \notin Busy \union {"started", "dead"}
          /\ UNCHANGED <<pc, flags>>
      BY <2>1, <1>1 DEF HermesGoto, Busy, setupVars
    <3>2. ~ (flags = {} /\ pc \in PastChannel1)
      BY <3>1 DEF SeenInv, ChannelInv
    <3> QED BY <3>1, <3>2, NaturalTimes DEF TimeInv
  <2> QED BY <1>3, <2>2, <2>3, <2>4, <2>5
<1>10. ASSUME ChanOpenConfirm PROVE IInv'
  <2>1. /\ hermes = "confirm" /\ HermesGoto("sleep") /\ connections' = connections
        /\ channel' = [channel EXCEPT ![2] = "OPEN"]
    BY <1>10 DEF ChanOpenConfirm
  <2>2. channel'[1] = channel[1] /\ channel'[2] = "OPEN"
    BY <2>1 DEF TypeOK, Host
  <2>3. TypeOK'
    BY <1>2, <2>1 DEF TypeOK, Host, HermesGoto, HermesPC
  <2>4. ChannelInv'
    BY <2>1, <2>2 DEF ChannelInv, HermesGoto, Busy
  <2>5. TimeInv'
    <3>1. hermes' = "sleep" /\ hermesElapsed' = 0
      BY <2>1 DEF HermesGoto
    <3>2. HermesLeft' = HermesSleep + BootDelay
      BY <3>1, NaturalTimes, HermesNeedsIs DEF HermesLeft
    <3>3. HermesLeft = (ConfirmDelay - hermesElapsed) + HermesSleep + BootDelay
      BY <2>1, HermesNeedsIs DEF HermesLeft
    <3>4. HermesLeft' <= HermesLeft /\ HermesLeft \in Int
      BY <2>1, <3>2, <3>3, NaturalTimes DEF TypeOK, TimeInv
    <3>5. HermesLeft' \in Int
      BY <3>2, NaturalTimes
    <3>6. hermes \in Busy /\ hermes' \in Busy
      BY <2>1, <3>1 DEF Busy
    <3>7. UNCHANGED setupVars
      BY <1>1
    <3> QED BY <3>1, <3>4, <3>5, <3>6, <3>7, LeftStaysShort
  <2> QED BY <1>3, <2>2, <2>3, <2>4, <2>5
<1>11. ASSUME ChannelFails PROVE IInv'
  <2>1. TypeOK' /\ SeenInv'
    BY <1>2, <1>3, <1>11 DEF TypeOK, ChannelFails, HermesGoto, HermesPC
  <2>2. ChannelInv' /\ TimeInv'
    BY <1>11 DEF ChannelFails, HermesGoto, ChannelInv, TimeInv, Busy
  <2> QED BY <2>1, <2>2
<1>12. ASSUME HermesStart PROVE IInv'
  <2>1. hermes = "sleep" /\ hermesElapsed = HermesSleep
        /\ hermes' = "boot" /\ hermesElapsed' = 0 /\ UNCHANGED <<connections, channel>>
    BY <1>12 DEF HermesStart, HermesGoto
  <2>2. TypeOK' /\ SeenInv'
    BY <1>2, <1>3, <2>1 DEF TypeOK, HermesPC
  <2>3. ChannelInv'
    BY <2>1 DEF ChannelInv, Busy
  <2>4. HermesLeft' = BootDelay /\ HermesLeft = BootDelay
    BY <2>1, NaturalTimes, HermesNeedsIs DEF HermesLeft
  <2>5. TimeInv'
    <3>1. HermesLeft' <= HermesLeft /\ HermesLeft \in Int /\ HermesLeft' \in Int
      BY <2>4, NaturalTimes
    <3>2. hermes \in Busy /\ hermes' \in Busy
      BY <2>1 DEF Busy
    <3>3. UNCHANGED setupVars
      BY <1>1
    <3> QED BY <2>1, <3>1, <3>2, <3>3, LeftStaysShort
  <2> QED BY <2>2, <2>3, <2>5
<1>13. ASSUME HermesRelays PROVE IInv'
  <2>1. hermes = "boot" /\ hermes' = "started" /\ hermesElapsed' = 0
        /\ UNCHANGED <<connections, channel>>
    BY <1>13 DEF HermesRelays, HermesGoto
  <2>2. TypeOK' /\ SeenInv'
    BY <1>2, <1>3, <2>1 DEF TypeOK, HermesPC
  <2>3. ChannelInv' /\ TimeInv'
    BY <2>1 DEF ChannelInv, TimeInv, Busy
  <2> QED BY <2>2, <2>3
<1> QED BY <1>5, <1>6, <1>7, <1>8, <1>9, <1>10, <1>11, <1>12, <1>13 DEF HermesNext

LEMMA BlockStep == ASSUME IInv, NEW h \in Host, NewBlock(h) PROVE IInv'
<1> USE DEF IInv
<1>1. UNCHANGED <<setupVars, hermesVars>> /\ height' = [height EXCEPT ![h] = @ + 1]
  BY DEF NewBlock
<1>2. height' \in [Host -> 0 .. START_BLOCK_HEIGHT] /\ height'[1] >= height[1]
  BY NaturalTimes DEF NewBlock, TypeOK, Host
<1>3. TypeOK'
  BY <1>1, <1>2 DEF TypeOK, setupVars, hermesVars, Timeout
<1>4. ChannelInv' /\ TimeInv'
  BY <1>1 DEF ChannelInv, TimeInv, setupVars, hermesVars, HermesLeft, SetupLeft
<1>5. height[1] \in Nat /\ height'[1] \in Nat
  BY <1>2 DEF TypeOK, Host
<1>6. SeenInv'
  BY <1>1, <1>2, <1>5, NaturalTimes DEF SeenInv, setupVars, hermesVars
<1> QED BY <1>3, <1>4, <1>6

LEMMA OneUnit ==
  ASSUME NEW e \in Nat
  PROVE  /\ \A place \in Busy : HermesNeeds(place, e + 1) = HermesNeeds(place, e) - 1
         /\ \A place \in PastChannel1 :
              SetupSleeps(place, e + 1) >= SetupSleeps(place, e) - 1
<1>1. e + 1 \in Nat
  OBVIOUS
<1> QED BY <1>1, NaturalTimes, HermesNeedsIs, SetupSleepsIs DEF Busy, PastChannel1

(* One unit is taken off both clocks, or off none.                          *)
LEMMA TickStep == ASSUME IInv, Tick PROVE IInv'
<1> USE DEF IInv
<1>1. /\ UNCHANGED <<flags, pc, height, hermes, connections, channel>>
      /\ elapsed' = elapsed + 1
      /\ hermes \in Busy => hermesElapsed' = hermesElapsed + 1
      /\ hermes \notin Busy => hermesElapsed' = hermesElapsed
  BY DEF Tick, Busy
<1>2. ChannelInv' /\ SeenInv'
  BY <1>1 DEF ChannelInv, SeenInv
<1>3. hermesElapsed' \in Nat /\ elapsed' \in Nat
  BY <1>1 DEF TypeOK
<1>4. pc \in Sleeps => elapsed' <= Sleep
  BY <1>1, NaturalTimes DEF Tick, Patient, TypeOK
<1>5. pc \in Polls => elapsed' <= Timeout(pc)
  BY <1>1, NaturalTimes DEF Tick, Patient, TypeOK, Timeout
<1>6. TypeOK'
  BY <1>1, <1>3, <1>4, <1>5 DEF TypeOK, Timeout
<1>7. /\ hermes = "confirm" => hermesElapsed' <= ConfirmDelay
      /\ hermes = "sleep" => hermesElapsed' <= HermesSleep
      /\ hermes = "boot" => hermesElapsed' <= BootDelay
  BY <1>1, NaturalTimes DEF Tick, HermesPatient, TypeOK, Busy
<1>8. ASSUME flags = {}, hermes \in Busy,
             pc \in PastChannel1
      PROVE  HermesLeft' < SetupLeft'
  <2>1. HermesLeft < SetupLeft /\ HermesLeft \in Int
    BY <1>8, LeftInt DEF TimeInv, TypeOK, HermesLeft
  <2>2. HermesLeft' = HermesLeft - 1
    BY <1>1, <1>8, NaturalTimes, HermesNeedsIs, OneUnit DEF HermesLeft, TypeOK, Busy
  <2>3. SetupLeft \in Int /\ SetupLeft' \in Int
    BY <1>1, <1>3, <1>8, LeftInt DEF SetupLeft, TypeOK
  <2>4. SetupLeft' >= SetupLeft - 1
    BY <1>1, <1>8, NaturalTimes, SetupSleepsIs, OneUnit DEF SetupLeft, TypeOK, PastChannel1
  <2> QED BY <2>1, <2>2, <2>3, <2>4
<1>9. TimeInv'
  BY <1>1, <1>7, <1>8 DEF TimeInv
<1> QED BY <1>2, <1>6, <1>9

LEMMA Inductive == IInv /\ [Next]_vars => IInv'
<1> SUFFICES ASSUME IInv, [Next]_vars PROVE IInv'
  OBVIOUS
<1>1. CASE UNCHANGED vars
  BY <1>1 DEF vars, IInv, TypeOK, ChannelInv, SeenInv, TimeInv, HermesLeft,
              SetupLeft, Timeout
<1> QED BY <1>1, SetupStep, HermesStep, BlockStep, TickStep DEF Next

LEMMA Invariant == Spec => []IInv
<1>1. Init => IInv BY InitIInv
<1>2. IInv /\ [Next]_vars => IInv' BY Inductive
<1> QED BY <1>1, <1>2, PTL DEF Spec

(***************************************************************************)
(* The states of setup() and of the container have the types of their       *)
(* declarations, and neither oversleeps nor polls past its timeout.         *)
(***************************************************************************)
THEOREM TypeCorrect == Spec => []TypeOK
BY Invariant, PTL DEF IInv

(***************************************************************************)
(* setup() (setup.ts) that returns with no NO_WAIT_ variable set leaves      *)
(* hermes relaying over a channel open on both ends, unless the container    *)
(* died, for all durations with ConfirmDelay + HermesSleep + BootDelay less  *)
(* than the three sleeps.                                                    *)
(***************************************************************************)
THEOREM Relaying == Spec => []RelayerReady
<1>1. ASSUME IInv PROVE RelayerReady
  <2> USE DEF IInv
  <2> SUFFICES ASSUME pc = "done", flags = {}, hermes # "dead"
               PROVE  hermes = "started" /\ \A h \in Host : channel[h] = "OPEN"
    BY <1>1 DEF RelayerReady
  <2>1. channel[1] = "OPEN"
    BY <1>1 DEF SeenInv, PastChannel1
  <2>2. hermes \in Busy \union {"started"}
    BY <1>1, <2>1 DEF ChannelInv
  <2>3. hermes \notin Busy
    <3> SUFFICES ASSUME hermes \in Busy PROVE FALSE
      OBVIOUS
    <3>1. HermesLeft < SetupLeft /\ SetupLeft = 0
      BY <1>1, SetupSleepsIs DEF TimeInv, SetupLeft, PastChannel1
    <3>2. HermesLeft \in Int /\ HermesLeft >= 0
      BY <1>1, NaturalTimes, HermesNeedsIs DEF HermesLeft, TimeInv, TypeOK, Busy
    <3> QED BY <3>1, <3>2
  <2>4. hermes = "started" /\ channel[2] = "OPEN"
    BY <1>1, <2>2, <2>3 DEF ChannelInv
  <2> QED BY <2>1, <2>4 DEF Host
<1> QED BY <1>1, Invariant, PTL

(***************************************************************************)
(* Whatever the flags, what setup() (setup.ts) waited for on Neutron is      *)
(* there when it returns: the block, and the channel over connection-0.      *)
(***************************************************************************)
THEOREM ChannelOpened == Spec => []ChannelReady
<1>1. IInv => ChannelReady
  BY DEF IInv, ChannelReady, ChannelInv, SeenInv, PastChannel1
<1> QED BY <1>1, Invariant, PTL
===============================================================================
