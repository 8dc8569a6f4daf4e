------------------------------ MODULE FecLink ------------------------------
(***************************************************************************)
(* The relay's FEC leg (udpspeeder_fec.py) and how the client keeps it to  *)
(* what it wants (sbfd_ctl.py): POST /fec asserted until acknowledged and  *)
(* repeated as a heartbeat; on the relay one handler thread per POST, which*)
(* takes the lock three times, and the control loop, which reads three     *)
(* times a tick.                                                           *)
(*                                                                         *)
(* The network loses a POST, its answer, or delays a POST past the client's*)
(* patience, so that it arrives after a later one; a connection that fails *)
(* in a pooled call is retried, so that a POST may arrive twice.  Either   *)
(* daemon may restart.  A unit of time is the heartbeat, long enough for a *)
(* due POST, a handler and a tick of the relay's loop to end in it.        *)
(***************************************************************************)
EXTENDS FecControl

CONSTANTS
  Settings,    \* what the client may want of the relay
  First,       \* what it wants at first
  Known,       \* FecState.profile_names
  Tables,      \* loss_table of each profile
  UpTicks, DownHold, SignalFloor, \* ramp_up_ticks, ramp_down_hold_s, signal_floor_fec
  ClientTables,\* the client's own loss_table of each profile
  StaleAfter,  \* pushed_loss_stale_after_s
  Slowest,     \* no less than any of these times
  LocalLosses, \* the worst loss of the relay's own sbfd, or Unset
  Calls,       \* bound: POSTs in the network or in a handler at once
  MaxChanges,  \* bound: changes of what the client wants
  MaxFaults,   \* bound: POSTs lost, delayed or retried, and FIFO writes refused
  MaxRestarts  \* bound: restarts of either daemon

(***************************************************************************)
(* A setting is a POST's payload: the policy, the pushed loss and the      *)
(* pushed link.  A client of an older build sends no place: Unset.         *)
(***************************************************************************)
Setting ==
  [policy : [mode : FecModes, fixed : Int, floor : Int], loss : Nat,
   link : [profile : STRING, signal : BOOLEAN, place : Nat \cup {Unset}]]
NoCall == "none"
ASSUME SettingAssumption ==
  /\ First \in Settings /\ "default" \in Known /\ Known \subseteq DOMAIN Tables
  /\ \A s \in Settings : s \in Setting /\ s.link.profile \in DOMAIN Tables
  /\ DOMAIN ClientTables = DOMAIN Tables
  /\ \A p \in DOMAIN Tables : IsTable(Tables[p]) /\ IsTable(ClientTables[p])
  /\ LocalLosses \subseteq Nat \cup {Unset} /\ NoCall \notin Calls
ASSUME NumberAssumption ==
  /\ {UpTicks, DownHold} \subseteq [DOMAIN Tables -> 1 .. Slowest]
  /\ SignalFloor \in [DOMAIN Tables -> Int]
  /\ StaleAfter \in 1 .. Slowest /\ Slowest \in Nat
  /\ {MaxChanges, MaxFaults, MaxRestarts} \subseteq Nat

VARIABLES
  running,  \* the client's controller runs
  desired,  \* relay_desired
  acked,    \* fec_relay_last_acked: none, or the set of the one setting
  due,      \* should_post_fec: no POST yet, or none for heartbeat_s
  waiting,  \* the call the client waits for, or NoCall
  calls,    \* each call's setting, and where it is
  fec,      \* the relay's FecState
  loop,     \* the relay's control loop: its next step, and what this tick has read
  relayRt,  \* its FecRuntime, on the table of the profile `last`
  last,     \* last_profile
  relayRatio, \* current_ratio
  budget,   \* what is left of the bounds
  ticked,   \* the relay's loop has ticked in this unit of time
  \* History: the call awaited, and the one last acknowledged, have been alone
  \* in changing the relay since they were made; the units of time since anything
  \* but what is wanted last changed anything, up to FollowTime.
  alone, steady

client   == <<running, desired, acked, due, waiting>>
relay    == <<fec, loop, relayRt, last, relayRatio>>
pace     == <<ticked, budget, steady>>
linkVars == <<client, calls, relay, alone, pace>>

\* A heartbeat falls due, its POST is handled, the level steps and is written.
FollowTime == Slowest + 3

Idle   == [at |-> "idle", setting |-> First]
NoLink == [profile |-> "default", signal |-> FALSE, place |-> 0]

\* fec_state_from_cfg
BootPolicy == [mode |-> "min_adaptive", fixed |-> DefaultRatio, floor |-> DefaultRatio]
BootState  == [policy |-> BootPolicy, loss |-> Unset, lossAge |-> 0,
               link |-> NoLink, linkAge |-> StaleAfter + 1]
NewTick    == [at |-> "desired", policy |-> BootPolicy, loss |-> Unset]

LinkInit ==
  /\ running = TRUE /\ desired = First /\ acked = {} /\ due = TRUE /\ waiting = NoCall
  /\ calls = [c \in Calls |-> Idle]
  /\ fec = BootState /\ loop = NewTick /\ relayRt = Runtime(0, 0, 0)
  /\ last = "default" /\ relayRatio = Unset
  /\ budget = [changes |-> MaxChanges, faults |-> MaxFaults, restarts |-> MaxRestarts]
  /\ alone = [call |-> FALSE, ack |-> FALSE] /\ ticked = FALSE /\ steady = 0

Spends(what) ==
  /\ budget[what] > 0 /\ budget' = [budget EXCEPT ![what] = @ - 1]
  /\ steady' = 0

----------------------------------------------------------------------------
(* The client *)

\* The operator, the links, the radio and the place: a tick computes it anew.
Wants ==
  /\ Spends("changes")
  /\ desired' \in Settings \ {desired}
  /\ UNCHANGED <<running, acked, due, waiting, calls, relay, alone, ticked>>

\* relay_desired: what is compared has the loss as a level of the client's table.
Compared(s) ==
  [s EXCEPT !.loss = LossToLevel(@, ClientTables[s.link.profile])]

\* Faulty variant: no heartbeat once acknowledged.
ShouldPostOnce == {Compared(s) : s \in acked} # {Compared(desired)}

ShouldPost == {Compared(s) : s \in acked} # {Compared(desired)} \/ due

SendAs(c, setting) ==
  /\ calls[c] = Idle
  /\ calls' = [calls EXCEPT ![c] = [at |-> "net", setting |-> setting]]
  /\ waiting' = c

Post(c) ==
  /\ running /\ waiting = NoCall /\ ShouldPost
  /\ SendAs(c, desired)
  /\ due' = FALSE
  /\ alone' = [alone EXCEPT !.call = TRUE]
  /\ UNCHANGED <<running, desired, acked, relay, pace>>

\* The pooled connection failed under the call: once more, on a fresh one.
Retry(c) ==
  /\ waiting # NoCall /\ calls[waiting].at = "net" /\ Spends("faults")
  /\ SendAs(c, calls[waiting].setting)
  /\ UNCHANGED <<running, desired, acked, due, relay, alone, ticked>>

\* Faulty variant: any response counts as an acknowledgement.
HearAny(c) ==
  /\ waiting = c /\ calls[c].at \in {"answered", "refused"}
  /\ waiting' = NoCall /\ calls' = [calls EXCEPT ![c] = Idle]
  /\ acked' = {calls[c].setting} /\ alone' = [alone EXCEPT !.ack = alone.call]
  /\ UNCHANGED <<running, desired, due, relay, pace>>

Hear(c) ==
  /\ waiting = c /\ calls[c].at \in {"answered", "refused"}
  /\ waiting' = NoCall /\ calls' = [calls EXCEPT ![c] = Idle]
  /\ IF calls[c].at = "answered"
     THEN acked' = {calls[c].setting} /\ alone' = [alone EXCEPT !.ack = alone.call]
     ELSE UNCHANGED <<acked, alone>>
  /\ UNCHANGED <<running, desired, due, relay, pace>>

\* The timeout: a call not yet answered goes on without the client.
GiveUp ==
  /\ waiting # NoCall /\ Spends("faults")
  /\ waiting' = NoCall
  /\ calls' = IF calls[waiting].at \in {"answered", "refused"}
              THEN [calls EXCEPT ![waiting] = Idle] ELSE calls
  /\ UNCHANGED <<running, desired, acked, due, relay, alone, ticked>>

Stop ==
  /\ running /\ waiting = NoCall /\ Spends("restarts")
  /\ running' = FALSE
  /\ UNCHANGED <<desired, acked, due, waiting, calls, relay, alone, ticked>>

Start ==
  /\ ~running /\ running' = TRUE
  /\ acked' = {} /\ due' = TRUE /\ steady' = 0
  /\ UNCHANGED <<desired, waiting, calls, relay, budget, alone, ticked>>

----------------------------------------------------------------------------
(* The relay's handlers *)

Lose(c) ==
  /\ calls[c].at = "net" /\ Spends("faults")
  /\ calls' = [calls EXCEPT ![c] = Idle]
  /\ waiting' = IF waiting = c THEN NoCall ELSE waiting
  /\ UNCHANGED <<running, desired, acked, due, relay, alone, ticked>>

\* A handler's step to `at`; the last is answered, when there is who waits.
Moves(c, at) ==
  calls' = [calls EXCEPT ![c] = IF at \in {"answered", "refused"} /\ waiting # c
                                THEN Idle ELSE [@ EXCEPT !.at = at]]

\* The call c changes the relay.
Touch(c) ==
  /\ alone' = IF c = waiting THEN [alone EXCEPT !.ack = @ /\ acked = {calls[c].setting}]
              ELSE [call |-> FALSE, ack |-> FALSE]
  /\ steady' = IF c = waiting THEN steady ELSE 0
  /\ UNCHANGED <<client, loop, relayRt, last, relayRatio, budget, ticked>>

Accepted(setting) == setting.link.profile \in Known

\* Everything is resolved before anything is changed.
Refuse(c) ==
  /\ calls[c].at = "net" /\ ~Accepted(calls[c].setting)
  /\ Moves(c, "refused")
  /\ UNCHANGED <<client, relay, alone, pace>>

SetDesired(c) ==
  /\ calls[c].at = "net" /\ Accepted(calls[c].setting)
  /\ fec' = [fec EXCEPT !.policy = calls[c].setting.policy]
  /\ Moves(c, "loss") /\ Touch(c)

SetPushedLoss(c) ==
  /\ calls[c].at = "loss"
  /\ fec' = [fec EXCEPT !.loss = calls[c].setting.loss, !.lossAge = 0]
  /\ Moves(c, "link") /\ Touch(c)

\* A link without a place is a place that asks for nothing.
LinkOf(link) == [link EXCEPT !.place = IF @ = Unset THEN 0 ELSE @]

SetPushedLink(c) ==
  /\ calls[c].at = "link"
  /\ fec' = [fec EXCEPT !.link = LinkOf(calls[c].setting.link), !.linkAge = 0]
  /\ Moves(c, "answered") /\ Touch(c)

----------------------------------------------------------------------------
(* The relay's control loop *)

ReadDesired ==
  /\ loop.at = "desired"
  /\ loop' = [loop EXCEPT !.at = "loss", !.policy = fec.policy]
  /\ UNCHANGED <<client, calls, fec, relayRt, last, relayRatio, alone, pace>>

PushedLoss == IF fec.lossAge > StaleAfter THEN Unset ELSE fec.loss
PushedLink == IF fec.linkAge > StaleAfter THEN NoLink ELSE fec.link

ReadLoss ==
  /\ loop.at = "loss"
  /\ loop' = [loop EXCEPT !.at = "link", !.loss = PushedLoss]
  /\ UNCHANGED <<client, calls, fec, relayRt, last, relayRatio, alone, pace>>

\* Faulty variant: a change of profile keeps the level's index.
RebasedIndex(profile) == relayRt

Rebased(profile) ==
  IF profile = last THEN relayRt ELSE ReseedRuntime(relayRt, Tables[last], Tables[profile])

\* Without a sample the engine stays where it is.
Stepped(runtime, worst, profile) ==
  IF worst = Unset THEN runtime
  ELSE StepLevel(LossToLevel(worst, Tables[profile]), runtime,
                 UpTicks[profile], DownHold[profile])

Lifted(level, link, table) ==
  ApplyLocationFloor(
    ApplySignalFloor(level, link.signal, table, SignalFloor[link.profile]),
    link.place, table)

RatioFor(policy, level, link) ==
  ApplyMode(policy.mode, LevelToRatio(Lifted(level, link, Tables[link.profile]),
                                      Tables[link.profile]),
            SafeRatio(policy.fixed, DefaultRatio), SafeRatio(policy.floor, DefaultRatio))

\* The link is read, and run_once: the FIFO takes the write, or refuses it.
RunOnce ==
  /\ loop.at = "link" /\ loop' = NewTick
  /\ last' = PushedLink.profile
  /\ \E local \in LocalLosses :
       relayRt' = Stepped(Rebased(last'), IF loop.loss # Unset THEN loop.loss ELSE local,
                     last')
  /\ \E wanted \in {RatioFor(loop.policy, relayRt'.level, PushedLink)} :
       \/ relayRatio' = wanted /\ UNCHANGED <<budget, steady>>
       \/ relayRatio # wanted /\ UNCHANGED relayRatio /\ Spends("faults")
  /\ ticked' = TRUE
  /\ UNCHANGED <<client, calls, fec, alone>>

\* A restart forgets what was pushed and what was wanted, and breaks the calls.
RelayRestart ==
  /\ Spends("restarts")
  /\ fec' = BootState /\ loop' = NewTick /\ relayRt' = Runtime(0, 0, 0)
  /\ last' = "default" /\ relayRatio' = Unset
  /\ calls' = [c \in Calls |-> Idle] /\ waiting' = NoCall
  /\ alone' = [call |-> FALSE, ack |-> FALSE]
  /\ UNCHANGED <<running, desired, acked, due, ticked>>

\* A running client has posted its heartbeat, no handler takes that long, and
\* the loop has ticked.
Elapse ==
  /\ running => waiting = NoCall /\ ~(due /\ ShouldPost)
  /\ \A c \in Calls : calls[c].at \in {"idle", "net"}
  /\ ticked /\ ticked' = FALSE
  /\ steady' = Min({steady + 1, FollowTime})
  /\ due' = TRUE
  /\ fec' = [fec EXCEPT !.lossAge = Min({@ + 1, StaleAfter + 1}),
                        !.linkAge = Min({@ + 1, StaleAfter + 1})]
  /\ relayRt' = [relayRt EXCEPT !.since = Min({@ + 1, DownHold[last]})]
  /\ UNCHANGED <<running, desired, acked, waiting, calls, loop, last, relayRatio, budget, alone>>

----------------------------------------------------------------------------
Handle(c) == Refuse(c) \/ SetDesired(c) \/ SetPushedLoss(c) \/ SetPushedLink(c)
Loop == ReadDesired \/ ReadLoss \/ RunOnce

Exchange == \E c \in Calls : Post(c) \/ Hear(c) \/ Handle(c)

LinkNext ==
  \/ Wants \/ GiveUp \/ Stop \/ Start \/ Elapse \/ RelayRestart \/ Loop \/ Exchange
  \/ \E c \in Calls : Retry(c) \/ Lose(c)

LinkSpec == LinkInit /\ [][LinkNext]_linkVars
----------------------------------------------------------------------------
LinkTypeOK ==
  /\ running \in BOOLEAN /\ due \in BOOLEAN /\ desired \in Settings
  /\ \E s \in Settings : acked \in {{}, {s}}
  /\ waiting \in Calls \cup {NoCall}
  /\ calls \in [Calls -> [at : {"idle", "net", "loss", "link", "answered", "refused"},
                          setting : Settings]]
  /\ waiting # NoCall => calls[waiting] # Idle
  /\ fec.lossAge \in 0 .. StaleAfter + 1 /\ fec.linkAge \in 0 .. StaleAfter + 1
  /\ relayRt.level \in AllLevels(Tables[last]) /\ relayRt.streak < UpTicks[last]
  /\ relayRt.since \in 0 .. DownHold[last]
  /\ ticked \in BOOLEAN /\ steady \in 0 .. FollowTime
  /\ last \in Known /\ relayRatio \in Nat \cup {Unset}

\* What the relay was told, in the parts it is kept.
Told(s) == fec.policy = s.policy /\ fec.loss = s.loss /\ fec.link = LinkOf(s.link)

\* An acknowledgement means the relay holds the whole setting, unless another
\* POST has reached it, or it has restarted, since that one was made.
AckedMeansApplied == alone.ack => \A s \in acked : Told(s)

\* After any losses, delays, duplicates and restarts the relay does what is wanted,
\* within FollowTime heartbeats, whatever was acknowledged before; of a client that
\* has been gone that long it uses nothing that was pushed.
WantedRatio(s) ==
  RatioFor(s.policy, LossToLevel(s.loss, Tables[s.link.profile]), LinkOf(s.link))
FollowsInTime ==
  steady = FollowTime =>
    IF running THEN Accepted(desired) => Told(desired) /\ relayRatio = WantedRatio(desired)
    ELSE PushedLoss = Unset /\ PushedLink = NoLink
============================================================================
