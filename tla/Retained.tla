------------------------------ MODULE Retained ------------------------------
(***************************************************************************)
(* What the program keeps over a restart, and where: it has no disk, its   *)
(* knobs, kill switch and bookkeeping live as retained messages on the     *)
(* MQTT broker (SPEC.md 166).  Modelled are the bootstrap that reads them  *)
(* back (Subscriber::run), the commands of users, the publishes they cause *)
(* (apply_command), the one publication of all knobs 3 s after boot        *)
(* (main.rs), the queue between program and broker, and restarts.          *)
(*                                                                         *)
(* Four topics stand for all: a numeric knob, allow_battery_to_car,        *)
(* writes_enabled and schedule.full-charge.next.  Subscriptions, publishes *)
(* and retained messages share one connection and stay in order.           *)
(***************************************************************************)
EXTENDS Sequences, Naturals, FiniteSets

CONSTANTS
  MaxEdits,     \* bound: commands of users
  MaxRestarts,  \* bound: restarts
  MaxFaults     \* bound: bootstraps cut short and publishes given up

Topics == {"knob", "allow", "writes", "next"}
\* What a restart should bring back; allow is reset on purpose.
Kept == Topics \ {"allow"}

\* knob: "Wild" is out of knob_range.  next: "Cleared" is None.
Payloads == [knob |-> {"Safe", "User", "Wild"}, allow |-> {"off", "on"},
           writes |-> {"off", "on"}, next |-> {"Cleared", "Seeded", "Chosen"}]

\* Knobs::safe_defaults and an empty bookkeeping.
Defaults == [knob |-> "Safe", allow |-> "off", writes |-> "off", next |-> "Cleared"]

Absent == "Absent"

VARIABLES
  world,       \* the core's value of each topic
  retained,    \* the broker's retained message of each topic, or Absent
  phase,       \* "Connecting", "Window", "Live", "Announced"
  inbound,     \* topics and values the broker has sent and we not decoded
  heard,       \* topics of which a message was taken in this window
  queue,       \* events in the runtime's channel
  publishing,  \* what the initial publication has still to publish
  wire,        \* publishes in the client's request queue
  edits, restarts, faults,
  wish,        \* history: what users last had the core accept; allow: since boot
  spoiled      \* history: topics whose wish fell into a known gap (below)

counters == <<edits, restarts, faults>>
retainedVars == <<world, retained, phase, inbound, heard, queue, publishing, wire,
          counters, wish, spoiled>>

Message(t, v, by) == [topic |-> t, value |-> v, by |-> by]
AnyPayload == UNION {Payloads[t] : t \in Topics}
Messages ==
  {m \in [topic : Topics, value : AnyPayload,
          by : {"System", "User", "Core", "Initial"}] :
     m.value \in Payloads[m.topic]}

\* AllowBatteryToCar = false, queued before and after the bootstrap.
Reset == Message("allow", "off", "System")

Live == phase \in {"Live", "Announced"}

\* A retained value can still arrive for topic t.
Awaited(t) ==
  \/ ~ Live
  \/ \E i \in DOMAIN queue : queue[i].topic = t /\ queue[i].by = "System"

-----------------------------------------------------------------------------
(* The bootstrap: Subscriber::run.                                         *)

\* The broker answers a subscription with what it retains.
Answer(t) ==
  IF retained[t] = Absent THEN <<>> ELSE <<Message(t, retained[t], "System")>>

\* Variant: writes_enabled is subscribed to first.
SubscribedWritesFirst ==
  Answer("writes") \o (Answer("knob") \o (Answer("allow") \o Answer("next")))

\* knob/+, writes_enabled, bookkeeping/+, in this order.
Subscribed ==
  Answer("knob") \o (Answer("allow") \o (Answer("writes") \o Answer("next")))

Subscribe ==
  /\ phase = "Connecting"
  /\ phase' = "Window"
  /\ inbound' = Subscribed
  /\ UNCHANGED <<world, retained, heard, queue, publishing, wire, counters,
                 wish, spoiled>>

\* parse_knob_value: a knob out of its range is dropped.
Decodes(msg) == msg.value # "Wild"

\* The first message of a topic counts, our own publishes included.
Deliver ==
  /\ phase = "Window" /\ inbound # <<>>
  /\ LET msg == Head(inbound)
     IN  /\ heard' = heard \union {msg.topic}
         /\ queue' = IF msg.topic \notin heard /\ Decodes(msg)
                     THEN Append(queue, [msg EXCEPT !.by = "System"])
                     ELSE queue
  /\ inbound' = Tail(inbound)
  /\ UNCHANGED <<world, retained, phase, publishing, wire, counters, wish, spoiled>>

\* Variant: the reset is sent before the bootstrap only.
LeaveNoReset ==
  /\ phase' = "Live" /\ inbound' = <<>> /\ heard' = {}
  /\ UNCHANGED queue

\* After the window: reset, unsubscribe, go on with the /set topics.
Leave ==
  /\ phase' = "Live" /\ inbound' = <<>> /\ heard' = {}
  /\ queue' = Append(queue, Reset)

WindowEnds ==
  /\ phase = "Window" /\ inbound = <<>>
  /\ Leave
  /\ UNCHANGED <<world, retained, publishing, wire, counters, wish, spoiled>>

\* An error of the event loop (the broker refuses, or drops the connection)
\* ends the bootstrap for good; a broker slower than 2 s comes to the same.
WindowCut ==
  /\ ~ Live /\ faults < MaxFaults
  /\ Leave
  /\ faults' = faults + 1
  /\ spoiled' = spoiled \union (Topics \ heard)
  /\ UNCHANGED <<world, retained, publishing, wire, edits, restarts, wish>>

-----------------------------------------------------------------------------
(* The core and its publishes.                                             *)

\* Variant: the kill switch is published on its rising edge only.
PublishesOnEdge(msg) ==
  \/ msg.topic \in {"knob", "allow"} /\ world[msg.topic] # msg.value
  \/ msg.topic = "writes" /\ world.writes = "off" /\ msg.value = "on"
  \/ msg.topic = "next"

\* apply_command: a knob is published when it changes, the kill switch and the
\* bookkeeping always.
Publishes(msg) ==
  msg.topic \in {"knob", "allow"} => world[msg.topic] # msg.value

\* The setpoint core, which runs in every event: with its sensors usable it
\* puts a date where there is none (update_bookkeeping_from_setpoint).
Seeds(w, usable) == usable /\ w.next = "Cleared"
Seeded(w, usable) == IF Seeds(w, usable) THEN [w EXCEPT !.next = "Seeded"] ELSE w
SeedOf(w, usable) ==
  IF Seeds(w, usable) THEN <<Message("next", "Seeded", "Core")>> ELSE <<>>

\* A command of a user falls into a gap: the retained value, or the initial
\* publication, comes after it; it changes nothing, after a bootstrap cut short,
\* and so is not published; or the next bootstrap will refuse it.
InGap(msg) ==
  \/ Awaited(msg.topic)
  \/ ~ Publishes(msg) /\ phase # "Announced"
  \/ \E i \in DOMAIN publishing : publishing[i].topic = msg.topic
  \/ ~ Decodes(msg)

\* The runtime takes a command, and dispatches what the cores publish; a
\* publish that takes more than a second is given up.  Only a command that is
\* published mends its topic: one that repeats the value in force repairs no
\* publish given up before.
Take(usable, sent) ==
  /\ queue # <<>>
  /\ sent \/ faults < MaxFaults
  /\ faults' = IF sent THEN faults ELSE faults + 1
  /\ LET msg == Head(queue)
         w == [world EXCEPT ![msg.topic] = msg.value]
         out == (IF Publishes(msg) THEN <<msg>> ELSE <<>>) \o SeedOf(w, usable)
     IN  /\ world' = Seeded(w, usable)
         /\ wire' = IF sent THEN wire \o out ELSE wire
         /\ wish' = IF msg.by = "User"
                    THEN [wish EXCEPT ![msg.topic] = msg.value] ELSE wish
         /\ spoiled' = IF ~ sent \/ (msg.by = "User" /\ InGap(msg))
                       THEN spoiled \union {msg.topic}
                       ELSE IF msg.by = "User" /\ Publishes(msg)
                       THEN spoiled \ {msg.topic}
                       ELSE spoiled
  /\ queue' = Tail(queue)
  /\ UNCHANGED <<retained, phase, inbound, heard, publishing, edits, restarts>>

\* Any other event, with the sensors usable.
SensorEvent ==
  /\ Seeds(world, TRUE)
  /\ world' = Seeded(world, TRUE)
  /\ wire' = wire \o SeedOf(world, TRUE)
  /\ UNCHANGED <<retained, phase, inbound, heard, queue, publishing, counters,
                 wish, spoiled>>

\* A command of the dashboard, at any time and with any value
\* (command_to_event).  Home Assistant's come once Live, in range.
UserSets(t, v) ==
  /\ edits < MaxEdits
  /\ t = "next" => v # "Seeded"
  /\ edits' = edits + 1
  /\ queue' = Append(queue, Message(t, v, "User"))
  /\ UNCHANGED <<world, retained, phase, inbound, heard, publishing, wire,
                 restarts, faults, wish, spoiled>>

-----------------------------------------------------------------------------
(* The initial publication: 3 s after boot, all knobs as they are at that  *)
(* moment, then one publish after another.  The window is over by then and *)
(* what it queued has been taken (main.rs: "3s is conservative").          *)

AnnounceDue == phase = "Live" /\ \A t \in Topics : ~ Awaited(t)

Announce ==
  /\ AnnounceDue
  /\ phase' = "Announced"
  /\ publishing' = <<Message("knob", world.knob, "Initial"),
                     Message("allow", world.allow, "Initial")>>
  /\ UNCHANGED <<world, retained, inbound, heard, queue, wire, counters, wish,
                 spoiled>>

PublishNext ==
  /\ publishing # <<>>
  /\ wire' = Append(wire, Head(publishing))
  /\ publishing' = Tail(publishing)
  /\ UNCHANGED <<world, retained, phase, inbound, heard, queue, counters, wish,
                 spoiled>>

-----------------------------------------------------------------------------
(* The broker and the process.                                             *)

\* While subscribed to the state topics we hear our own publishes.
HearsOwn == phase = "Window"

BrokerTakes ==
  /\ wire # <<>> /\ phase # "Connecting"
  /\ LET msg == Head(wire)
     IN  /\ retained' = [retained EXCEPT ![msg.topic] = msg.value]
         /\ inbound' = IF HearsOwn THEN Append(inbound, msg) ELSE inbound
  /\ wire' = Tail(wire)
  /\ UNCHANGED <<world, phase, heard, queue, publishing, counters, wish, spoiled>>

\* What a restart loses of topic t: a publish still on its way; and a date
\* chosen, when the core seeded one before the retained date was in.
LostByRestart(t) ==
  \/ \E i \in DOMAIN wire : wire[i].topic = t /\ wire[i].value # retained[t]
  \/ t = "next" /\ Awaited(t)

Restart ==
  /\ restarts < MaxRestarts
  /\ restarts' = restarts + 1
  /\ world' = Defaults /\ phase' = "Connecting"
  /\ queue' = <<Reset>>
  /\ inbound' = <<>> /\ heard' = {} /\ publishing' = <<>> /\ wire' = <<>>
  /\ spoiled' = spoiled \union {t \in Topics : LostByRestart(t)}
  /\ wish' = [wish EXCEPT !.allow = Absent]
  /\ UNCHANGED <<retained, edits, faults>>

-----------------------------------------------------------------------------
\* A first boot, from an empty broker or from one a former life wrote.
RetainedInit ==
  /\ world = Defaults /\ phase = "Connecting" /\ queue = <<Reset>>
  /\ retained \in
       {[knob |-> "User", allow |-> a, writes |-> "on", next |-> "Chosen"] :
          a \in {"off", "on"}} \union {[t \in Topics |-> Absent]}
  /\ wish = [retained EXCEPT !.allow = Absent]
  /\ inbound = <<>> /\ heard = {} /\ publishing = <<>> /\ wire = <<>>
  /\ edits = 0 /\ restarts = 0 /\ faults = 0
  /\ spoiled = {}

RetainedNext ==
  \/ Subscribe \/ Deliver \/ WindowEnds \/ WindowCut
  \/ \E usable, sent \in BOOLEAN : Take(usable, sent)
  \/ SensorEvent
  \/ \E t \in Topics : \E v \in Payloads[t] : UserSets(t, v)
  \/ Announce \/ PublishNext \/ BrokerTakes
  \/ Restart

RetainedSpec == RetainedInit /\ [][RetainedNext]_retainedVars

-----------------------------------------------------------------------------
(* Properties.                                                             *)

RetainedTypeOK ==
  /\ world \in [Topics -> AnyPayload] /\ \A t \in Topics : world[t] \in Payloads[t]
  /\ \A f \in {retained, wish} :
       /\ f \in [Topics -> AnyPayload \union {Absent}]
       /\ \A t \in Topics : f[t] \in Payloads[t] \union {Absent}
  /\ phase \in {"Connecting", "Window", "Live", "Announced"}
  /\ phase # "Window" => inbound = <<>>
  /\ heard \subseteq Topics /\ spoiled \subseteq Topics
  /\ \A s \in {inbound, queue, publishing, wire} : s \in Seq(Messages)

\* What users set, over restarts, is in force once the program has booted: the
\* knob, the kill switch and the date of the next full charge (SPEC.md 166-168,
\* mqtt/mod.rs 543-550) - but for the edits that fell into one of the gaps
\* InGap, WindowCut and LostByRestart name.  A date cleared is seeded again.
WishInForce ==
  \A t \in Kept :
    wish[t] \notin {Absent, "Cleared"} /\ t \notin spoiled /\ ~ Awaited(t)
      => world[t] = wish[t]

\* The retained kill switch never lets the controllers write on default knobs:
\* it comes on with the retained knobs already taken (the order of state_topics).
SwitchedOnByRetained ==
  /\ queue # <<>> /\ queue' = Tail(queue)
  /\ Head(queue) = Message("writes", "on", "System")

WritesAwaitKnobs ==
  [][SwitchedOnByRetained /\ "knob" \notin spoiled
       => wish.knob \in {Absent, world.knob}]_retainedVars

\* allow_battery_to_car is on in a booted program only when a user has set it
\* since the boot, whatever is retained and however the bootstrap ended
\* (SPEC.md 317, mqtt/mod.rs 568-579, 657-668).
BatteryKeptFromCar ==
  world.allow = "on" /\ ~ Awaited("allow") => wish.allow = "on"

\* The initial publication changes no retained value: it is "round-trip-stable
\* when the value already matched retained, or fresh-write when only the
\* safe_default existed in the controller" (main.rs 301-303).
RoundTripStable ==
  [][wire # <<>> /\ Head(wire).by = "Initial" /\ wire' = Tail(wire)
       => LET t == Head(wire).topic
          IN  phase' = "Connecting" \/ retained[t] \in {Absent, retained'[t]}]_retainedVars
=============================================================================
