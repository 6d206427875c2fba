---------------------------- MODULE GpioMonitor -----------------------------
(***************************************************************************)
(* sg-gpio-monitor.c and the decisions gpio_change_callback makes from its *)
(* GPIOChangeInfo.  The monitor thread samples the inputs every 5 ms,      *)
(* compares them with the previous sample, fills in info for the inputs    *)
(* that changed and runs the callback; it samples nothing until the        *)
(* callback has returned.                                                  *)
(*                                                                         *)
(* info is a local variable of the loop's body that is never initialised;  *)
(* a sample fills in only the inputs that changed and the loop resets      *)
(* changed after the callback.  It keeps its place on the stack from one   *)
(* round to the next, so what the other fields hold in the first round is  *)
(* any value.  What the callback does with a lift is BinCount; here a lift *)
(* is counted.  Only the two inputs the callback looks at and one it does  *)
(* not are kept of the seven.                                              *)
(***************************************************************************)
EXTENDS Integers

CONSTANTS EnableLevels,  \* values of gpio_bias[].enable: a subset of {0, 1}
          Hold,          \* TRUE: a level lasts until the monitor has sampled it
          MaxEdges       \* bound on active bin-lift edges

ASSUME GpioAssumption ==
    /\ EnableLevels \subseteq {0, 1}
    /\ Hold \in BOOLEAN
    /\ MaxEdges \in Nat

Ports == {"binlift", "reverse", "other"}

NoReverse == 2         \* no reverse message sent yet

VARIABLES input,    \* the levels in the STM's shared memory
          enable,   \* gpio_bias[].enable: the level that means "active"
          mon,      \* monitor: "off", "loop", or in the callback's two halves
          last,     \* last_input_state
          cur,      \* current_state
          info,     \* the change record passed to the callback
          leftover, \* history: a changed set by nobody was in info at the
                    \* start: "none", "there", or since reset ("gone")
          seen,     \* inputs sampled since they last changed
          counted,  \* lifts the callback has counted
          edges,    \* history: active edges of the bin-lift input
          reverse   \* the last {REVERSE=x;} broadcast

monitorVars == <<input, enable, mon, last, cur, info, leftover, seen, counted, edges, reverse>>

Level  == {0, 1}
Levels == [Ports -> Level]
Change == [changed : BOOLEAN, rising : Level]

MonitorTypeOK ==
    /\ input \in Levels
    /\ enable \in Levels
    /\ mon \in {"off", "loop", "lift", "reverse"}
    /\ last \in Levels
    /\ cur \in Levels
    /\ info \in [Ports -> Change]
    /\ leftover \in {"none", "there", "gone"}
    /\ seen \subseteq Ports
    /\ counted \in Nat
    /\ edges \in 0 .. MaxEdges
    /\ reverse \in Level \cup {NoReverse}

MonitorInit ==
    /\ input \in Levels
    /\ enable \in [Ports -> EnableLevels]
    /\ mon = "off"
    /\ last = [p \in Ports |-> 0]
    /\ cur = [p \in Ports |-> 0]
    /\ info \in [Ports -> Change]
    /\ leftover = IF \E p \in Ports : info[p].changed THEN "there" ELSE "none"
    /\ seen = {}
    /\ counted = 0
    /\ edges = 0
    /\ reverse = NoReverse

-----------------------------------------------------------------------------
\* The world: an input changes its level.
Toggle(p) ==
    LET level == 1 - input[p]
        edge  == mon # "off" /\ p = "binlift" /\ level = enable[p]
    IN  /\ edge => edges < MaxEdges
        /\ Hold /\ mon # "off" => p \in seen
        /\ input' = [input EXCEPT ![p] = level]
        /\ seen' = seen \ {p}
        /\ edges' = IF edge THEN edges + 1 ELSE edges
        /\ UNCHANGED <<enable, mon, last, cur, info, leftover, counted, reverse>>

\* The thread starts and reads the initial levels.
Start ==
    /\ mon = "off"
    /\ mon' = "loop"
    /\ last' = input
    /\ seen' = Ports
    /\ UNCHANGED <<input, enable, cur, info, leftover, counted, edges, reverse>>

Changed == {p \in Ports : last[p] # input[p]}

\* Sampling, and the info passed to the callback.
Sample ==
    /\ mon = "loop"
    /\ Changed # {}
    /\ cur' = input
    /\ seen' = Ports
    /\ info' = [p \in Ports |-> IF p \in Changed
                               THEN [changed |-> TRUE, rising |-> input[p]]
                               ELSE info[p]]
    /\ mon' = "lift"
    /\ UNCHANGED <<input, enable, last, leftover, counted, edges, reverse>>

\* A sample without a change.
SampleSame ==
    /\ mon = "loop"
    /\ Changed = {}
    /\ seen' = Ports
    /\ UNCHANGED <<input, enable, mon, last, cur, info, leftover, counted, edges, reverse>>

\* gpio_change_callback, first half.
LiftBranch ==
    /\ mon = "lift"
    /\ mon' = "reverse"
    /\ counted' = IF info["binlift"].changed
                       /\ info["binlift"].rising = enable["binlift"]
                  THEN counted + 1 ELSE counted
    /\ UNCHANGED <<input, enable, last, cur, info, leftover, seen, edges, reverse>>

\* assemble_reverse_message(str, state): state && gpio_bias[2].enable
assemble_reverse_message(state) ==
    IF state /\ enable["reverse"] = 1 THEN 1 ELSE 0

\* What is broadcast if info reports a change of the reverse input.
ReverseMessage ==
    IF info["reverse"].changed
    THEN assemble_reverse_message(info["reverse"].rising = enable["reverse"])
    ELSE reverse

\* The loop over info after the callback.
ChangesReset == [p \in Ports |-> [changed |-> FALSE, rising |-> info[p].rising]]

\* Fault: last_input_state is taken from the inputs after the callback.
ReverseRereads ==
    /\ mon = "reverse"
    /\ mon' = "loop"
    /\ reverse' = ReverseMessage
    /\ info' = ChangesReset
    /\ leftover' = IF leftover = "there" THEN "gone" ELSE leftover
    /\ last' = input
    /\ UNCHANGED <<input, enable, cur, seen, counted, edges>>

\* Fault: info is not reset after the callback.
ReverseKeepsInfo ==
    /\ mon = "reverse"
    /\ mon' = "loop"
    /\ reverse' = ReverseMessage
    /\ last' = cur
    /\ UNCHANGED <<input, enable, cur, info, seen, leftover, counted, edges>>

\* gpio_change_callback, second half; then changed is reset and
\* last_input_state = current_state.
ReverseBranch ==
    /\ mon = "reverse"
    /\ mon' = "loop"
    /\ reverse' = ReverseMessage
    /\ info' = ChangesReset
    /\ leftover' = IF leftover = "there" THEN "gone" ELSE leftover
    /\ last' = cur
    /\ UNCHANGED <<input, enable, cur, seen, counted, edges>>

MonitorNext ==
    \/ \E p \in Ports : Toggle(p)
    \/ Start
    \/ Sample
    \/ SampleSame
    \/ LiftBranch
    \/ ReverseBranch

MonitorSpec == MonitorInit /\ [][MonitorNext]_monitorVars

-----------------------------------------------------------------------------
(* Properties                                                              *)

Active(levels, p) == levels[p] = enable[p]

\* Active edges not counted yet: the one in info while the callback has not
\* got to it, and the one after the last sample.
Sampled     == IF mon \in {"lift", "reverse"} THEN cur ELSE last
Unprocessed == IF mon = "lift" /\ Active(cur, "binlift") /\ ~Active(last, "binlift")
               THEN 1 ELSE 0
Unsampled   == IF Active(input, "binlift") /\ ~Active(Sampled, "binlift")
               THEN 1 ELSE 0

Excess == counted + Unprocessed + Unsampled - edges

\* Every bin lift is counted exactly once, also when the input changes again
\* while the callback runs, provided a level lasts until it is sampled (Hold).
\* What the uninitialised info adds to that is at most one lift that never
\* was, in the first callback.
EveryLiftCounted ==
    mon # "off" => Excess \in IF leftover = "none" THEN {0} ELSE {0, 1}

\* The inductive invariant behind it: once what the stack held is gone info
\* says how the two last samples differ and is reset between samples, and a
\* level that was sampled is the one the input still has.
InfoInv ==
    /\ mon = "lift" /\ last["binlift"] # cur["binlift"] =>
          info["binlift"].changed /\ info["binlift"].rising = cur["binlift"]
    /\ leftover # "there" /\ mon = "lift" /\ info["binlift"].changed =>
          last["binlift"] # cur["binlift"]
    /\ leftover # "there" /\ mon \in {"off", "loop"} => ~info["binlift"].changed
    /\ leftover = "there" /\ mon \in {"loop", "lift"} => Excess = 0
    /\ mon # "off" => \A p \in seen : input[p] = Sampled[p]
    /\ mon = "off" => counted = 0 /\ edges = 0

MonitorInv == MonitorTypeOK /\ InfoInv /\ EveryLiftCounted

\* "Send bin lift json and reverse messages when triggered" (sg-comm.c:300):
\* the last reverse message says whether the reverse input was active when it
\* was last sampled.  assemble_reverse_message makes that so for active-high
\* inputs only.
ReverseFollowsInput ==
    leftover = "none" /\ enable["reverse"] = 1 /\ mon = "loop" /\ reverse # NoReverse =>
        (reverse = 1 <=> Active(last, "reverse"))

=============================================================================
