------------------------------ MODULE MCParts -------------------------------
(* Instance for TLC of the parts that share no state: the counter          *)
(* (BinCount), the GPIO monitor, JsonList and JsonText.  One run explores  *)
(* one of them at a time, while the others have not begun: interleaving    *)
(* them would say nothing more than the parts.                             *)
EXTENDS BinCount, GpioMonitor, JsonList, JsonText

Num(s) == Leaf(Literal(s, 2))
Str(s, w) == Leaf(Quoted(s, w))
A == Quoted("a", 3)
B == Quoted("b", 3)

MCTrees ==
    { Num("1"), Str("x", 3), Str("big", 590),
      Tree("array", <<>>), Tree("object", <<>>),
      Tree("array", <<Num("1"), Tree("array", <<Str("x", 3)>>), Num("2")>>),
      Tree("array", <<Tree("array", <<Tree("array", <<Tree("array", <<>>)>>)>>)>>),
      Tree("array", <<Str("big", 400), Str("big", 400)>>),
      Object(<< <<A, Num("1")>>, <<B, Tree("object", <<>>)>> >>),
      Object(<< <<B, Tree("object", <<>>)>>, <<A, Num("1")>> >>),
      Object(<< <<A, Num("1")>> >>),
      Object(<< <<A, Num("1")>>, <<A, Num("2")>> >>),
      DefaultConfig, assemble_binlift_message }

\* An initial state of the counter and one of the monitor stand for all while
\* another part is explored.
CounterAtRest == up = FALSE /\ bincount = 0 /\ file = NoFile /\ failed = {}
MonitorAtRest ==
    /\ mon = "off" /\ edges = 0
    /\ \A p \in Ports : /\ input[p] = 0 /\ enable[p] = 1
                        /\ info[p] = [changed |-> FALSE, rising |-> 0]
ListAtRest == heap = [n \in Nodes |-> FreeItem]
TextAtRest == stage = "idle"

PartsInit ==
    /\ Init /\ MonitorInit /\ ListInit /\ TextInit
    /\ CounterAtRest \/ MonitorAtRest

PartsNext ==
    \/ /\ MonitorAtRest /\ ListAtRest /\ TextAtRest
       /\ Next /\ UNCHANGED <<monitorVars, listVars, textVars>>
    \/ /\ CounterAtRest /\ ListAtRest /\ TextAtRest
       /\ MonitorNext /\ UNCHANGED <<vars, listVars, textVars>>
    \/ /\ CounterAtRest /\ MonitorAtRest /\ TextAtRest
       /\ ListNext /\ UNCHANGED <<vars, monitorVars, textVars>>
    \/ /\ CounterAtRest /\ MonitorAtRest /\ ListAtRest
       /\ TextNext /\ UNCHANGED <<vars, monitorVars, listVars>>

PartsSpec ==
    PartsInit /\ [][PartsNext]_<<vars, monitorVars, listVars, textVars>>

=============================================================================
