----------------------------- MODULE ModulesProofs -----------------------------
(* Proofs about Modules, for any import graph, any number of strands, of loads *)
(* and of imports: what the recorded edges say, which refusals and which waits *)
(* there can be, and that without a circle somebody can always go on.          *)
EXTENDS Modules, Integers, FiniteSetTheorems, WellFoundedInduction, TLAPS

Made(e) == entry[e] # NoEntry

\* Code runs in modules whose load was begun, and the load a frame leads is in
\* flight; the first frame of a strand leads none.
FrameOf(s) ==
  \A i \in 1..Len(stack[s]) :
    /\ stack[s][i].env # NoLoad => Made(stack[s][i].env)
    /\ stack[s][i].leads => i > 1 /\ stack[s][i].env # NoLoad /\ InFlight(stack[s][i].env)
FramesHeld == \A s \in Strands : FrameOf(s)

\* No load has two leaders.
OneLeader ==
  \A s, t \in Strands : \A i \in 1..Len(stack[s]) : \A j \in 1..Len(stack[t]) :
    stack[s][i].leads /\ stack[t][j].leads /\ stack[s][i].env = stack[t][j].env => s = t /\ i = j

\* Who waits runs code, and waits for a load that was begun.
WaiterOf(s) ==
  /\ s \in unborn => stack[s] = <<>> /\ parked[s] = NoLoad
  /\ parked[s] # NoLoad => stack[s] # <<>> /\ Made(parked[s])
Waiters == \A s \in Strands : WaiterOf(s)

EdgesMade == \A e \in Loads : \A d \in entry[e].waitsFor : d \in Loads /\ Made(d)

Base == TypeOK /\ FramesHeld /\ OneLeader /\ Waiters /\ EdgesMade

\* The chain of a load holds modules whose imports lead to it.
ChainsReach ==
  \A e \in Loads : \A x \in entry[e].chain : x = entry[e].module \/ Reaches(x, entry[e].module)

\* A load waits for what its module names.
EdgesImport ==
  \A e \in Loads : InFlight(e) =>
    \A d \in entry[e].waitsFor : entry[d].module \in graph[entry[e].module]

\* The recorded waits form no circle: of any loads in flight, one waits for none
\* of them.
Acyclic ==
  \A S \in SUBSET Loads :
    S # {} /\ (\A e \in S : InFlight(e)) => \E e \in S : entry[e].waitsFor \cap S = {}

-----------------------------------------------------------------------------
(* Stacks.                                                                    *)

LEMMA PushOf ==
  ASSUME TypeOK, NEW s \in Strands, NEW f \in Frames, stack' = [stack EXCEPT ![s] = Append(@, f)]
  PROVE  /\ stack' \in [Strands -> Seq(Frames)] /\ stack'[s] # <<>>
         /\ Len(stack[s]) \in Nat /\ Len(stack'[s]) = Len(stack[s]) + 1
         /\ \A i \in 1..Len(stack[s]) : stack'[s][i] = stack[s][i]
         /\ stack'[s][Len(stack[s]) + 1] = f
         /\ \A t \in Strands \ {s} : stack'[t] = stack[t]
<1>1. stack \in [Strands -> Seq(Frames)] /\ stack[s] \in Seq(Frames)
  BY DEF TypeOK
<1>2. stack'[s] = Append(stack[s], f) /\ \A t \in Strands \ {s} : stack'[t] = stack[t]
  BY <1>1
<1>3. Append(stack[s], f) \in Seq(Frames)
  BY <1>1
<1>4. stack' \in [Strands -> Seq(Frames)]
  BY <1>1, <1>3
<1>5. /\ Len(stack[s]) \in Nat /\ Len(Append(stack[s], f)) = Len(stack[s]) + 1
      /\ \A i \in 1..Len(stack[s]) : Append(stack[s], f)[i] = stack[s][i]
      /\ Append(stack[s], f)[Len(stack[s]) + 1] = f /\ Append(stack[s], f) # <<>>
  BY <1>1
<1> QED
  BY <1>2, <1>4, <1>5

LEMMA PopOf ==
  ASSUME TypeOK, NEW s \in Strands, stack[s] # <<>>, stack' = [stack EXCEPT ![s] = Pop(s)]
  PROVE  /\ stack' \in [Strands -> Seq(Frames)]
         /\ Len(stack[s]) \in Nat \ {0} /\ Len(stack'[s]) = Len(stack[s]) - 1
         /\ \A i \in 1..Len(stack'[s]) : i \in 1..Len(stack[s]) /\ stack'[s][i] = stack[s][i]
         /\ \A t \in Strands \ {s} : stack'[t] = stack[t]
<1>1. stack \in [Strands -> Seq(Frames)] /\ stack[s] \in Seq(Frames)
  BY DEF TypeOK
<1>2. Len(stack[s]) \in Nat \ {0}
  BY <1>1
<1>3. Pop(s) \in Seq(Frames) /\ Len(Pop(s)) = Len(stack[s]) - 1
      /\ \A i \in 1..(Len(stack[s]) - 1) : Pop(s)[i] = stack[s][i]
  <2>1. \A x \in Seq(Frames) : \A n \in 0..Len(x) :
          /\ SubSeq(x, 1, n) \in Seq(Frames) /\ Len(SubSeq(x, 1, n)) = n
          /\ \A i \in 1..n : SubSeq(x, 1, n)[i] = x[i]
    OBVIOUS
  <2>2. Len(stack[s]) - 1 \in 0..Len(stack[s])
    BY <1>2
  <2> QED
    BY <1>1, <2>1, <2>2 DEF Pop
<1>4. stack'[s] = Pop(s) /\ \A t \in Strands \ {s} : stack'[t] = stack[t]
  BY <1>1
<1>5. stack' \in [Strands -> Seq(Frames)]
  BY <1>1, <1>3
<1> QED
  BY <1>2, <1>3, <1>4, <1>5

\* Where a strand that has frames is.
LEMMA TopOf ==
  ASSUME Base, NEW s \in Strands, stack[s] # <<>>
  PROVE  /\ Len(stack[s]) \in Nat \ {0} /\ Len(stack[s]) \in 1..Len(stack[s])
         /\ Top(s) = stack[s][Len(stack[s])] /\ Top(s) \in Frames
         /\ Current(s) \in Loads \cup {NoLoad} /\ Top(s).leads \in BOOLEAN
         /\ Current(s) # NoLoad => Current(s) \in Loads /\ Made(Current(s)) /\ entry[Current(s)] \in Entries
         /\ Top(s).leads => Current(s) # NoLoad /\ InFlight(Current(s))
<1>1. stack[s] \in Seq(Frames)
  BY DEF Base, TypeOK
<1>2. Len(stack[s]) \in Nat \ {0} /\ Len(stack[s]) \in 1..Len(stack[s])
  BY <1>1
<1>3. Top(s) = stack[s][Len(stack[s])] /\ Top(s) \in Frames
  BY <1>1, <1>2 DEF Top
<1>4. Current(s) \in Loads \cup {NoLoad} /\ Top(s).leads \in BOOLEAN
  BY <1>3 DEF Frames, Current
<1>5. /\ Current(s) # NoLoad => Made(Current(s))
      /\ Top(s).leads => Current(s) # NoLoad /\ InFlight(Current(s))
  BY <1>2, <1>3 DEF Base, FramesHeld, FrameOf, Current
<1>6. Current(s) # NoLoad => Current(s) \in Loads /\ Made(Current(s)) /\ entry[Current(s)] \in Entries
  BY <1>4, <1>5 DEF Base, TypeOK, Made
<1> QED
  BY <1>2, <1>3, <1>4, <1>5, <1>6

\* What a load in flight holds.
LEMMA FlightOf ==
  ASSUME TypeOK, NEW e \in Loads, InFlight(e)
  PROVE  entry[e] \in Entries /\ Made(e) /\ e # NoLoad
  BY ModulesAssumption DEF TypeOK, InFlight, Made, NoEntry, Entries

LEMMA RegistryOf ==
  ASSUME TypeOK, NEW m \in ModuleNames, registry[m] # NoLoad
  PROVE  /\ registry[m] \in Loads /\ entry[registry[m]] \in Entries /\ Made(registry[m])
         /\ entry[registry[m]].module = m
<1>1. registry[m] \in Loads /\ entry[registry[m]] \in Entries \cup {NoEntry} /\ entry[registry[m]].module = m
  BY DEF TypeOK
<1>2. NoEntry.module = Unused /\ NoEntry \notin Entries
  BY ModulesAssumption DEF NoEntry, Entries
<1> QED
  BY <1>1, <1>2, ModulesAssumption DEF Made

LEMMA BaseStart == Init => Base
<1> SUFFICES ASSUME Init PROVE Base
  OBVIOUS
<1>1. stack \in [Strands -> Seq(Frames)]
  <2>1. [env |-> NoLoad, leads |-> FALSE] \in Frames
    BY DEF Frames
  <2>2. <<[env |-> NoLoad, leads |-> FALSE]>> \in Seq(Frames) /\ <<>> \in Seq(Frames)
    BY <2>1
  <2>3. \A s \in Strands : stack[s] = IF s = Main THEN <<[env |-> NoLoad, leads |-> FALSE]>> ELSE <<>>
    BY DEF Init
  <2>4. \A s \in Strands : stack[s] \in Seq(Frames)
    BY <2>2, <2>3
  <2>5. stack = [s \in Strands |-> stack[s]]
    BY DEF Init
  <2> QED
    BY <2>4, <2>5
<1>2. TypeOK
  <2>1. /\ graph \in Graphs /\ registry \in [ModuleNames -> Loads \cup {NoLoad}]
        /\ entry \in [Loads -> Entries \cup {NoEntry}]
        /\ \A m \in ModuleNames : registry[m] = NoLoad
    BY DEF Init
  <2>2. /\ parked \in [Strands -> Loads \cup {NoLoad}] /\ unborn \subseteq Strands
        /\ uses \in [Strands -> 0..MaxUses] /\ refused \subseteq ModuleNames \X ModuleNames
    BY ModulesAssumption DEF Init
  <2> QED
    BY <1>1, <2>1, <2>2 DEF TypeOK
<1>3. \A s \in Strands : \A i \in 1..Len(stack[s]) : stack[s][i] = [env |-> NoLoad, leads |-> FALSE]
  <2> DEFINE f == [env |-> NoLoad, leads |-> FALSE]
  <2>1. \A s \in Strands : stack[s] = <<f>> \/ stack[s] = <<>>
    BY DEF Init
  <2> HIDE DEF f
  <2>2. \A s \in Strands : \A i \in 1..Len(stack[s]) : stack[s][i] = f
    BY <2>1
  <2> QED
    BY <2>2 DEF f
<1>4. FramesHeld /\ OneLeader
  <2>1. \A s \in Strands : \A i \in 1..Len(stack[s]) : stack[s][i].env = NoLoad /\ stack[s][i].leads = FALSE
    BY <1>3
  <2> QED
    BY <2>1 DEF FramesHeld, FrameOf, OneLeader
<1>5. Waiters /\ EdgesMade
  BY DEF Init, Waiters, WaiterOf, EdgesMade, NoEntry
<1> QED
  BY <1>2, <1>4, <1>5 DEF Base

-----------------------------------------------------------------------------
(* What a step makes of the entries.                                          *)

LEMMA WaitEntry ==
  ASSUME Base, NEW s \in Strands, NEW m \in ModuleNames, Wait(s, m)
  PROVE  /\ stack[s] # <<>> /\ parked[s] = NoLoad
         /\ registry[m] \in Loads /\ Made(registry[m]) /\ registry[m] # NoLoad /\ InFlight(registry[m])
         /\ entry' \in [Loads -> Entries \cup {NoEntry}]
         /\ \A d \in Loads :
              /\ entry'[d].module = entry[d].module /\ entry'[d].phase = entry[d].phase
              /\ entry'[d].chain = entry[d].chain /\ (Made(d)' <=> Made(d))
              /\ entry'[d].waitsFor = IF InFlight(Current(s)) /\ d = Current(s)
                                        THEN entry[d].waitsFor \cup {registry[m]} ELSE entry[d].waitsFor
<1>1. stack[s] # <<>> /\ parked[s] = NoLoad /\ InFlight(registry[m]) /\ registry[m] # NoLoad
  BY DEF Wait, Running, InFlight
<1>2. registry[m] \in Loads /\ Made(registry[m]) /\ TypeOK
  BY <1>1, RegistryOf DEF Base
<1>3. CASE InFlight(Current(s))
  <2> DEFINE c == Current(s)
  <2>1. c \in Loads /\ entry[c] \in Entries /\ entry \in [Loads -> Entries \cup {NoEntry}] /\ NoEntry \notin Entries
    <3>1. c # NoLoad
      BY <1>3 DEF InFlight
    <3> QED
      BY <1>1, <3>1, TopOf, ModulesAssumption DEF Base, TypeOK, NoEntry, Entries
  <2>2. entry' = [entry EXCEPT ![c].waitsFor = @ \cup {registry[m]}]
    BY <1>3 DEF Wait
  <2>3. entry'[c] = [entry[c] EXCEPT !.waitsFor = @ \cup {registry[m]}] /\ \A d \in Loads \ {c} : entry'[d] = entry[d]
    BY <2>1, <2>2
  <2>4. entry'[c] \in Entries
    BY <1>2, <2>1, <2>3 DEF Entries
  <2>5. entry' \in [Loads -> Entries \cup {NoEntry}]
    <3>1. entry' = [d \in Loads |-> entry'[d]]
      BY <2>1, <2>2
    <3> QED
      BY <2>1, <2>3, <2>4, <3>1
  <2>6. /\ entry'[c].module = entry[c].module /\ entry'[c].phase = entry[c].phase
        /\ entry'[c].chain = entry[c].chain /\ entry'[c].waitsFor = entry[c].waitsFor \cup {registry[m]}
    BY <2>1, <2>3 DEF Entries
  <2> QED
    BY <1>1, <1>2, <1>3, <2>1, <2>3, <2>4, <2>5, <2>6 DEF Made, NoEntry
<1>4. CASE ~InFlight(Current(s))
  <2>1. entry' = entry
    BY <1>4 DEF Wait
  <2> QED
    BY <1>1, <1>2, <1>4, <2>1 DEF Base, TypeOK, Made
<1> QED
  BY <1>3, <1>4

LEMMA ResumeEntry ==
  ASSUME Base, NEW s \in Strands, Resume(s)
  PROVE  /\ stack[s] # <<>> /\ parked[s] \in Loads
         /\ entry' \in [Loads -> Entries \cup {NoEntry}]
         /\ \A d \in Loads :
              /\ entry'[d].module = entry[d].module /\ entry'[d].phase = entry[d].phase
              /\ entry'[d].chain = entry[d].chain /\ (Made(d)' <=> Made(d))
              /\ entry'[d].waitsFor = IF d = Current(s)
                                        THEN entry[d].waitsFor \ {parked[s]} ELSE entry[d].waitsFor
<1>1. stack[s] # <<>> /\ parked[s] \in Loads /\ entry \in [Loads -> Entries \cup {NoEntry}]
  BY DEF Resume, Base, Waiters, WaiterOf, TypeOK
<1>3. CASE Current(s) # NoLoad
  <2> DEFINE c == Current(s)
  <2>1. c \in Loads /\ entry[c] \in Entries /\ NoEntry \notin Entries
    BY <1>1, <1>3, TopOf, ModulesAssumption DEF NoEntry, Entries
  <2>2. entry' = [entry EXCEPT ![c].waitsFor = @ \ {parked[s]}]
    BY <1>3 DEF Resume
  <2>3. entry'[c] = [entry[c] EXCEPT !.waitsFor = @ \ {parked[s]}] /\ \A d \in Loads \ {c} : entry'[d] = entry[d]
    BY <1>1, <2>1, <2>2
  <2>4. entry'[c] \in Entries
    BY <2>1, <2>3 DEF Entries
  <2>5. entry' \in [Loads -> Entries \cup {NoEntry}]
    <3>1. entry' = [d \in Loads |-> entry'[d]]
      BY <1>1, <2>2
    <3> QED
      BY <1>1, <2>3, <2>4, <3>1
  <2>6. /\ entry'[c].module = entry[c].module /\ entry'[c].phase = entry[c].phase
        /\ entry'[c].chain = entry[c].chain /\ entry'[c].waitsFor = entry[c].waitsFor \ {parked[s]}
    BY <2>1, <2>3 DEF Entries
  <2> QED
    BY <1>1, <2>1, <2>3, <2>4, <2>5, <2>6 DEF Made, NoEntry
<1>4. CASE Current(s) = NoLoad
  <2>1. entry' = entry
    BY <1>4 DEF Resume
  <2> QED
    BY <1>1, <1>4, <2>1, ModulesAssumption DEF Made
<1> QED
  BY <1>3, <1>4

LEMMA LeadEntry ==
  ASSUME Base, NEW s \in Strands, NEW m \in ModuleNames, NEW e \in Loads, Lead(s, m, e)
  PROVE  /\ stack[s] # <<>> /\ parked[s] = NoLoad /\ ~Made(e) /\ Chain(s) \subseteq ModuleNames /\ e # NoLoad
         /\ entry' \in [Loads -> Entries \cup {NoEntry}] /\ (\A d \in Loads \ {e} : entry'[d] = entry[d])
         /\ entry'[e] = [module |-> m, phase |-> "loading", chain |-> Chain(s) \cup {m}, waitsFor |-> {}]
         /\ Made(e)' /\ entry'[e] \in Entries
<1>1. stack[s] # <<>> /\ parked[s] = NoLoad /\ ~Made(e)
  BY DEF Lead, Running, Fresh, Made
<1>2. Chain(s) \subseteq ModuleNames
  BY <1>1, TopOf DEF Chain, Entries
<1>3. [module |-> m, phase |-> "loading", chain |-> Chain(s) \cup {m}, waitsFor |-> {}] \in Entries
  BY <1>2 DEF Entries
<1>4. entry \in [Loads -> Entries \cup {NoEntry}] /\ NoEntry \notin Entries
  BY ModulesAssumption DEF Base, TypeOK, NoEntry, Entries
<1>5. entry' = [entry EXCEPT ![e] = [module |-> m, phase |-> "loading", chain |-> Chain(s) \cup {m}, waitsFor |-> {}]]
  BY DEF Lead
<1> QED
  BY <1>1, <1>2, <1>3, <1>4, <1>5, ModulesAssumption DEF Made

LEMMA FinishEntry ==
  ASSUME Base, NEW s \in Strands, NEW phase \in {"loaded", "failed"}, Finish(s, phase)
  PROVE  /\ stack[s] # <<>> /\ parked[s] = NoLoad /\ Top(s).leads
         /\ Current(s) \in Loads /\ InFlight(Current(s)) /\ Made(Current(s)) /\ entry[Current(s)] \in Entries
         /\ entry' \in [Loads -> Entries \cup {NoEntry}] /\ (\A d \in Loads \ {Current(s)} : entry'[d] = entry[d])
         /\ entry'[Current(s)] \in Entries /\ entry'[Current(s)] # NoEntry
         /\ entry'[Current(s)].module = entry[Current(s)].module /\ entry'[Current(s)].phase = phase
         /\ entry'[Current(s)].chain = entry[Current(s)].chain /\ entry'[Current(s)].waitsFor = {}
<1>1. stack[s] # <<>> /\ parked[s] = NoLoad /\ Top(s).leads
  BY DEF Finish, Running
<1>2. Current(s) \in Loads /\ InFlight(Current(s)) /\ Made(Current(s)) /\ entry[Current(s)] \in Entries
  BY <1>1, TopOf
<1> DEFINE c == Current(s)
<1>3. entry \in [Loads -> Entries \cup {NoEntry}] /\ NoEntry \notin Entries
  BY ModulesAssumption DEF Base, TypeOK, NoEntry, Entries
<1>4. entry' = [entry EXCEPT ![c].phase = phase, ![c].waitsFor = {}]
  BY DEF Finish
<1>5. entry'[c] = [entry[c] EXCEPT !.phase = phase, !.waitsFor = {}] /\ \A d \in Loads \ {c} : entry'[d] = entry[d]
  BY <1>2, <1>3, <1>4
<1>6. entry'[c] \in Entries
  BY <1>2, <1>5 DEF Entries
<1>7. entry' \in [Loads -> Entries \cup {NoEntry}]
  <2>1. entry' = [d \in Loads |-> entry'[d]]
    BY <1>3, <1>4
  <2> QED
    BY <1>3, <1>5, <1>6, <2>1
<1>8. /\ entry'[c].module = entry[c].module /\ entry'[c].phase = phase
      /\ entry'[c].chain = entry[c].chain /\ entry'[c].waitsFor = {}
  BY <1>2, <1>5 DEF Entries
<1> QED
  BY <1>1, <1>2, <1>3, <1>5, <1>6, <1>7, <1>8

-----------------------------------------------------------------------------
(* Every step keeps what is known of strands and loads.                       *)

LEMMA UseType ==
  ASSUME TypeOK, NEW s \in Strands, Use(s)
  PROVE  uses' \in [Strands -> 0..MaxUses]
<1>1. uses \in [Strands -> 0..MaxUses] /\ uses[s] + 1 \in 0..MaxUses
  BY ModulesAssumption DEF TypeOK, Use
<1> QED
  BY <1>1 DEF Use

LEMMA FrameTypes ==
  ASSUME TypeOK, NEW s \in Strands, NEW i \in 1..Len(stack[s])
  PROVE  stack[s][i].env \in Loads \cup {NoLoad} /\ stack[s][i].leads \in BOOLEAN
<1>1. stack[s] \in Seq(Frames)
  BY DEF TypeOK
<1>2. stack[s][i] \in Frames
  BY <1>1
<1> QED
  BY <1>2 DEF Frames

\* A strand whose frames stay where they are.
LEMMA FrameKept ==
  ASSUME Base, NEW s \in Strands, stack'[s] = stack[s],
         \A d \in Loads : Made(d) => Made(d)',
         \A i \in 1..Len(stack[s]) : stack[s][i].leads => entry'[stack[s][i].env].phase = "loading"
  PROVE  FrameOf(s)'
<1>1. FrameOf(s) /\ \A i \in 1..Len(stack[s]) : stack[s][i].env \in Loads \cup {NoLoad}
  BY FrameTypes DEF Base, FramesHeld
<1>2. \A i \in 1..Len(stack[s]) : stack[s][i].env # NoLoad => entry'[stack[s][i].env] # NoEntry
  BY <1>1 DEF FrameOf, Made
<1>3. \A i \in 1..Len(stack[s]) : stack[s][i].leads => i > 1 /\ stack[s][i].env # NoLoad
  BY <1>1 DEF FrameOf
<1> QED
  BY <1>2, <1>3 DEF FrameOf, Made, InFlight

\* No frame changes, and loads are in the phase they were.
LEMMA StacksKept ==
  ASSUME Base, stack' = stack,
         \A d \in Loads : entry'[d].phase = entry[d].phase /\ (Made(d) => Made(d)')
  PROVE  FramesHeld' /\ OneLeader'
<1>1. ASSUME NEW s \in Strands PROVE FrameOf(s)'
  <2>1. \A i \in 1..Len(stack[s]) : stack[s][i].leads => entry'[stack[s][i].env].phase = "loading"
    BY FrameTypes DEF Base, FramesHeld, FrameOf, InFlight
  <2> QED
    BY <2>1, FrameKept
<1>2. OneLeader'
  BY DEF Base, OneLeader
<1> QED
  BY <1>1, <1>2 DEF FramesHeld

\* The registry, when loads keep their modules and their phases.
LEMMA RegistryKept ==
  ASSUME TypeOK, registry' = registry,
         \A d \in Loads : entry'[d].phase = entry[d].phase /\ entry'[d].module = entry[d].module
  PROVE  \A m \in ModuleNames : registry'[m] # NoLoad =>
           LET e == entry'[registry'[m]] IN e.module = m /\ e.phase \in {"loading", "loaded"}
<1>1. \A m \in ModuleNames : registry[m] # NoLoad => registry[m] \in Loads
  BY DEF TypeOK
<1> QED
  BY <1>1 DEF TypeOK

LEMMA RefuseBase ==
  ASSUME Base, NEW s \in Strands, NEW m \in ModuleNames, Refuse(s, m)
  PROVE  Base'
<1>1. UNCHANGED <<graph, registry, entry, stack, parked, unborn>> /\ TypeOK
  BY DEF Refuse, Base
<1>2. stack[s] # <<>> /\ Current(s) # NoLoad
  BY DEF Refuse, Running, Cyclic, Chain, Entangled, InFlight
<1>3. entry[Current(s)].module \in ModuleNames
  BY <1>2, TopOf DEF Entries
<1>4. refused' \subseteq ModuleNames \X ModuleNames
  BY <1>1, <1>3 DEF Refuse, TypeOK
<1>5. TypeOK'
  BY <1>1, <1>4, UseType DEF Refuse, TypeOK
<1>6. FramesHeld' /\ OneLeader'
  BY <1>1, StacksKept DEF Made
<1>7. Waiters' /\ EdgesMade'
  BY <1>1 DEF Base, Waiters, WaiterOf, EdgesMade, Made
<1> QED
  BY <1>5, <1>6, <1>7 DEF Base

LEMMA WaitBase ==
  ASSUME Base, NEW s \in Strands, NEW m \in ModuleNames, Wait(s, m)
  PROVE  Base'
<1>1. UNCHANGED <<graph, registry, stack, unborn, refused>> /\ TypeOK
  BY DEF Wait, Base
<1>2. /\ stack[s] # <<>> /\ registry[m] \in Loads /\ Made(registry[m])
      /\ entry' \in [Loads -> Entries \cup {NoEntry}]
      /\ \A d \in Loads :
           /\ entry'[d].module = entry[d].module /\ entry'[d].phase = entry[d].phase
           /\ (Made(d)' <=> Made(d)) /\ entry'[d].waitsFor \subseteq entry[d].waitsFor \cup {registry[m]}
  <2>1. \A d \in Loads : entry'[d].waitsFor \subseteq entry[d].waitsFor \cup {registry[m]}
    <3>1. \A d \in Loads :
            entry'[d].waitsFor = IF InFlight(Current(s)) /\ d = Current(s)
                                   THEN entry[d].waitsFor \cup {registry[m]} ELSE entry[d].waitsFor
      BY WaitEntry, ZenonT(40)
    <3> QED
      BY <3>1
  <2>2. \A d \in Loads : Made(d)' <=> Made(d)
    BY WaitEntry
  <2> QED
    BY <2>1, <2>2, WaitEntry
<1>3. parked' = [parked EXCEPT ![s] = registry[m]] /\ parked \in [Strands -> Loads \cup {NoLoad}]
  BY <1>1 DEF Wait, TypeOK
<1>4. TypeOK'
  <2>1. parked' \in [Strands -> Loads \cup {NoLoad}] /\ uses' \in [Strands -> 0..MaxUses]
    BY <1>1, <1>2, <1>3, UseType DEF Wait
  <2>2. \A n \in ModuleNames : registry'[n] # NoLoad =>
          LET e == entry'[registry'[n]] IN e.module = n /\ e.phase \in {"loading", "loaded"}
    BY <1>1, <1>2, RegistryKept
  <2> QED
    BY <1>1, <1>2, <2>1, <2>2 DEF TypeOK
<1>5. FramesHeld' /\ OneLeader'
  BY <1>1, <1>2, StacksKept
<1>6. Waiters'
  <2> SUFFICES ASSUME NEW t \in Strands PROVE WaiterOf(t)'
    BY DEF Waiters
  <2>1. WaiterOf(t)
    BY DEF Base, Waiters
  <2>2. parked[t] # NoLoad => parked[t] \in Loads
    BY <1>3
  <2>3. Made(registry[m])'
    BY <1>1, <1>2 DEF Made
  <2> QED
    BY <1>1, <1>2, <1>3, <2>1, <2>2, <2>3 DEF WaiterOf, Made
<1>7. EdgesMade'
  BY <1>2 DEF Base, EdgesMade, Made
<1> QED
  BY <1>4, <1>5, <1>6, <1>7 DEF Base

LEMMA ResumeBase ==
  ASSUME Base, NEW s \in Strands, Resume(s)
  PROVE  Base'
<1>1. UNCHANGED <<graph, registry, stack, unborn, uses, refused>> /\ TypeOK
  BY DEF Resume, Base
<1>2. /\ entry' \in [Loads -> Entries \cup {NoEntry}]
      /\ \A d \in Loads :
           /\ entry'[d].module = entry[d].module /\ entry'[d].phase = entry[d].phase
           /\ (Made(d)' <=> Made(d)) /\ entry'[d].waitsFor \subseteq entry[d].waitsFor
  BY ResumeEntry
<1>3. parked' = [parked EXCEPT ![s] = NoLoad] /\ parked \in [Strands -> Loads \cup {NoLoad}]
  BY <1>1 DEF Resume, TypeOK
<1>4. TypeOK'
  <2>1. parked' \in [Strands -> Loads \cup {NoLoad}]
    BY <1>3
  <2>2. \A n \in ModuleNames : registry'[n] # NoLoad =>
          LET e == entry'[registry'[n]] IN e.module = n /\ e.phase \in {"loading", "loaded"}
    BY <1>1, <1>2, RegistryKept
  <2> QED
    BY <1>1, <1>2, <2>1, <2>2 DEF TypeOK
<1>5. FramesHeld' /\ OneLeader'
  BY <1>1, <1>2, StacksKept
<1>6. Waiters'
  <2> SUFFICES ASSUME NEW t \in Strands PROVE WaiterOf(t)'
    BY DEF Waiters
  <2>1. WaiterOf(t)
    BY DEF Base, Waiters
  <2>2. parked[t] # NoLoad => parked[t] \in Loads
    BY <1>3
  <2> QED
    BY <1>1, <1>2, <1>3, <2>1, <2>2 DEF WaiterOf, Made
<1>7. EdgesMade'
  BY <1>2 DEF Base, EdgesMade, Made
<1> QED
  BY <1>4, <1>5, <1>6, <1>7 DEF Base

\* A frame that is pushed: it leads a load no other frame leads, or leads none.
LEMMA PushBase ==
  ASSUME Base, NEW s \in Strands, NEW f \in Frames, stack' = [stack EXCEPT ![s] = Append(@, f)],
         stack[s] # <<>>,
         \A d \in Loads : (Made(d) => Made(d)') /\ (InFlight(d) => entry'[d].phase = "loading"),
         f.env # NoLoad => entry'[f.env] # NoEntry,
         f.leads => f.env # NoLoad /\ entry'[f.env].phase = "loading" /\ ~InFlight(f.env)
  PROVE  FramesHeld' /\ OneLeader'
<1>1. /\ stack'[s] # <<>> /\ Len(stack[s]) \in Nat \ {0} /\ Len(stack'[s]) = Len(stack[s]) + 1
      /\ \A i \in 1..Len(stack[s]) : stack'[s][i] = stack[s][i]
      /\ stack'[s][Len(stack[s]) + 1] = f
      /\ \A t \in Strands \ {s} : stack'[t] = stack[t]
  BY PushOf, TopOf DEF Base
<1>2. \A t \in Strands : FrameOf(t) /\ \A i \in 1..Len(stack[t]) : stack[t][i].env \in Loads \cup {NoLoad}
  BY FrameTypes DEF Base, FramesHeld
<1>3. \A t \in Strands : \A i \in 1..Len(stack[t]) : stack[t][i].leads => InFlight(stack[t][i].env)
  BY <1>2 DEF FrameOf
<1>4. ASSUME NEW t \in Strands PROVE FrameOf(t)'
  <2>1. CASE t # s
    <3>1. \A i \in 1..Len(stack[t]) : stack[t][i].leads => entry'[stack[t][i].env].phase = "loading"
      BY <1>2, <1>3 DEF InFlight
    <3> QED
      BY <1>1, <2>1, <3>1, FrameKept
  <2>2. CASE t = s
    <3> SUFFICES ASSUME NEW i \in 1..(Len(stack[s]) + 1)
                 PROVE  /\ stack'[s][i].env # NoLoad => entry'[stack'[s][i].env] # NoEntry
                        /\ stack'[s][i].leads => /\ i > 1 /\ stack'[s][i].env # NoLoad
                                                 /\ entry'[stack'[s][i].env].phase = "loading"
      BY <1>1, <2>2 DEF FrameOf, Made, InFlight
    <3>1. CASE i = Len(stack[s]) + 1
      BY <1>1, <3>1
    <3>2. CASE i \in 1..Len(stack[s])
      BY <1>1, <1>2, <1>3, <3>2 DEF FrameOf, Made, InFlight
    <3> QED
      BY <1>1, <3>1, <3>2
  <2> QED
    BY <2>1, <2>2
<1>5. ASSUME NEW t \in Strands, NEW i \in 1..Len(stack'[t]), stack'[t][i].leads,
             NEW u \in Strands, NEW j \in 1..Len(stack'[u]), stack'[u][j].leads,
             stack'[t][i].env = stack'[u][j].env
      PROVE  t = u /\ i = j
  <2>1. /\ (t = s /\ i = Len(stack[s]) + 1) \/ (i \in 1..Len(stack[t]) /\ stack'[t][i] = stack[t][i])
        /\ (u = s /\ j = Len(stack[s]) + 1) \/ (j \in 1..Len(stack[u]) /\ stack'[u][j] = stack[u][j])
    BY <1>1
  <2>2. CASE t = s /\ i = Len(stack[s]) + 1
    BY <1>1, <1>3, <1>5, <2>1, <2>2
  <2>3. CASE u = s /\ j = Len(stack[s]) + 1
    BY <1>1, <1>3, <1>5, <2>1, <2>3
  <2>4. CASE i \in 1..Len(stack[t]) /\ stack'[t][i] = stack[t][i] /\ j \in 1..Len(stack[u]) /\ stack'[u][j] = stack[u][j]
    BY <1>5, <2>4 DEF Base, OneLeader
  <2> QED
    BY <2>1, <2>2, <2>3, <2>4
<1> QED
  BY <1>4, <1>5 DEF FramesHeld, OneLeader

\* A frame that is popped: no other frame leads the load it led.
LEMMA PopBase ==
  ASSUME Base, NEW s \in Strands, stack[s] # <<>>, stack' = [stack EXCEPT ![s] = Pop(s)],
         \A d \in Loads : /\ Made(d) => Made(d)'
                          /\ InFlight(d) /\ ~(Top(s).leads /\ d = Current(s)) => entry'[d].phase = "loading"
  PROVE  FramesHeld' /\ OneLeader'
<1>1. /\ Len(stack[s]) \in Nat \ {0} /\ Len(stack'[s]) = Len(stack[s]) - 1
      /\ \A i \in 1..Len(stack'[s]) : i \in 1..Len(stack[s]) /\ stack'[s][i] = stack[s][i]
      /\ \A t \in Strands \ {s} : stack'[t] = stack[t]
  BY PopOf DEF Base
<1>2. \A t \in Strands : FrameOf(t) /\ \A i \in 1..Len(stack[t]) : stack[t][i].env \in Loads \cup {NoLoad}
  BY FrameTypes DEF Base, FramesHeld
<1>3. ASSUME NEW t \in Strands, NEW i \in 1..Len(stack'[t])
      PROVE  i \in 1..Len(stack[t]) /\ stack'[t][i] = stack[t][i] /\ ~(t = s /\ i = Len(stack[s]))
  BY <1>1
<1>4. ASSUME NEW t \in Strands, NEW i \in 1..Len(stack'[t]), stack[t][i].leads
      PROVE  entry'[stack[t][i].env].phase = "loading"
  <2>1. InFlight(stack[t][i].env) /\ stack[t][i].env \in Loads
    BY <1>2, <1>3, <1>4 DEF FrameOf
  <2>2. ~(Top(s).leads /\ stack[t][i].env = Current(s))
    <3>1. Top(s) = stack[s][Len(stack[s])] /\ Len(stack[s]) \in 1..Len(stack[s])
      BY TopOf
    <3> QED
      BY <1>3, <1>4, <3>1 DEF Base, OneLeader, Current
  <2> QED
    BY <2>1, <2>2
<1>5. ASSUME NEW t \in Strands PROVE FrameOf(t)'
  <2> SUFFICES ASSUME NEW i \in 1..Len(stack'[t])
               PROVE  /\ stack'[t][i].env # NoLoad => entry'[stack'[t][i].env] # NoEntry
                      /\ stack'[t][i].leads => /\ i > 1 /\ stack'[t][i].env # NoLoad
                                               /\ entry'[stack'[t][i].env].phase = "loading"
    BY DEF FrameOf, Made, InFlight
  <2>1. i \in 1..Len(stack[t]) /\ stack'[t][i] = stack[t][i]
    BY <1>3
  <2> QED
    BY <1>2, <1>4, <2>1 DEF FrameOf, Made
<1>6. OneLeader'
  BY <1>3 DEF Base, OneLeader
<1> QED
  BY <1>5, <1>6 DEF FramesHeld

LEMMA LeadBase ==
  ASSUME Base, NEW s \in Strands, NEW m \in ModuleNames, NEW e \in Loads, Lead(s, m, e)
  PROVE  Base'
<1> DEFINE f == [env |-> e, leads |-> TRUE]
<1>1. /\ UNCHANGED <<graph, parked, unborn, refused>> /\ TypeOK /\ Use(s)
      /\ registry' = [registry EXCEPT ![m] = e] /\ stack' = [stack EXCEPT ![s] = Append(@, f)]
  BY DEF Lead, Base
<1>2. /\ stack[s] # <<>> /\ parked[s] = NoLoad /\ ~Made(e) /\ e # NoLoad
      /\ entry' \in [Loads -> Entries \cup {NoEntry}] /\ (\A d \in Loads \ {e} : entry'[d] = entry[d])
      /\ entry'[e].module = m /\ entry'[e].phase = "loading" /\ entry'[e].waitsFor = {}
      /\ entry'[e] # NoEntry
  <2>1. entry'[e] = [module |-> m, phase |-> "loading", chain |-> Chain(s) \cup {m}, waitsFor |-> {}]
    BY LeadEntry
  <2>2. entry'[e] # NoEntry
    BY <2>1, ModulesAssumption DEF NoEntry
  <2> QED
    BY <2>1, <2>2, LeadEntry
<1>3. f \in Frames /\ f.env = e /\ f.leads
  BY DEF Frames
<1>4. stack' \in [Strands -> Seq(Frames)] /\ stack'[s] # <<>> /\ \A t \in Strands \ {s} : stack'[t] = stack[t]
  BY <1>1, <1>3, PushOf
<1>5. ~InFlight(e)
  BY <1>2, <1>1, FlightOf
<1>6. \A d \in Loads : (Made(d) => Made(d)') /\ (InFlight(d) => entry'[d].phase = "loading")
  BY <1>2 DEF Made, InFlight
<1>7. FramesHeld' /\ OneLeader'
  <2> HIDE DEF f
  <2> QED
    BY <1>1, <1>2, <1>3, <1>5, <1>6, PushBase
<1>8. TypeOK'
  <2>1. registry' \in [ModuleNames -> Loads \cup {NoLoad}]
    BY <1>1 DEF TypeOK
  <2>2. \A n \in ModuleNames : registry'[n] # NoLoad =>
          LET x == entry'[registry'[n]] IN x.module = n /\ x.phase \in {"loading", "loaded"}
    <3>1. \A n \in ModuleNames : registry[n] # NoLoad =>
            /\ registry[n] \in Loads \ {e} /\ entry[registry[n]].module = n
            /\ entry[registry[n]].phase \in {"loading", "loaded"}
      BY <1>1, <1>2, RegistryOf DEF TypeOK
    <3>2. \A n \in ModuleNames : registry'[n] = IF n = m THEN e ELSE registry[n]
      BY <1>1 DEF TypeOK
    <3> QED
      BY <1>2, <3>1, <3>2
  <2>3. uses' \in [Strands -> 0..MaxUses]
    BY <1>1, UseType
  <2> QED
    BY <1>1, <1>2, <1>4, <2>1, <2>2, <2>3 DEF TypeOK
<1>9. Waiters'
  <2> SUFFICES ASSUME NEW t \in Strands PROVE WaiterOf(t)'
    BY DEF Waiters
  <2>1. WaiterOf(t) /\ (parked[t] # NoLoad => parked[t] \in Loads)
    BY <1>1 DEF Base, Waiters, TypeOK
  <2> QED
    BY <1>1, <1>2, <1>4, <2>1 DEF WaiterOf, Made
<1>10. EdgesMade'
  <2> SUFFICES ASSUME NEW d \in Loads, NEW x \in entry'[d].waitsFor PROVE x \in Loads /\ Made(x)'
    BY DEF EdgesMade
  <2>1. d # e
    BY <1>2
  <2>2. x \in Loads /\ Made(x)
    BY <1>2, <2>1 DEF Base, EdgesMade
  <2> QED
    BY <1>6, <2>2
<1> QED
  BY <1>7, <1>8, <1>9, <1>10 DEF Base

LEMMA FinishBase ==
  ASSUME Base, NEW s \in Strands, NEW phase \in {"loaded", "failed"}, Finish(s, phase)
  PROVE  Base'
<1> DEFINE c == Current(s)
<1>1. /\ UNCHANGED <<graph, parked, unborn, uses, refused>> /\ TypeOK
      /\ registry' = IF phase = "failed" /\ registry[entry[c].module] = c
                       THEN [registry EXCEPT ![entry[c].module] = NoLoad] ELSE registry
      /\ stack' = [stack EXCEPT ![s] = Pop(s)]
  BY DEF Finish, Base
<1>2. /\ stack[s] # <<>> /\ parked[s] = NoLoad /\ Top(s).leads /\ c \in Loads /\ entry[c] \in Entries
      /\ entry' \in [Loads -> Entries \cup {NoEntry}] /\ (\A d \in Loads \ {c} : entry'[d] = entry[d])
      /\ entry'[c] # NoEntry /\ entry'[c].module = entry[c].module /\ entry'[c].phase = phase
      /\ entry'[c].waitsFor = {}
  BY FinishEntry
<1> HIDE DEF c
<1>3. stack' \in [Strands -> Seq(Frames)] /\ \A t \in Strands \ {s} : stack'[t] = stack[t]
  BY <1>1, <1>2, PopOf
<1>4. \A d \in Loads : /\ Made(d) => Made(d)'
                       /\ InFlight(d) /\ ~(Top(s).leads /\ d = Current(s)) => entry'[d].phase = "loading"
  BY <1>2 DEF Made, InFlight, c
<1>5. FramesHeld' /\ OneLeader'
  BY <1>1, <1>2, <1>4, PopBase
<1>6. TypeOK'
  <2>1. entry[c].module \in ModuleNames
    BY <1>2 DEF Entries
  <2>2. registry \in [ModuleNames -> Loads \cup {NoLoad}]
    BY <1>1 DEF TypeOK
  <2>3. registry' \in [ModuleNames -> Loads \cup {NoLoad}]
    BY <1>1, <2>1, <2>2
  <2>4. ASSUME NEW n \in ModuleNames, registry'[n] # NoLoad
        PROVE  entry'[registry'[n]].module = n /\ entry'[registry'[n]].phase \in {"loading", "loaded"}
    <3>1. registry'[n] = registry[n]
      BY <1>1, <2>1, <2>2, <2>4
    <3>2. /\ registry[n] \in Loads /\ entry[registry[n]].module = n
          /\ entry[registry[n]].phase \in {"loading", "loaded"}
      BY <1>1, <2>4, <3>1 DEF TypeOK
    <3>3. CASE registry[n] # c
      BY <1>2, <3>1, <3>2, <3>3
    <3>4. CASE registry[n] = c
      <4>1. entry[c].module = n
        BY <3>2, <3>4
      <4>2. phase = "loaded"
        BY <1>1, <2>2, <2>4, <3>1, <3>2, <3>4, <4>1
      <4> QED
        BY <1>2, <3>1, <3>4, <4>1, <4>2
    <3> QED
      BY <3>3, <3>4
  <2>5. parked' \in [Strands -> Loads \cup {NoLoad}] /\ uses' \in [Strands -> 0..MaxUses]
        /\ graph' \in Graphs /\ unborn' \subseteq Strands /\ refused' \subseteq ModuleNames \X ModuleNames
    BY <1>1 DEF TypeOK
  <2> QED
    BY <1>2, <1>3, <2>3, <2>4, <2>5 DEF TypeOK
<1>7. Waiters'
  <2> SUFFICES ASSUME NEW t \in Strands PROVE WaiterOf(t)'
    BY DEF Waiters
  <2>1. WaiterOf(t) /\ (parked[t] # NoLoad => parked[t] \in Loads)
    BY <1>1 DEF Base, Waiters, TypeOK
  <2>2. s \notin unborn
    BY <1>2 DEF Base, Waiters, WaiterOf
  <2> QED
    BY <1>1, <1>2, <1>3, <1>4, <2>1, <2>2 DEF WaiterOf, Made
<1>8. EdgesMade'
  <2> SUFFICES ASSUME NEW d \in Loads, NEW x \in entry'[d].waitsFor PROVE x \in Loads /\ Made(x)'
    BY DEF EdgesMade
  <2>1. d # c
    BY <1>2
  <2>2. x \in Loads /\ Made(x)
    BY <1>2, <2>1 DEF Base, EdgesMade
  <2> QED
    BY <1>4, <2>2
<1> QED
  BY <1>5, <1>6, <1>7, <1>8 DEF Base

LEMMA CallBase ==
  ASSUME Base, NEW s \in Strands, NEW m \in ModuleNames, Call(s, m)
  PROVE  Base'
<1> DEFINE f == [env |-> registry[m], leads |-> FALSE]
<1>1. /\ UNCHANGED <<graph, registry, entry, parked, unborn, refused>> /\ TypeOK /\ Use(s)
      /\ stack' = [stack EXCEPT ![s] = Append(@, f)] /\ stack[s] # <<>> /\ registry[m] # NoLoad
  BY DEF Call, Running, Base
<1>2. f \in Frames /\ f.env = registry[m] /\ ~f.leads /\ registry[m] \in Loads /\ Made(registry[m])
  BY <1>1, RegistryOf DEF Frames
<1> HIDE DEF f
<1>3. stack' \in [Strands -> Seq(Frames)] /\ stack'[s] # <<>> /\ \A t \in Strands \ {s} : stack'[t] = stack[t]
  BY <1>1, <1>2, PushOf
<1>4. \A d \in Loads : (Made(d) => Made(d)') /\ (InFlight(d) => entry'[d].phase = "loading")
  BY <1>1 DEF Made, InFlight
<1>5. FramesHeld' /\ OneLeader'
  <2>1. entry'[f.env] # NoEntry
    BY <1>1, <1>2 DEF Made
  <2> QED
    BY <1>1, <1>2, <1>4, <2>1, PushBase
<1>6. TypeOK'
  BY <1>1, <1>3, UseType DEF TypeOK
<1>7. s \notin unborn
  BY <1>1 DEF Base, Waiters, WaiterOf
<1>8. Waiters' /\ EdgesMade'
  BY <1>1, <1>3, <1>7 DEF Base, Waiters, WaiterOf, EdgesMade, Made
<1> QED
  BY <1>5, <1>6, <1>8 DEF Base

LEMMA ReturnBase ==
  ASSUME Base, NEW s \in Strands, Return(s)
  PROVE  Base'
<1>1. /\ UNCHANGED <<graph, registry, entry, parked, unborn, uses, refused>> /\ TypeOK
      /\ stack' = [stack EXCEPT ![s] = Pop(s)] /\ stack[s] # <<>> /\ ~Top(s).leads /\ parked[s] = NoLoad
  BY DEF Return, Running, Base
<1>2. stack' \in [Strands -> Seq(Frames)] /\ \A t \in Strands \ {s} : stack'[t] = stack[t]
  BY <1>1, PopOf
<1>3. FramesHeld' /\ OneLeader'
  BY <1>1, PopBase DEF Made, InFlight
<1>4. TypeOK'
  BY <1>1, <1>2 DEF TypeOK
<1>5. s \notin unborn
  BY <1>1 DEF Base, Waiters, WaiterOf
<1>6. Waiters' /\ EdgesMade'
  BY <1>1, <1>2, <1>5 DEF Base, Waiters, WaiterOf, EdgesMade, Made
<1> QED
  BY <1>3, <1>4, <1>6 DEF Base

LEMMA SpawnBase ==
  ASSUME Base, NEW s \in Strands, NEW t \in Strands, Spawn(s, t)
  PROVE  Base'
<1> DEFINE f == [env |-> Current(s), leads |-> FALSE]
<1>1. /\ UNCHANGED <<graph, registry, entry, parked, refused>> /\ TypeOK /\ Use(s)
      /\ stack' = [stack EXCEPT ![t] = <<f>>] /\ stack[s] # <<>> /\ t \in unborn /\ unborn' = unborn \ {t}
  BY DEF Spawn, Running, Base
<1>2. /\ f \in Frames /\ f.env = Current(s) /\ ~f.leads /\ (Current(s) # NoLoad => Made(Current(s)))
  BY <1>1, TopOf DEF Frames
<1> HIDE DEF f
<1>3. stack'[t] = <<f>> /\ <<f>> \in Seq(Frames) /\ \A u \in Strands \ {t} : stack'[u] = stack[u]
  BY <1>1, <1>2 DEF TypeOK
<1>4. stack' \in [Strands -> Seq(Frames)]
  BY <1>1, <1>3 DEF TypeOK
<1>5. Len(stack'[t]) = 1 /\ stack'[t][1] = f /\ stack'[t] # <<>>
  BY <1>3
<1>6. \A i \in 1..Len(stack'[t]) : stack'[t][i].env = Current(s) /\ ~stack'[t][i].leads
  BY <1>2, <1>5
<1>7. FramesHeld'
  <2> SUFFICES ASSUME NEW u \in Strands PROVE FrameOf(u)'
    BY DEF FramesHeld
  <2>1. CASE u = t
    BY <1>1, <1>2, <1>6, <2>1 DEF FrameOf, Made
  <2>2. CASE u # t
    <3>1. FrameOf(u) /\ stack'[u] = stack[u] /\ entry' = entry
      BY <1>1, <1>3, <2>2 DEF Base, FramesHeld
    <3> QED
      BY <3>1 DEF FrameOf, Made, InFlight
  <2> QED
    BY <2>1, <2>2
<1>8. OneLeader'
  <2> SUFFICES ASSUME NEW u \in Strands, NEW i \in 1..Len(stack'[u]), stack'[u][i].leads,
                      NEW v \in Strands, NEW j \in 1..Len(stack'[v]), stack'[v][j].leads,
                      stack'[u][i].env = stack'[v][j].env
               PROVE  u = v /\ i = j
    BY DEF OneLeader
  <2>1. u # t /\ v # t
    BY <1>6
  <2> QED
    BY <1>3, <2>1 DEF Base, OneLeader
<1>9. TypeOK'
  <2>1. uses' \in [Strands -> 0..MaxUses]
    BY <1>1, UseType
  <2> QED
    BY <1>1, <1>4, <2>1 DEF TypeOK
<1>10. Waiters' /\ EdgesMade'
  BY <1>1, <1>3, <1>5 DEF Base, Waiters, WaiterOf, EdgesMade, Made
<1> QED
  BY <1>7, <1>8, <1>9, <1>10 DEF Base

LEMMA BaseStep == Base /\ [Next]_vars => Base'
<1> SUFFICES ASSUME Base, [Next]_vars PROVE Base'
  OBVIOUS
<1>1. CASE UNCHANGED vars
  <2>1. TypeOK' /\ Waiters' /\ EdgesMade'
    BY <1>1 DEF vars, Base, TypeOK, Waiters, WaiterOf, EdgesMade, Made
  <2>2. FramesHeld' /\ OneLeader'
    BY <1>1, StacksKept DEF vars, Made
  <2> QED
    BY <2>1, <2>2 DEF Base
<1>2. ASSUME NEW s \in Strands, Imports(s) PROVE Base'
  BY <1>2, RefuseBase, WaitBase, CallBase, LeadBase DEF Imports
<1>3. ASSUME NEW s \in Strands, Ends(s) PROVE Base'
  BY <1>3, ResumeBase, ReturnBase, FinishBase DEF Ends
<1> QED
  BY <1>1, <1>2, <1>3, SpawnBase DEF Next

LEMMA BaseInvariant == Spec => []Base
  BY BaseStart, BaseStep, PTL DEF Spec

\* The registry holds loads of its modules that have not failed, and every
\* variable has its type.
THEOREM TypeCorrect == Spec => []TypeOK
  BY BaseInvariant, PTL DEF Base

-----------------------------------------------------------------------------
(* The edges are the waits.                                                   *)

LEMMA EdgesStart == Init => EdgesAreWaits
  BY DEF Init, EdgesAreWaits, InFlight, NoEntry

\* Strand s, which waits for nothing, has no edge; the others are where they were.
LEMMA EdgesAlone ==
  ASSUME Base, EdgesAreWaits, NEW s \in Strands, parked' = parked, parked[s] = NoLoad,
         \A t \in Strands \ {s} : stack'[t] = stack[t],
         \A d \in Loads : InFlight(d)' => InFlight(d) /\ entry'[d].waitsFor = entry[d].waitsFor
  PROVE  EdgesAreWaits'
<1> SUFFICES ASSUME NEW e \in Loads, NEW d \in Loads, InFlight(e)', InFlight(d)'
             PROVE  d \in entry'[e].waitsFor <=> \E t \in Strands : parked'[t] = d /\ Current(t)' = e
  BY DEF EdgesAreWaits
<1>1. d \in entry[e].waitsFor <=> \E t \in Strands : parked[t] = d /\ Current(t) = e
  BY DEF EdgesAreWaits
<1>2. \A t \in Strands : parked[t] = d => Current(t)' = Current(t)
  BY ModulesAssumption DEF Current, Top
<1> QED
  BY <1>1, <1>2

LEMMA WaitEdges ==
  ASSUME Base, EdgesAreWaits, NEW s \in Strands, NEW m \in ModuleNames, Wait(s, m)
  PROVE  EdgesAreWaits'
<1> SUFFICES ASSUME NEW e \in Loads, NEW d \in Loads, InFlight(e)', InFlight(d)'
             PROVE  d \in entry'[e].waitsFor <=> \E t \in Strands : parked'[t] = d /\ Current(t)' = e
  BY DEF EdgesAreWaits
<1> DEFINE r == registry[m]
<1>1. /\ parked[s] = NoLoad /\ r \in Loads
      /\ entry'[e].phase = entry[e].phase /\ entry'[d].phase = entry[d].phase
      /\ entry'[e].waitsFor = IF InFlight(Current(s)) /\ e = Current(s)
                                THEN entry[e].waitsFor \cup {r} ELSE entry[e].waitsFor
  BY WaitEntry, ZenonT(40)
<1> HIDE DEF r
<1>2. InFlight(e) /\ InFlight(d)
  BY <1>1 DEF InFlight
<1>3. d \in entry[e].waitsFor <=> \E t \in Strands : parked[t] = d /\ Current(t) = e
  BY <1>2 DEF EdgesAreWaits
<1>4. \A t \in Strands : Current(t)' = Current(t)
  BY DEF Wait, Current, Top
<1>5. \A t \in Strands : parked'[t] = IF t = s THEN r ELSE parked[t]
  BY DEF Wait, Base, TypeOK, r
<1>6. d # NoLoad
  BY ModulesAssumption
<1> QED
  BY <1>1, <1>2, <1>3, <1>4, <1>5, <1>6

LEMMA ResumeEdges ==
  ASSUME Base, EdgesAreWaits, NEW s \in Strands, Resume(s)
  PROVE  EdgesAreWaits'
<1> SUFFICES ASSUME NEW e \in Loads, NEW d \in Loads, InFlight(e)', InFlight(d)'
             PROVE  d \in entry'[e].waitsFor <=> \E t \in Strands : parked'[t] = d /\ Current(t)' = e
  BY DEF EdgesAreWaits
<1>1. /\ entry'[e].phase = entry[e].phase /\ entry'[d].phase = entry[d].phase
      /\ entry'[e].waitsFor = IF e = Current(s) THEN entry[e].waitsFor \ {parked[s]} ELSE entry[e].waitsFor
  BY ResumeEntry
<1>2. InFlight(e) /\ InFlight(d)
  BY <1>1 DEF InFlight
<1>3. d \in entry[e].waitsFor <=> \E t \in Strands : parked[t] = d /\ Current(t) = e
  BY <1>2 DEF EdgesAreWaits
<1>4. \A t \in Strands : Current(t)' = Current(t)
  BY DEF Resume, Current, Top
<1>5. \A t \in Strands : parked'[t] = IF t = s THEN NoLoad ELSE parked[t]
  BY DEF Resume, Base, TypeOK
<1>6. d # NoLoad /\ d # parked[s]
  BY <1>2, ModulesAssumption DEF Resume
<1> QED
  BY <1>1, <1>3, <1>4, <1>5, <1>6

\* A load that begins: nobody waits for it, and it waits for nobody.
LEMMA LeadEdges ==
  ASSUME Base, EdgesAreWaits, NEW s \in Strands, NEW m \in ModuleNames, NEW n \in Loads, Lead(s, m, n)
  PROVE  EdgesAreWaits'
<1>1. /\ parked[s] = NoLoad /\ ~Made(n) /\ (\A d \in Loads \ {n} : entry'[d] = entry[d])
      /\ entry'[n] = [module |-> m, phase |-> "loading", chain |-> Chain(s) \cup {m}, waitsFor |-> {}]
  BY LeadEntry
<1>2. parked' = parked /\ \A t \in Strands \ {s} : stack'[t] = stack[t]
  BY DEF Lead, Base, TypeOK
<1>3. \A t \in Strands : parked[t] # NoLoad => t # s /\ Current(t)' = Current(t) /\ Current(t) # n /\ parked[t] # n
  <2> SUFFICES ASSUME NEW t \in Strands, parked[t] # NoLoad
               PROVE  t # s /\ Current(t)' = Current(t) /\ Current(t) # n /\ parked[t] # n
    OBVIOUS
  <2>1. t # s /\ stack'[t] = stack[t]
    BY <1>1, <1>2
  <2>2. Current(t)' = Current(t)
    BY <2>1 DEF Current, Top
  <2>3. stack[t] # <<>> /\ parked[t] # n
    BY <1>1 DEF Base, Waiters, WaiterOf
  <2>4. Current(t) # n
    BY <1>1, <2>3, TopOf, ModulesAssumption
  <2> QED
    BY <2>1, <2>2, <2>3, <2>4
<1> SUFFICES ASSUME NEW e \in Loads, NEW d \in Loads, InFlight(e)', InFlight(d)'
             PROVE  d \in entry'[e].waitsFor <=> \E t \in Strands : parked'[t] = d /\ Current(t)' = e
  BY DEF EdgesAreWaits
<1>4. d # NoLoad
  BY ModulesAssumption
<1>5. CASE e = n
  <2>1. d \notin entry'[e].waitsFor
    BY <1>1, <1>5
  <2> QED
    BY <1>2, <1>3, <1>4, <1>5, <2>1
<1>6. CASE e # n /\ d = n
  <2>1. d \notin entry'[e].waitsFor
    BY <1>1, <1>6 DEF Base, EdgesMade
  <2> QED
    BY <1>2, <1>3, <1>4, <1>6, <2>1
<1>7. CASE e # n /\ d # n
  <2>1. InFlight(e) /\ InFlight(d) /\ entry'[e].waitsFor = entry[e].waitsFor
    BY <1>1, <1>7 DEF InFlight
  <2>2. d \in entry[e].waitsFor <=> \E t \in Strands : parked[t] = d /\ Current(t) = e
    BY <2>1 DEF EdgesAreWaits
  <2> QED
    BY <1>2, <1>3, <1>4, <2>1, <2>2
<1> QED
  BY <1>5, <1>6, <1>7

LEMMA EdgesStep == Base /\ EdgesAreWaits /\ [Next]_vars => EdgesAreWaits'
<1> SUFFICES ASSUME Base, EdgesAreWaits, [Next]_vars PROVE EdgesAreWaits'
  OBVIOUS
<1>1. CASE UNCHANGED <<entry, stack, parked>>
  BY <1>1 DEF EdgesAreWaits, InFlight, Current, Top
<1>2. ASSUME NEW s \in Strands, NEW m \in ModuleNames, Call(s, m) PROVE EdgesAreWaits'
  <2>1. /\ parked' = parked /\ parked[s] = NoLoad /\ entry' = entry
        /\ \A t \in Strands \ {s} : stack'[t] = stack[t]
    BY <1>2 DEF Call, Running, Base, TypeOK
  <2> QED
    BY <2>1, EdgesAlone DEF InFlight
<1>3. ASSUME NEW s \in Strands, Return(s) PROVE EdgesAreWaits'
  <2>1. /\ parked' = parked /\ parked[s] = NoLoad /\ entry' = entry
        /\ \A t \in Strands \ {s} : stack'[t] = stack[t]
    BY <1>3 DEF Return, Running, Base, TypeOK
  <2> QED
    BY <2>1, EdgesAlone DEF InFlight
<1>4. ASSUME NEW s \in Strands, NEW phase \in {"loaded", "failed"}, Finish(s, phase) PROVE EdgesAreWaits'
  <2>1. /\ parked[s] = NoLoad /\ entry'[Current(s)].phase = phase
        /\ \A d \in Loads \ {Current(s)} : entry'[d] = entry[d]
    BY <1>4, FinishEntry
  <2>2. parked' = parked /\ \A t \in Strands \ {s} : stack'[t] = stack[t]
    BY <1>4 DEF Finish, Base, TypeOK
  <2>3. \A d \in Loads : InFlight(d)' => InFlight(d) /\ entry'[d].waitsFor = entry[d].waitsFor
    BY <2>1 DEF InFlight
  <2> QED
    BY <2>1, <2>2, <2>3, EdgesAlone
<1>5. ASSUME NEW s \in Strands, NEW t \in Strands, Spawn(s, t) PROVE EdgesAreWaits'
  <2>1. /\ parked' = parked /\ parked[t] = NoLoad /\ entry' = entry
        /\ \A u \in Strands \ {t} : stack'[u] = stack[u]
    BY <1>5 DEF Spawn, Base, TypeOK, Waiters, WaiterOf
  <2> QED
    BY <2>1, EdgesAlone DEF InFlight
<1>6. ASSUME NEW s \in Strands, NEW m \in ModuleNames, Refuse(s, m) PROVE EdgesAreWaits'
  BY <1>1, <1>6 DEF Refuse
<1> QED
  BY <1>1, <1>2, <1>3, <1>4, <1>5, <1>6, WaitEdges, ResumeEdges, LeadEdges DEF Next, Imports, Ends, vars

\* The recorded edges between loads in flight are exactly the waits of the strands
\* that execute their code: none is missing, though several strands share one
\* environment, and none is left behind.
THEOREM Edges == Spec => []EdgesAreWaits
  BY BaseInvariant, EdgesStart, EdgesStep, PTL DEF Spec

-----------------------------------------------------------------------------
(* No circle of edges.                                                        *)

LEMMA AcyclicStart == Init => Acyclic
  BY DEF Init, Acyclic, InFlight, NoEntry

\* The edge a strand adds closes no circle: the loads reached from the one it
\* waits for do not include its own.
LEMMA WaitAcyclic ==
  ASSUME Base, Acyclic, NEW s \in Strands, NEW m \in ModuleNames, Wait(s, m)
  PROVE  Acyclic'
<1> DEFINE r == registry[m]
           c == Current(s)
<1>1. /\ r \in Loads /\ InFlight(r)
      /\ \A d \in Loads : /\ entry'[d].phase = entry[d].phase
                          /\ entry'[d].waitsFor = IF InFlight(c) /\ d = c
                                                    THEN entry[d].waitsFor \cup {r} ELSE entry[d].waitsFor
  BY WaitEntry, ZenonT(40)
<1>2. InFlight(c) => ~WaitPath(r, c)
  BY DEF Wait, Entangled
<1> HIDE DEF r, c
<1> SUFFICES ASSUME NEW S \in SUBSET Loads, S # {}, \A e \in S : InFlight(e)'
             PROVE  \E e \in S : entry'[e].waitsFor \cap S = {}
  BY DEF Acyclic
<1>3. \A e \in S : InFlight(e)
  BY <1>1 DEF InFlight
<1>4. CASE InFlight(c) /\ r \in S
  <2>1. PICK K \in SUBSET Loads :
          r \in K /\ c \notin K /\ \A x \in K : InFlight(x) => entry[x].waitsFor \subseteq K
    BY <1>2, <1>4 DEF WaitPath
  <2>2. PICK e \in S \cap K : entry[e].waitsFor \cap (S \cap K) = {}
    BY <1>3, <1>4, <2>1 DEF Acyclic
  <2>3. entry[e].waitsFor \subseteq K /\ e # c
    BY <1>3, <2>1, <2>2
  <2>4. entry'[e].waitsFor = entry[e].waitsFor
    BY <1>1, <2>2, <2>3
  <2> QED
    BY <2>2, <2>3, <2>4
<1>5. CASE ~(InFlight(c) /\ r \in S)
  <2>1. PICK e \in S : entry[e].waitsFor \cap S = {}
    BY <1>3 DEF Acyclic
  <2> QED
    BY <1>1, <1>5, <2>1
<1> QED
  BY <1>4, <1>5

\* Edges that go, and loads that end, close no circle.
LEMMA FewerAcyclic ==
  ASSUME Acyclic,
         \A d \in Loads : InFlight(d)' => \/ InFlight(d) /\ entry'[d].waitsFor \subseteq entry[d].waitsFor
                                          \/ entry'[d].waitsFor = {}
  PROVE  Acyclic'
<1> SUFFICES ASSUME NEW S \in SUBSET Loads, S # {}, \A e \in S : InFlight(e)'
             PROVE  \E e \in S : entry'[e].waitsFor \cap S = {}
  BY DEF Acyclic
<1>1. CASE \E e \in S : entry'[e].waitsFor = {}
  BY <1>1
<1>2. CASE \A e \in S : InFlight(e) /\ entry'[e].waitsFor \subseteq entry[e].waitsFor
  <2>1. PICK e \in S : entry[e].waitsFor \cap S = {}
    BY <1>2 DEF Acyclic
  <2> QED
    BY <1>2, <2>1
<1> QED
  BY <1>1, <1>2

LEMMA AcyclicStep == Base /\ Acyclic /\ [Next]_vars => Acyclic'
<1> SUFFICES ASSUME Base, Acyclic, [Next]_vars PROVE Acyclic'
  OBVIOUS
<1>1. CASE UNCHANGED entry
  BY <1>1 DEF Acyclic, InFlight
<1>2. ASSUME NEW s \in Strands, Resume(s) PROVE Acyclic'
  <2>1. \A d \in Loads : entry'[d].phase = entry[d].phase /\ entry'[d].waitsFor \subseteq entry[d].waitsFor
    <3>1. \A d \in Loads :
            /\ entry'[d].phase = entry[d].phase
            /\ entry'[d].waitsFor = IF d = Current(s)
                                      THEN entry[d].waitsFor \ {parked[s]} ELSE entry[d].waitsFor
      BY <1>2, ResumeEntry
    <3> QED
      BY <3>1
  <2> QED
    BY <2>1, FewerAcyclic DEF InFlight
<1>3. ASSUME NEW s \in Strands, NEW phase \in {"loaded", "failed"}, Finish(s, phase) PROVE Acyclic'
  <2>1. /\ entry'[Current(s)].phase = phase
        /\ \A d \in Loads \ {Current(s)} : entry'[d] = entry[d]
    BY <1>3, FinishEntry
  <2>2. \A d \in Loads : InFlight(d)' => InFlight(d) /\ entry'[d].waitsFor \subseteq entry[d].waitsFor
    BY <2>1 DEF InFlight
  <2> QED
    BY <2>2, FewerAcyclic
<1>4. ASSUME NEW s \in Strands, NEW m \in ModuleNames, NEW n \in Loads, Lead(s, m, n) PROVE Acyclic'
  <2>1. /\ (\A d \in Loads \ {n} : entry'[d] = entry[d])
        /\ entry'[n] = [module |-> m, phase |-> "loading", chain |-> Chain(s) \cup {m}, waitsFor |-> {}]
    BY <1>4, LeadEntry
  <2>2. \A d \in Loads : InFlight(d)' => \/ InFlight(d) /\ entry'[d].waitsFor \subseteq entry[d].waitsFor
                                         \/ entry'[d].waitsFor = {}
    BY <2>1 DEF InFlight
  <2> QED
    BY <2>2, FewerAcyclic
<1> QED
  BY <1>1, <1>2, <1>3, <1>4, WaitAcyclic DEF Next, Imports, Ends, Refuse, Call, Return, Spawn, vars

\* A strand that executes the top level of one module leads that load only.
LEMMA FlatLeads ==
  ASSUME Base, NEW s \in Strands, Flat(s)
  PROVE  /\ \A e \in Leading(s) : e = Current(s)
         /\ Current(s) \in Loads /\ InFlight(Current(s))
<1>1. stack[s] \in Seq(Frames) /\ Len(stack[s]) = 2 /\ Top(s).leads
  BY DEF Base, TypeOK, Flat
<1>2. stack[s] # <<>>
  <2>1. \A x \in Seq(Frames) : x = <<>> => Len(x) = 0
    OBVIOUS
  <2>2. Len(stack[s]) # 0
    BY <1>1
  <2> QED
    BY <1>1, <2>1, <2>2
<1>3. \A i \in 1..2 : stack[s][i].leads => i = 2
  BY <1>1 DEF Base, FramesHeld, FrameOf
<1>4. \A e \in Leading(s) : e = stack[s][2].env
  BY <1>1, <1>3 DEF Leading
<1> QED
  BY <1>1, <1>2, <1>4, TopOf DEF Current, Top

\* Strands that each load one module never wait for each other in a circle, and so
\* never for ever: what the edges between loads are there for.
THEOREM NoDeadlock == Spec => []NoFlatDeadlock
<1>1. Base /\ EdgesAreWaits /\ Acyclic => NoFlatDeadlock
  <2> SUFFICES ASSUME Base, EdgesAreWaits, Acyclic,
                      NEW S \in SUBSET Strands, \A s \in S : Flat(s), Deadlocked(S)
               PROVE  FALSE
    BY DEF NoFlatDeadlock
  <2> DEFINE L == {Current(s) : s \in S}
  <2>1. S # {} /\ \A s \in S : \E t \in S : parked[s] = Current(t)
    BY FlatLeads DEF Deadlocked
  <2>2. L \in SUBSET Loads /\ L # {} /\ \A e \in L : InFlight(e)
    BY <2>1, FlatLeads
  <2>3. PICK e \in L : entry[e].waitsFor \cap L = {}
    BY <2>2 DEF Acyclic
  <2>4. PICK s \in S : e = Current(s)
    BY <2>3
  <2>5. PICK t \in S : parked[s] = Current(t)
    BY <2>1
  <2>6. Current(t) \in L /\ Current(t) \in Loads /\ e \in Loads /\ InFlight(e) /\ InFlight(Current(t))
    BY <2>2, <2>3
  <2>7. Current(t) \in entry[e].waitsFor
    BY <2>4, <2>5, <2>6 DEF EdgesAreWaits
  <2> QED
    BY <2>3, <2>6, <2>7
<1> QED
  BY <1>1, BaseInvariant, Edges, AcyclicStart, AcyclicStep, PTL DEF Spec

-----------------------------------------------------------------------------
(* What is reported as a circle is one.                                       *)

LEMMA ReachStep ==
  ASSUME TypeOK, NEW x \in ModuleNames, NEW n \in ModuleNames, NEW m \in graph[n],
         x = n \/ Reaches(x, n)
  PROVE  Reaches(x, m)
  BY DEF Reaches

LEMMA GraphOf ==
  ASSUME TypeOK, NEW n \in ModuleNames
  PROVE  graph[n] \subseteq ModuleNames
  BY ModulesAssumption DEF TypeOK

LEMMA GraphKept ==
  ASSUME [Next]_vars
  PROVE  graph' = graph
  BY ZenonT(40) DEF Next, Imports, Ends, Refuse, Wait, Call, Lead, Resume, Return, Finish, Spawn, vars

LEMMA SameReach ==
  ASSUME graph' = graph
  PROVE  \A n, m : Reaches(n, m)' <=> Reaches(n, m)
  BY DEF Reaches

\* Where the waits lead from a load, the imports lead from its module.
LEMMA PathReaches ==
  ASSUME Base, EdgesImport, NEW e \in Loads, InFlight(e), NEW t \in Loads, WaitPath(e, t)
  PROVE  entry[e].module = entry[t].module \/ Reaches(entry[e].module, entry[t].module)
<1> DEFINE n == entry[e].module
           L == {x \in Loads : Made(x) /\ (n = entry[x].module \/ Reaches(n, entry[x].module))}
<1>1. e \in L /\ n \in ModuleNames
  BY FlightOf DEF Base, Entries
<1>2. ASSUME NEW x \in L, InFlight(x), NEW d \in entry[x].waitsFor
      PROVE  d \in L
  <2>1. d \in Loads /\ Made(d)
    BY DEF Base, EdgesMade
  <2>2. entry[d].module \in graph[entry[x].module]
    BY <1>2 DEF EdgesImport
  <2>3. entry[x].module \in ModuleNames
    BY <1>2, FlightOf DEF Base, Entries
  <2>4. n = entry[x].module \/ Reaches(n, entry[x].module)
    BY <1>2
  <2> HIDE DEF n
  <2>5. Reaches(n, entry[d].module)
    BY <1>1, <2>2, <2>3, <2>4, ReachStep DEF Base
  <2> QED
    BY <2>1, <2>5 DEF n
<1>3. t \in L
  BY <1>1, <1>2 DEF WaitPath
<1> QED
  BY <1>3

LEMMA ReachStart == Init => ChainsReach /\ EdgesImport /\ RefusalsAreReal
  BY DEF Init, ChainsReach, EdgesImport, RefusalsAreReal, NoEntry

\* What the code of a strand may import, its chain leads to.
LEMMA ChainOf ==
  ASSUME Base, ChainsReach, NEW s \in Strands, stack[s] # <<>>, NEW m \in Named(s), NEW x \in Chain(s)
  PROVE  /\ Current(s) # NoLoad /\ entry[Current(s)].module \in ModuleNames
         /\ m \in graph[entry[Current(s)].module] /\ x \in ModuleNames
         /\ x = entry[Current(s)].module \/ Reaches(x, entry[Current(s)].module)
         /\ Reaches(x, m)
<1>1. Current(s) # NoLoad /\ x \in entry[Current(s)].chain
  BY DEF Chain
<1>2. Current(s) \in Loads /\ entry[Current(s)] \in Entries
  BY <1>1, TopOf
<1>3. x = entry[Current(s)].module \/ Reaches(x, entry[Current(s)].module)
  BY <1>1, <1>2 DEF ChainsReach
<1>4. entry[Current(s)].module \in ModuleNames /\ x \in ModuleNames
  BY <1>1, <1>2 DEF Entries
<1>5. m \in graph[entry[Current(s)].module]
  BY <1>1 DEF Named
<1>6. Reaches(x, m)
  BY <1>3, <1>4, <1>5, ReachStep DEF Base
<1> QED
  BY <1>1, <1>3, <1>4, <1>5, <1>6

\* Loads that keep their module and their chain.
LEMMA ChainsKept ==
  ASSUME ChainsReach, graph' = graph,
         \A d \in Loads : entry'[d].module = entry[d].module /\ entry'[d].chain = entry[d].chain
  PROVE  ChainsReach'
<1> SUFFICES ASSUME NEW e \in Loads, NEW x \in entry'[e].chain
             PROVE  x = entry'[e].module \/ Reaches(x, entry[e].module)'
  BY DEF ChainsReach
<1>1. x = entry[e].module \/ Reaches(x, entry[e].module)
  BY DEF ChainsReach
<1> QED
  BY <1>1 DEF Reaches

LEMMA ChainsStep == Base /\ ChainsReach /\ [Next]_vars => ChainsReach'
<1> SUFFICES ASSUME Base, ChainsReach, [Next]_vars PROVE ChainsReach'
  OBVIOUS
<1>0. graph' = graph
  BY GraphKept
<1>1. CASE entry' = entry
  BY <1>0, <1>1, ChainsKept
<1>2. ASSUME NEW s \in Strands, NEW m \in ModuleNames, Wait(s, m) PROVE ChainsReach'
  <2>1. \A d \in Loads : entry'[d].module = entry[d].module /\ entry'[d].chain = entry[d].chain
    BY <1>2, WaitEntry
  <2> QED
    BY <1>0, <2>1, ChainsKept
<1>3. ASSUME NEW s \in Strands, Resume(s) PROVE ChainsReach'
  <2>1. \A d \in Loads : entry'[d].module = entry[d].module /\ entry'[d].chain = entry[d].chain
    BY <1>3, ResumeEntry
  <2> QED
    BY <1>0, <2>1, ChainsKept
<1>4. ASSUME NEW s \in Strands, NEW phase \in {"loaded", "failed"}, Finish(s, phase) PROVE ChainsReach'
  <2>1. \A d \in Loads : entry'[d].module = entry[d].module /\ entry'[d].chain = entry[d].chain
    BY <1>4, FinishEntry
  <2> QED
    BY <1>0, <2>1, ChainsKept
<1>5. ASSUME NEW s \in Strands, NEW m \in ModuleNames, NEW n \in Loads, Lead(s, m, n) PROVE ChainsReach'
  <2>1. /\ (\A d \in Loads \ {n} : entry'[d] = entry[d]) /\ stack[s] # <<>> /\ m \in Named(s)
        /\ entry'[n] = [module |-> m, phase |-> "loading", chain |-> Chain(s) \cup {m}, waitsFor |-> {}]
    BY <1>5, LeadEntry DEF Lead
  <2> SUFFICES ASSUME NEW e \in Loads, NEW x \in entry'[e].chain
               PROVE  x = entry'[e].module \/ Reaches(x, entry[e].module)'
    BY DEF ChainsReach
  <2>2. CASE e # n
    <3>1. x = entry[e].module \/ Reaches(x, entry[e].module)
      BY <2>1, <2>2 DEF ChainsReach
    <3> QED
      BY <1>0, <2>1, <2>2, <3>1 DEF Reaches
  <2>3. CASE e = n
    <3>1. entry'[e].module = m /\ x \in Chain(s) \cup {m}
      BY <2>1, <2>3
    <3>2. x = m \/ Reaches(x, m)
      BY <2>1, <3>1, ChainOf
    <3> QED
      BY <1>0, <3>1, <3>2 DEF Reaches
  <2> QED
    BY <2>2, <2>3
<1> QED
  BY <1>1, <1>2, <1>3, <1>4, <1>5 DEF Next, Imports, Ends, Refuse, Call, Return, Spawn, vars

\* Edges that go, between loads that keep their module.
LEMMA ImportsKept ==
  ASSUME Base, EdgesImport, graph' = graph,
         \A d \in Loads : /\ Made(d) => entry'[d].module = entry[d].module
                          /\ InFlight(d)' => \/ InFlight(d) /\ entry'[d].waitsFor \subseteq entry[d].waitsFor
                                             \/ entry'[d].waitsFor = {}
  PROVE  EdgesImport'
<1> SUFFICES ASSUME NEW e \in Loads, InFlight(e)', NEW d \in entry'[e].waitsFor
             PROVE  entry'[d].module \in graph[entry'[e].module]
  BY DEF EdgesImport
<1>1. InFlight(e) /\ d \in entry[e].waitsFor
  OBVIOUS
<1>2. Made(e) /\ d \in Loads /\ Made(d)
  BY <1>1, FlightOf DEF Base, EdgesMade
<1> QED
  BY <1>1, <1>2 DEF EdgesImport

LEMMA ImportsStep == Base /\ EdgesImport /\ [Next]_vars => EdgesImport'
<1> SUFFICES ASSUME Base, EdgesImport, [Next]_vars PROVE EdgesImport'
  OBVIOUS
<1>0. graph' = graph
  BY GraphKept
<1>1. CASE entry' = entry
  BY <1>0, <1>1 DEF EdgesImport, InFlight
<1>2. ASSUME NEW s \in Strands, NEW m \in ModuleNames, Wait(s, m) PROVE EdgesImport'
  <2>1. /\ stack[s] # <<>> /\ registry[m] \in Loads /\ registry[m] # NoLoad
        /\ \A d \in Loads :
             /\ entry'[d].module = entry[d].module /\ entry'[d].phase = entry[d].phase
             /\ entry'[d].waitsFor = IF InFlight(Current(s)) /\ d = Current(s)
                                       THEN entry[d].waitsFor \cup {registry[m]} ELSE entry[d].waitsFor
    BY <1>2, WaitEntry, ZenonT(40)
  <2>2. entry[registry[m]].module = m
    BY <2>1, RegistryOf DEF Base
  <2>3. InFlight(Current(s)) => m \in graph[entry[Current(s)].module]
    BY <1>2 DEF Wait, Named, InFlight
  <2> SUFFICES ASSUME NEW e \in Loads, InFlight(e)', NEW d \in entry'[e].waitsFor
               PROVE  entry'[d].module \in graph[entry'[e].module]
    BY <1>0 DEF EdgesImport
  <2>4. InFlight(e)
    BY <2>1 DEF InFlight
  <2>5. CASE d \in entry[e].waitsFor
    BY <2>1, <2>4, <2>5 DEF EdgesImport, Base, EdgesMade
  <2>6. CASE d = registry[m] /\ e = Current(s)
    BY <2>1, <2>2, <2>3, <2>4, <2>6
  <2> QED
    BY <2>1, <2>5, <2>6
<1>3. ASSUME NEW s \in Strands, Resume(s) PROVE EdgesImport'
  <2>1. \A d \in Loads :
          /\ entry'[d].module = entry[d].module /\ entry'[d].phase = entry[d].phase
          /\ entry'[d].waitsFor = IF d = Current(s)
                                    THEN entry[d].waitsFor \ {parked[s]} ELSE entry[d].waitsFor
    BY <1>3, ResumeEntry
  <2>2. \A d \in Loads : entry'[d].waitsFor \subseteq entry[d].waitsFor /\ (InFlight(d)' => InFlight(d))
    BY <2>1 DEF InFlight
  <2> QED
    BY <1>0, <2>1, <2>2, ImportsKept
<1>4. ASSUME NEW s \in Strands, NEW phase \in {"loaded", "failed"}, Finish(s, phase) PROVE EdgesImport'
  <2>1. /\ entry'[Current(s)].phase = phase /\ entry'[Current(s)].module = entry[Current(s)].module
        /\ \A d \in Loads \ {Current(s)} : entry'[d] = entry[d]
    BY <1>4, FinishEntry
  <2>2. \A d \in Loads : /\ entry'[d].module = entry[d].module
                         /\ InFlight(d)' => InFlight(d) /\ entry'[d].waitsFor \subseteq entry[d].waitsFor
    BY <2>1 DEF InFlight
  <2> QED
    BY <1>0, <2>2, ImportsKept
<1>5. ASSUME NEW s \in Strands, NEW m \in ModuleNames, NEW n \in Loads, Lead(s, m, n) PROVE EdgesImport'
  <2>1. /\ (\A d \in Loads \ {n} : entry'[d] = entry[d]) /\ ~Made(n)
        /\ entry'[n] = [module |-> m, phase |-> "loading", chain |-> Chain(s) \cup {m}, waitsFor |-> {}]
    BY <1>5, LeadEntry
  <2>2. \A d \in Loads : /\ Made(d) => entry'[d].module = entry[d].module
                         /\ InFlight(d)' => \/ InFlight(d) /\ entry'[d].waitsFor \subseteq entry[d].waitsFor
                                            \/ entry'[d].waitsFor = {}
    BY <2>1 DEF InFlight
  <2> QED
    BY <1>0, <2>2, ImportsKept
<1> QED
  BY <1>1, <1>2, <1>3, <1>4, <1>5 DEF Next, Imports, Ends, Refuse, Call, Return, Spawn, vars

LEMMA RefusalsStep ==
  Base /\ ChainsReach /\ EdgesImport /\ RefusalsAreReal /\ [Next]_vars => RefusalsAreReal'
<1> SUFFICES ASSUME Base, ChainsReach, EdgesImport, RefusalsAreReal, [Next]_vars PROVE RefusalsAreReal'
  OBVIOUS
<1>0. graph' = graph
  BY GraphKept
<1>1. \A r \in refused : r[2] \in graph[r[1]] /\ (r[1] = r[2] \/ Reaches(r[2], r[1]))
  BY DEF RefusalsAreReal
<1>2. CASE refused' = refused
  BY <1>0, <1>1, <1>2 DEF RefusalsAreReal, Reaches
<1>3. ASSUME NEW s \in Strands, NEW m \in ModuleNames, Refuse(s, m) PROVE RefusalsAreReal'
  <2> DEFINE n == entry[Current(s)].module
  <2>1. stack[s] # <<>> /\ m \in Named(s) /\ refused' = refused \cup {<<n, m>>}
    BY <1>3 DEF Refuse, Running
  <2>2. m \in graph[n] /\ (n = m \/ Reaches(m, n))
    <3>1. CASE m \in Chain(s)
      BY <2>1, <3>1, ChainOf
    <3>2. CASE InFlight(registry[m]) /\ Entangled(s, m)
      <4>1. InFlight(Current(s)) /\ WaitPath(registry[m], Current(s)) /\ registry[m] # NoLoad
        BY <3>2 DEF Entangled, InFlight
      <4>2. Current(s) # NoLoad
        BY <4>1 DEF InFlight
      <4>3. Current(s) \in Loads /\ registry[m] \in Loads /\ entry[registry[m]].module = m
        BY <2>1, <4>1, <4>2, TopOf, RegistryOf DEF Base
      <4>4. m = n \/ Reaches(m, n)
        BY <3>2, <4>1, <4>3, PathReaches
      <4> QED
        BY <2>1, <4>2, <4>4 DEF Named
    <3> QED
      BY <1>3, <3>1, <3>2 DEF Refuse, Cyclic
  <2> HIDE DEF n
  <2>3. \A r \in refused' : r[2] \in graph[r[1]] /\ (r[1] = r[2] \/ Reaches(r[2], r[1]))
    BY <1>1, <2>1, <2>2
  <2> QED
    BY <1>0, <2>3 DEF RefusalsAreReal, Reaches
<1> QED
  BY <1>2, <1>3, ZenonT(40) DEF Next, Imports, Ends, Wait, Call, Lead, Resume, Return, Finish, Spawn, vars

\* Only imports that do form a circle are reported as one, by the chain or by the
\* edges, however the loads of the strands are interleaved.
THEOREM Refusals == Spec => []RefusalsAreReal
<1>1. Base /\ ChainsReach /\ EdgesImport /\ RefusalsAreReal /\ [Next]_vars
        => ChainsReach' /\ EdgesImport' /\ RefusalsAreReal'
  BY ChainsStep, ImportsStep, RefusalsStep
<1> QED
  BY <1>1, ReachStart, BaseInvariant, PTL DEF Spec

-----------------------------------------------------------------------------
(* Where the imports form no circle, nobody waits for ever.                   *)

\* No module imports itself, directly or through others.
NoCircle == \A m \in ModuleNames : ~Reaches(m, m)

\* What runs, or waits, above an activation is named by the code of that one.
DescentOf(s) ==
  /\ \A i \in 2..Len(stack[s]) :
       /\ stack[s][i].env # NoLoad
       /\ stack[s][i - 1].env # NoLoad =>
            entry[stack[s][i].env].module \in graph[entry[stack[s][i - 1].env].module]
  /\ parked[s] # NoLoad /\ Current(s) # NoLoad =>
       entry[parked[s]].module \in graph[entry[Current(s)].module]
Descents == \A s \in Strands : DescentOf(s)

\* A load in flight is led by some strand.
Led == \A e \in Loads : InFlight(e) => \E s \in Strands : e \in Leading(s)

\* A step of a strand that leaves the frames of t, and the modules of the loads.
LEMMA DescentKept ==
  ASSUME Base, Descents, graph' = graph, NEW t \in Strands, stack'[t] = stack[t],
         parked'[t] = parked[t] \/ parked'[t] = NoLoad,
         \A d \in Loads : Made(d) => entry'[d].module = entry[d].module
  PROVE  DescentOf(t)'
<1>1. /\ DescentOf(t) /\ FrameOf(t) /\ WaiterOf(t)
      /\ \A i \in 1..Len(stack[t]) : stack[t][i].env \in Loads \cup {NoLoad}
  BY FrameTypes DEF Descents, Base, FramesHeld, Waiters
<1>2. \A i \in 1..Len(stack[t]) : stack[t][i].env # NoLoad =>
        entry'[stack[t][i].env].module = entry[stack[t][i].env].module
  BY <1>1 DEF FrameOf
<1>3. Len(stack[t]) \in Nat
  <2>1. stack[t] \in Seq(Frames)
    BY DEF Base, TypeOK
  <2> QED
    BY <2>1
<1>4. ASSUME NEW i \in 2..Len(stack[t])
      PROVE  /\ stack[t][i].env # NoLoad
             /\ stack[t][i - 1].env # NoLoad =>
                  entry'[stack[t][i].env].module \in graph[entry'[stack[t][i - 1].env].module]
  <2>1. i \in 1..Len(stack[t]) /\ i - 1 \in 1..Len(stack[t])
    BY <1>3
  <2> QED
    BY <1>1, <1>2, <2>1 DEF DescentOf
<1>5. ASSUME parked'[t] # NoLoad, stack[t][Len(stack[t])].env # NoLoad
      PROVE  entry'[parked[t]].module \in graph[entry'[stack[t][Len(stack[t])].env].module]
  <2>1. parked[t] # NoLoad /\ parked[t] \in Loads /\ stack[t] # <<>> /\ Made(parked[t])
    BY <1>1, <1>5 DEF WaiterOf, Base, TypeOK
  <2>2. Current(t) = stack[t][Len(stack[t])].env /\ Len(stack[t]) \in 1..Len(stack[t])
    BY <2>1, TopOf DEF Current
  <2> QED
    BY <1>1, <1>2, <1>5, <2>1, <2>2 DEF DescentOf
<1> QED
  BY <1>4, <1>5 DEF DescentOf, Current, Top

\* A strand that runs pushes a frame of a module its code names.
LEMMA PushDescent ==
  ASSUME Base, Descents, NEW s \in Strands, NEW f \in Frames, stack[s] # <<>>, parked[s] = NoLoad,
         stack' = [stack EXCEPT ![s] = Append(@, f)], graph' = graph, parked' = parked,
         \A d \in Loads : Made(d) => entry'[d].module = entry[d].module,
         f.env # NoLoad,
         Current(s) # NoLoad => entry'[f.env].module \in graph[entry[Current(s)].module]
  PROVE  Descents'
<1>1. /\ Len(stack[s]) \in Nat /\ Len(stack'[s]) = Len(stack[s]) + 1
      /\ \A i \in 1..Len(stack[s]) : stack'[s][i] = stack[s][i]
      /\ stack'[s][Len(stack[s]) + 1] = f
      /\ \A t \in Strands \ {s} : stack'[t] = stack[t]
  BY PushOf DEF Base
<1>2. Len(stack[s]) \in 1..Len(stack[s]) /\ Current(s) = stack[s][Len(stack[s])].env
  BY TopOf DEF Current
<1>3. \A t \in Strands \ {s} : DescentOf(t)'
  BY <1>1, DescentKept
<1>4. /\ DescentOf(s) /\ FrameOf(s)
      /\ \A i \in 1..Len(stack[s]) : stack[s][i].env \in Loads \cup {NoLoad}
  BY FrameTypes DEF Descents, Base, FramesHeld
<1>5. \A i \in 1..Len(stack[s]) : stack[s][i].env # NoLoad =>
        entry'[stack[s][i].env].module = entry[stack[s][i].env].module
  BY <1>4 DEF FrameOf
<1>6. ASSUME NEW i \in 2..(Len(stack[s]) + 1)
      PROVE  /\ stack'[s][i].env # NoLoad
             /\ stack'[s][i - 1].env # NoLoad =>
                  entry'[stack'[s][i].env].module \in graph[entry'[stack'[s][i - 1].env].module]
  <2>1. CASE i = Len(stack[s]) + 1
    <3>1. i - 1 = Len(stack[s])
      BY <1>1, <2>1
    <3>2. stack'[s][i] = f /\ stack'[s][i - 1] = stack[s][Len(stack[s])]
      BY <1>1, <1>2, <2>1, <3>1
    <3>3. stack[s][Len(stack[s])].env # NoLoad => entry'[Current(s)].module = entry[Current(s)].module
      BY <1>2, <1>5
    <3> QED
      BY <1>2, <3>2, <3>3
  <2>2. CASE i # Len(stack[s]) + 1
    <3>1. i \in 2..Len(stack[s]) /\ i \in 1..Len(stack[s]) /\ i - 1 \in 1..Len(stack[s])
      BY <1>1, <2>2
    <3>2. stack'[s][i] = stack[s][i] /\ stack'[s][i - 1] = stack[s][i - 1]
      BY <1>1, <3>1
    <3> QED
      BY <1>4, <1>5, <3>1, <3>2 DEF DescentOf
  <2> QED
    BY <2>1, <2>2
<1>7. DescentOf(s)'
  BY <1>1, <1>6 DEF DescentOf
<1> QED
  BY <1>3, <1>7 DEF Descents

LEMMA PopDescent ==
  ASSUME Base, Descents, NEW s \in Strands, stack[s] # <<>>, parked[s] = NoLoad,
         stack' = [stack EXCEPT ![s] = Pop(s)], graph' = graph, parked' = parked,
         \A d \in Loads : Made(d) => entry'[d].module = entry[d].module
  PROVE  Descents'
<1>1. /\ Len(stack[s]) \in Nat \ {0} /\ Len(stack'[s]) = Len(stack[s]) - 1
      /\ \A i \in 1..Len(stack'[s]) : i \in 1..Len(stack[s]) /\ stack'[s][i] = stack[s][i]
      /\ \A t \in Strands \ {s} : stack'[t] = stack[t]
  BY PopOf DEF Base
<1>2. \A t \in Strands \ {s} : DescentOf(t)'
  BY <1>1, DescentKept
<1>3. /\ DescentOf(s) /\ FrameOf(s)
      /\ \A i \in 1..Len(stack[s]) : stack[s][i].env \in Loads \cup {NoLoad}
  BY FrameTypes DEF Descents, Base, FramesHeld
<1>4. \A i \in 1..Len(stack[s]) : stack[s][i].env # NoLoad =>
        entry'[stack[s][i].env].module = entry[stack[s][i].env].module
  BY <1>3 DEF FrameOf
<1>5. ASSUME NEW i \in 2..Len(stack'[s])
      PROVE  /\ stack'[s][i].env # NoLoad
             /\ stack'[s][i - 1].env # NoLoad =>
                  entry'[stack'[s][i].env].module \in graph[entry'[stack'[s][i - 1].env].module]
  <2>1. /\ i \in 1..Len(stack'[s]) /\ i - 1 \in 1..Len(stack'[s])
        /\ i \in 2..Len(stack[s]) /\ i \in 1..Len(stack[s]) /\ i - 1 \in 1..Len(stack[s])
    BY <1>1
  <2>2. stack'[s][i] = stack[s][i] /\ stack'[s][i - 1] = stack[s][i - 1]
    BY <1>1, <2>1
  <2> QED
    BY <1>3, <1>4, <2>1, <2>2 DEF DescentOf
<1>6. DescentOf(s)'
  BY <1>5 DEF DescentOf
<1> QED
  BY <1>2, <1>6 DEF Descents

LEMMA DescentsStart == Init => Descents
<1> SUFFICES ASSUME Init, NEW s \in Strands PROVE DescentOf(s)
  BY DEF Descents
<1> DEFINE f == [env |-> NoLoad, leads |-> FALSE]
<1>1. (stack[s] = <<f>> \/ stack[s] = <<>>) /\ parked[s] = NoLoad
  BY DEF Init
<1> HIDE DEF f
<1>2. Len(stack[s]) < 2 /\ Len(stack[s]) \in Nat
  <2>1. Len(<<f>>) = 1 /\ Len(<<>>) = 0
    OBVIOUS
  <2>2. Len(stack[s]) = 1 \/ Len(stack[s]) = 0
    BY <1>1, <2>1
  <2>3. \A n : n = 1 \/ n = 0 => n < 2 /\ n \in Nat
    OBVIOUS
  <2> QED
    BY <2>2, <2>3
<1> QED
  BY <1>1, <1>2 DEF DescentOf

LEMMA DescentsStep == Base /\ Descents /\ [Next]_vars => Descents'
<1> SUFFICES ASSUME Base, Descents, [Next]_vars PROVE Descents'
  OBVIOUS
<1>0. graph' = graph
  BY GraphKept
<1>1. CASE UNCHANGED <<entry, stack, parked>>
  BY <1>0, <1>1, DescentKept DEF Descents
<1>2. ASSUME NEW s \in Strands, NEW m \in ModuleNames, Wait(s, m) PROVE Descents'
  <2>1. /\ stack[s] # <<>> /\ registry[m] \in Loads
        /\ \A d \in Loads : entry'[d].module = entry[d].module
    BY <1>2, WaitEntry
  <2>2. stack' = stack /\ parked' = [parked EXCEPT ![s] = registry[m]] /\ m \in Named(s)
        /\ registry[m] # NoLoad
    BY <1>2 DEF Wait, InFlight
  <2>3. \A t \in Strands \ {s} : DescentOf(t)'
    <3>1. \A t \in Strands \ {s} : parked'[t] = parked[t]
      BY <2>2 DEF Base, TypeOK
    <3> QED
      BY <1>0, <2>1, <2>2, <3>1, DescentKept
  <2>4. parked'[s] = registry[m] /\ entry[registry[m]].module = m
    BY <2>2, RegistryOf DEF Base, TypeOK
  <2>5. DescentOf(s) /\ \A i \in 1..Len(stack[s]) : stack[s][i].env \in Loads \cup {NoLoad}
    BY FrameTypes DEF Descents, Base
  <2>6. Len(stack[s]) \in 1..Len(stack[s]) /\ Len(stack[s]) \in Nat /\ Current(s) = stack[s][Len(stack[s])].env
    BY <2>1, TopOf DEF Current
  <2>7. Current(s) # NoLoad => m \in graph[entry'[Current(s)].module]
    <3>1. Current(s) # NoLoad => Current(s) \in Loads
      BY <2>1, TopOf
    <3> QED
      BY <2>1, <2>2, <3>1 DEF Named
  <2>8. ASSUME NEW i \in 2..Len(stack[s])
        PROVE  /\ stack[s][i].env # NoLoad
               /\ stack[s][i - 1].env # NoLoad =>
                    entry'[stack[s][i].env].module \in graph[entry'[stack[s][i - 1].env].module]
    <3>1. i \in 1..Len(stack[s]) /\ i - 1 \in 1..Len(stack[s])
      BY <2>6
    <3> QED
      BY <2>1, <2>5, <3>1 DEF DescentOf
  <2>9. DescentOf(s)'
    BY <1>0, <2>1, <2>2, <2>4, <2>6, <2>7, <2>8 DEF DescentOf, Current, Top
  <2> QED
    BY <2>3, <2>9 DEF Descents
<1>3. ASSUME NEW s \in Strands, Resume(s) PROVE Descents'
  <2>1. \A d \in Loads : entry'[d].module = entry[d].module
    BY <1>3, ResumeEntry
  <2>2. stack' = stack /\ parked' = [parked EXCEPT ![s] = NoLoad]
    BY <1>3 DEF Resume
  <2>3. \A t \in Strands : parked'[t] = parked[t] \/ parked'[t] = NoLoad
    BY <2>2 DEF Base, TypeOK
  <2> QED
    BY <1>0, <2>1, <2>2, <2>3, DescentKept DEF Descents
<1>4. ASSUME NEW s \in Strands, NEW m \in ModuleNames, NEW e \in Loads, Lead(s, m, e) PROVE Descents'
  <2> DEFINE f == [env |-> e, leads |-> TRUE]
  <2>1. /\ stack[s] # <<>> /\ parked[s] = NoLoad /\ ~Made(e) /\ e # NoLoad
        /\ (\A d \in Loads \ {e} : entry'[d] = entry[d])
        /\ entry'[e].module = m
    <3>1. entry'[e] = [module |-> m, phase |-> "loading", chain |-> Chain(s) \cup {m}, waitsFor |-> {}]
      BY <1>4, LeadEntry
    <3> QED
      BY <1>4, <3>1, LeadEntry
  <2>2. stack' = [stack EXCEPT ![s] = Append(@, f)] /\ parked' = parked /\ m \in Named(s)
    BY <1>4 DEF Lead
  <2>3. f \in Frames /\ f.env = e
    BY DEF Frames
  <2> HIDE DEF f
  <2>4. Current(s) # NoLoad => m \in graph[entry[Current(s)].module]
    BY <2>2 DEF Named
  <2>5. \A d \in Loads : Made(d) => entry'[d].module = entry[d].module
    BY <2>1
  <2> QED
    BY <1>0, <2>1, <2>2, <2>3, <2>4, <2>5, PushDescent
<1>5. ASSUME NEW s \in Strands, NEW phase \in {"loaded", "failed"}, Finish(s, phase) PROVE Descents'
  <2>1. /\ stack[s] # <<>> /\ parked[s] = NoLoad
        /\ \A d \in Loads : entry'[d].module = entry[d].module
    BY <1>5, FinishEntry
  <2>2. stack' = [stack EXCEPT ![s] = Pop(s)] /\ parked' = parked
    BY <1>5 DEF Finish
  <2> QED
    BY <1>0, <2>1, <2>2, PopDescent
<1>6. ASSUME NEW s \in Strands, NEW m \in ModuleNames, Call(s, m) PROVE Descents'
  <2> DEFINE f == [env |-> registry[m], leads |-> FALSE]
  <2>1. /\ stack[s] # <<>> /\ parked[s] = NoLoad /\ entry' = entry /\ parked' = parked
        /\ stack' = [stack EXCEPT ![s] = Append(@, f)] /\ m \in Named(s) /\ registry[m] # NoLoad
    BY <1>6 DEF Call, Running
  <2>2. f \in Frames /\ f.env = registry[m] /\ entry[registry[m]].module = m
    BY <2>1, RegistryOf DEF Base, Frames
  <2> HIDE DEF f
  <2>3. Current(s) # NoLoad => m \in graph[entry[Current(s)].module]
    BY <2>1 DEF Named
  <2> QED
    BY <1>0, <2>1, <2>2, <2>3, PushDescent
<1>7. ASSUME NEW s \in Strands, Return(s) PROVE Descents'
  <2>1. /\ stack[s] # <<>> /\ parked[s] = NoLoad /\ entry' = entry /\ parked' = parked
        /\ stack' = [stack EXCEPT ![s] = Pop(s)]
    BY <1>7 DEF Return, Running
  <2> QED
    BY <1>0, <2>1, PopDescent
<1>8. ASSUME NEW s \in Strands, NEW t \in Strands, Spawn(s, t) PROVE Descents'
  <2> DEFINE f == [env |-> Current(s), leads |-> FALSE]
  <2>1. entry' = entry /\ parked' = parked /\ stack' = [stack EXCEPT ![t] = <<f>>] /\ t \in unborn
    BY <1>8 DEF Spawn
  <2> HIDE DEF f
  <2>2. stack'[t] = <<f>> /\ \A u \in Strands \ {t} : stack'[u] = stack[u]
    BY <2>1 DEF Base, TypeOK
  <2>3. Len(stack'[t]) = 1 /\ parked'[t] = NoLoad
    BY <2>1, <2>2 DEF Base, Waiters, WaiterOf
  <2>4. DescentOf(t)'
    BY <2>3 DEF DescentOf
  <2>5. \A u \in Strands \ {t} : DescentOf(u)'
    BY <1>0, <2>1, <2>2, DescentKept
  <2> QED
    BY <2>4, <2>5 DEF Descents
<1> QED
  BY <1>1, <1>2, <1>3, <1>4, <1>5, <1>6, <1>7, <1>8 DEF Next, Imports, Ends, Refuse, vars

LEMMA LedStart == Init => Led
  BY DEF Init, Led, InFlight, NoEntry

\* Strands that keep their frames keep the loads they lead.
LEMMA LedKept ==
  ASSUME Led,
         \A d \in Loads : InFlight(d)' => InFlight(d),
         \A s \in Strands : \A e \in Leading(s) : InFlight(e)' => e \in Leading(s)'
  PROVE  Led'
  BY DEF Led

LEMMA LedStep == Base /\ Led /\ [Next]_vars => Led'
<1> SUFFICES ASSUME Base, Led, [Next]_vars PROVE Led'
  OBVIOUS
<1>1. CASE UNCHANGED <<entry, stack>>
  BY <1>1, LedKept DEF InFlight, Leading
<1>2. ASSUME NEW s \in Strands, NEW m \in ModuleNames, Wait(s, m) PROVE Led'
  <2>1. (\A d \in Loads : entry'[d].phase = entry[d].phase) /\ stack' = stack
    BY <1>2, WaitEntry DEF Wait
  <2> QED
    BY <2>1, LedKept DEF InFlight, Leading
<1>3. ASSUME NEW s \in Strands, Resume(s) PROVE Led'
  <2>1. (\A d \in Loads : entry'[d].phase = entry[d].phase) /\ stack' = stack
    BY <1>3, ResumeEntry DEF Resume
  <2> QED
    BY <2>1, LedKept DEF InFlight, Leading
<1>4. ASSUME NEW s \in Strands, NEW f \in Frames, stack[s] # <<>>,
             stack' = [stack EXCEPT ![s] = Append(@, f)],
             \A d \in Loads : InFlight(d)' => InFlight(d) \/ (f.leads /\ d = f.env)
      PROVE  Led'
  <2>1. /\ Len(stack[s]) \in Nat /\ Len(stack'[s]) = Len(stack[s]) + 1
        /\ \A i \in 1..Len(stack[s]) : stack'[s][i] = stack[s][i]
        /\ stack'[s][Len(stack[s]) + 1] = f
        /\ \A t \in Strands \ {s} : stack'[t] = stack[t]
    BY <1>4, PushOf DEF Base
  <2>2. \A t \in Strands : \A e \in Leading(t) : e \in Leading(t)'
    <3> SUFFICES ASSUME NEW t \in Strands, NEW e \in Leading(t) PROVE e \in Leading(t)'
      OBVIOUS
    <3>1. PICK i \in 1..Len(stack[t]) : stack[t][i].leads /\ stack[t][i].env = e
      BY DEF Leading
    <3>2. i \in 1..Len(stack'[t]) /\ stack'[t][i] = stack[t][i]
      BY <2>1
    <3> QED
      BY <3>1, <3>2 DEF Leading
  <2>3. f.leads => f.env \in Leading(s)'
    <3>1. Len(stack[s]) + 1 \in 1..Len(stack'[s])
      BY <2>1
    <3> QED
      BY <2>1, <3>1 DEF Leading
  <2> QED
    BY <1>4, <2>2, <2>3 DEF Led
<1>5. ASSUME NEW s \in Strands, stack[s] # <<>>, stack' = [stack EXCEPT ![s] = Pop(s)],
             \A d \in Loads : InFlight(d)' => InFlight(d) /\ ~(Top(s).leads /\ d = Current(s))
      PROVE  Led'
  <2>1. /\ Len(stack[s]) \in Nat \ {0} /\ Len(stack'[s]) = Len(stack[s]) - 1
        /\ \A i \in 1..Len(stack'[s]) : i \in 1..Len(stack[s]) /\ stack'[s][i] = stack[s][i]
        /\ \A t \in Strands \ {s} : stack'[t] = stack[t]
    BY <1>5, PopOf DEF Base
  <2>2. ASSUME NEW t \in Strands, NEW e \in Leading(t), InFlight(e)' PROVE e \in Leading(t)'
    <3>1. PICK i \in 1..Len(stack[t]) : stack[t][i].leads /\ stack[t][i].env = e
      BY DEF Leading
    <3>2. e \in Loads \cup {NoLoad} /\ e # NoLoad
      BY <2>2, <3>1, FrameTypes DEF Base, InFlight
    <3>3. ~(t = s /\ i = Len(stack[s]))
      BY <1>5, <2>2, <3>1, <3>2 DEF Top, Current
    <3>4. i \in 1..Len(stack'[t]) /\ stack'[t][i] = stack[t][i]
      BY <2>1, <3>3
    <3> QED
      BY <3>1, <3>4 DEF Leading
  <2> QED
    BY <1>5, <2>2, LedKept
<1>6. ASSUME NEW s \in Strands, NEW m \in ModuleNames, NEW e \in Loads, Lead(s, m, e) PROVE Led'
  <2> DEFINE f == [env |-> e, leads |-> TRUE]
  <2>1. stack[s] # <<>> /\ \A d \in Loads \ {e} : entry'[d] = entry[d]
    BY <1>6, LeadEntry, ZenonT(40)
  <2>2. f \in Frames /\ f.leads /\ f.env = e /\ stack' = [stack EXCEPT ![s] = Append(@, f)]
    BY <1>6 DEF Frames, Lead
  <2> HIDE DEF f
  <2>3. \A d \in Loads : InFlight(d)' => InFlight(d) \/ (f.leads /\ d = f.env)
    BY <2>1, <2>2 DEF InFlight
  <2> QED
    BY <1>4, <2>1, <2>2, <2>3
<1>7. ASSUME NEW s \in Strands, NEW phase \in {"loaded", "failed"}, Finish(s, phase) PROVE Led'
  <2>1. /\ stack[s] # <<>> /\ entry'[Current(s)].phase = phase
        /\ \A d \in Loads \ {Current(s)} : entry'[d] = entry[d]
    BY <1>7, FinishEntry
  <2>2. stack' = [stack EXCEPT ![s] = Pop(s)]
    BY <1>7 DEF Finish
  <2>3. \A d \in Loads : InFlight(d)' => InFlight(d) /\ ~(Top(s).leads /\ d = Current(s))
    BY <2>1 DEF InFlight
  <2> QED
    BY <1>5, <2>1, <2>2, <2>3
<1>8. ASSUME NEW s \in Strands, NEW m \in ModuleNames, Call(s, m) PROVE Led'
  <2> DEFINE f == [env |-> registry[m], leads |-> FALSE]
  <2>1. /\ stack[s] # <<>> /\ entry' = entry /\ registry[m] # NoLoad
        /\ stack' = [stack EXCEPT ![s] = Append(@, f)]
    BY <1>8 DEF Call, Running
  <2>2. f \in Frames
    BY <2>1, RegistryOf DEF Base, Frames
  <2> HIDE DEF f
  <2> QED
    BY <1>4, <2>1, <2>2 DEF InFlight
<1>9. ASSUME NEW s \in Strands, Return(s) PROVE Led'
  <2>1. /\ stack[s] # <<>> /\ entry' = entry /\ ~Top(s).leads /\ stack' = [stack EXCEPT ![s] = Pop(s)]
    BY <1>9 DEF Return, Running
  <2> QED
    BY <1>5, <2>1 DEF InFlight
<1>10. ASSUME NEW s \in Strands, NEW t \in Strands, Spawn(s, t) PROVE Led'
  <2> DEFINE f == [env |-> Current(s), leads |-> FALSE]
  <2>1. entry' = entry /\ stack' = [stack EXCEPT ![t] = <<f>>] /\ t \in unborn
    BY <1>10 DEF Spawn
  <2> HIDE DEF f
  <2>2. \A u \in Strands \ {t} : stack'[u] = stack[u]
    BY <2>1 DEF Base, TypeOK
  <2>3. stack[t] = <<>>
    BY <2>1 DEF Base, Waiters, WaiterOf
  <2>4. \A e : e \notin Leading(t)
    BY <2>3 DEF Leading
  <2>5. \A u \in Strands : \A e \in Leading(u) : e \in Leading(u)'
    BY <2>2, <2>4 DEF Leading
  <2> QED
    BY <2>1, <2>5, LedKept DEF InFlight
<1> QED
  BY <1>1, <1>2, <1>3, <1>6, <1>7, <1>8, <1>9, <1>10 DEF Next, Imports, Ends, Refuse, vars

-----------------------------------------------------------------------------
Below == {p \in Nat \X Nat : p[1] < p[2]}

LEMMA BelowWellFounded == IsWellFoundedOn(Below, Nat)
  BY NatLessThanWellFounded DEF OpToRel, Below

\* A set of naturals that holds one has a least one.
LEMMA Least ==
  ASSUME NEW T \in SUBSET Nat, T # {}
  PROVE  \E x \in T : \A y \in T : x <= y
<1>1. \A x, y \in Nat : y < x => <<y, x>> \in Below
  BY DEF Below
<1>2. PICK x \in T : \A y \in T : ~(<<y, x>> \in Below)
  BY BelowWellFounded, WFMin
<1>3. \A y \in T : y \in Nat /\ x \in Nat /\ ~(y < x)
  BY <1>1, <1>2
<1> QED
  BY <1>3

\* What an activation, or the wait above all of them, is for is reached from the
\* module of every activation below it.
LEMMA DescentReaches ==
  ASSUME Base, Descents, NEW s \in Strands, NEW i \in 2..Len(stack[s]), parked[s] # NoLoad
  PROVE  /\ entry[stack[s][i].env].module \in ModuleNames
         /\ Reaches(entry[stack[s][i].env].module, entry[parked[s]].module)
<1> DEFINE M(j) == entry[stack[s][j].env].module
           n == Len(stack[s])
           T == {j \in i..n : ~(M(j) = M(i) \/ Reaches(M(i), M(j)))}
<1>1. n \in Nat /\ DescentOf(s) /\ stack[s] # <<>>
  <2>1. stack[s] \in Seq(Frames)
    BY DEF Base, TypeOK
  <2> QED
    BY <2>1 DEF Descents, Base, Waiters, WaiterOf
<1>2. \A j \in 2..n : stack[s][j].env \in Loads /\ stack[s][j].env # NoLoad /\ M(j) \in ModuleNames
  <2> SUFFICES ASSUME NEW j \in 2..n
               PROVE  stack[s][j].env \in Loads /\ stack[s][j].env # NoLoad /\ M(j) \in ModuleNames
    OBVIOUS
  <2>1. j \in 1..n
    BY <1>1
  <2>2. stack[s][j].env # NoLoad
    BY <1>1 DEF DescentOf
  <2>3. stack[s][j].env \in Loads /\ Made(stack[s][j].env)
    BY <2>1, <2>2, FrameTypes DEF Base, FramesHeld, FrameOf
  <2>4. entry[stack[s][j].env] \in Entries
    BY <2>3 DEF Base, TypeOK, Made
  <2> QED
    BY <2>2, <2>3, <2>4 DEF Entries
<1>3. ASSUME NEW j \in (i + 1)..n PROVE j - 1 \in i..n /\ M(j) \in graph[M(j - 1)]
  <2>1. j \in 2..n /\ j - 1 \in 2..n /\ j - 1 \in i..n
    BY <1>1
  <2> QED
    BY <1>1, <1>2, <2>1 DEF DescentOf
<1>4. T = {}
  <2> SUFFICES ASSUME T # {} PROVE FALSE
    OBVIOUS
  <2>1. T \in SUBSET Nat
    BY <1>1
  <2>2. PICK j \in T : \A k \in T : j <= k
    BY <2>1, Least
  <2>3. j \in i..n /\ ~(M(j) = M(i) \/ Reaches(M(i), M(j)))
    OBVIOUS
  <2>a. \A k \in i..n : k \notin T => M(k) = M(i) \/ Reaches(M(i), M(k))
    OBVIOUS
  <2> HIDE DEF M, T
  <2>4. j \in (i + 1)..n
    <3>1. j # i
      BY <2>3
    <3> QED
      BY <1>1, <2>3, <3>1
  <2>5. j - 1 \in i..n /\ M(j) \in graph[M(j - 1)] /\ j - 1 \in 2..n
    <3>1. j - 1 \in i..n /\ j - 1 \in 2..n
      BY <1>1, <2>4
    <3> QED
      BY <1>3, <2>4, <3>1
  <2>6. j - 1 \notin T
    <3>1. j \in Nat /\ ~(j <= j - 1)
      BY <1>1, <2>3
    <3> QED
      BY <2>2, <3>1
  <2>7. M(j - 1) = M(i) \/ Reaches(M(i), M(j - 1))
    BY <2>5, <2>6, <2>a
  <2>8. M(i) \in ModuleNames /\ M(j - 1) \in ModuleNames
    BY <1>2, <2>5
  <2>9. Reaches(M(i), M(j))
    BY <2>5, <2>7, <2>8, ReachStep DEF Base
  <2> QED
    BY <2>3, <2>9
<1>5. n \in i..n /\ n \in 2..n /\ Current(s) = stack[s][n].env
  BY <1>1 DEF Current, Top
<1>6. M(n) = M(i) \/ Reaches(M(i), M(n))
  BY <1>4, <1>5
<1>7. entry[parked[s]].module \in graph[M(n)] /\ M(n) \in ModuleNames /\ M(i) \in ModuleNames
  BY <1>1, <1>2, <1>5 DEF DescentOf
<1> HIDE DEF M, T
<1>8. Reaches(M(i), entry[parked[s]].module)
  BY <1>6, <1>7, ReachStep DEF Base
<1> QED
  BY <1>7, <1>8 DEF M

LEMMA ReachIn ==
  ASSUME TypeOK, NEW x \in ModuleNames, NEW y, Reaches(x, y)
  PROVE  y \in ModuleNames
<1>1. graph[x] \subseteq ModuleNames /\ \A z \in ModuleNames : graph[z] \subseteq ModuleNames
  BY GraphOf
<1> QED
  BY <1>1 DEF Reaches

LEMMA ReachOn ==
  ASSUME TypeOK, NEW x \in ModuleNames, NEW y \in ModuleNames, NEW z, Reaches(x, y), Reaches(y, z)
  PROVE  Reaches(x, z)
<1> SUFFICES ASSUME NEW S \in SUBSET ModuleNames, graph[x] \subseteq S, \A u \in S : graph[u] \subseteq S
             PROVE  z \in S
  BY DEF Reaches
<1>1. y \in S
  BY DEF Reaches
<1> QED
  BY <1>1 DEF Reaches

\* Strands that wait for loads of each other wait for modules that reach each other:
\* of the modules they wait for, the one that reaches least cannot be among them.
LEMMA CircleOrFree ==
  ASSUME Base, Descents, NoCircle
  PROVE  NoImportDeadlock
<1> SUFFICES ASSUME NEW S \in SUBSET Strands, Deadlocked(S) PROVE FALSE
  BY DEF NoImportDeadlock
<1> DEFINE W(s) == entry[parked[s]].module
           R(s) == {m \in ModuleNames : Reaches(W(s), m)}
           T == {R(s) : s \in S}
<1>1. ASSUME NEW s \in S PROVE W(s) \in ModuleNames
  <2>1. parked[s] \in Loads /\ Made(parked[s])
    BY DEF Deadlocked, Base, TypeOK, Waiters, WaiterOf
  <2>2. entry[parked[s]] \in Entries
    BY <2>1 DEF Base, TypeOK, Made
  <2> QED
    BY <2>2 DEF Entries
<1>2. ASSUME NEW s \in S PROVE \E t \in S : Reaches(W(s), W(t))
  <2>1. PICK t \in S : parked[s] \in Leading(t)
    BY DEF Deadlocked
  <2>2. PICK i \in 1..Len(stack[t]) : stack[t][i].leads /\ stack[t][i].env = parked[s]
    BY <2>1 DEF Leading
  <2>3. i > 1
    BY <2>2 DEF Base, FramesHeld, FrameOf
  <2>4. i \in 2..Len(stack[t])
    <3>1. \A k \in Nat : \A j \in 1..k : j > 1 => j \in 2..k
      OBVIOUS
    <3>2. stack[t] \in Seq(Frames)
      BY DEF Base, TypeOK
    <3>3. Len(stack[t]) \in Nat
      BY <3>2
    <3> QED
      BY <2>3, <3>1, <3>3
  <2>5. parked[t] # NoLoad
    BY DEF Deadlocked
  <2> QED
    BY <2>2, <2>4, <2>5, DescentReaches
<1>3. T \subseteq SUBSET ModuleNames /\ T # {}
  BY DEF Deadlocked
<1>4. IsWellFoundedOn(StrictSubsetOrdering(ModuleNames), SUBSET ModuleNames)
  BY FS_FiniteSubsetsOfFinite, FS_StrictSubsetOrderingWellFounded, ModulesAssumption
<1>5. PICK x \in T : \A y \in T : ~(<<y, x>> \in StrictSubsetOrdering(ModuleNames))
  <2> HIDE DEF T
  <2> QED
    BY <1>3, <1>4, WFMin
<1>6. PICK s \in S : x = R(s)
  BY <1>5
<1>7. PICK t \in S : Reaches(W(s), W(t))
  BY <1>2
<1>8. W(s) \in ModuleNames /\ W(t) \in ModuleNames
  BY <1>1
<1>9. R(t) \subseteq R(s)
  <2> HIDE DEF W
  <2> QED
    BY <1>7, <1>8, ReachOn DEF Base
<1>10. W(t) \in R(s) /\ W(t) \notin R(t)
  BY <1>7, <1>8 DEF NoCircle
<1>11. <<R(t), R(s)>> \in StrictSubsetOrdering(ModuleNames)
  <2>1. R(t) \subseteq R(s) /\ R(t) # R(s) /\ R(t) \in SUBSET ModuleNames /\ R(s) \in SUBSET ModuleNames
    BY <1>9, <1>10
  <2> HIDE DEF R
  <2> QED
    BY <2>1 DEF StrictSubsetOrdering
<1> QED
  BY <1>5, <1>6, <1>11

LEMMA DescentsInvariant == Spec => []Descents
  BY BaseInvariant, DescentsStart, DescentsStep, PTL DEF Spec

\* REFERENCE.md:339 of the programs whose imports form no circle: no strands wait
\* for each other's loads, however many modules each has begun to load and however
\* many strands share a module's code (loadModule, moduleWaitPath).
THEOREM ImportsNeverDeadlock == Spec => [](NoCircle => NoImportDeadlock)
  BY BaseInvariant, DescentsInvariant, CircleOrFree, PTL

\* What Ends(s) asks for: s runs, or the load it waits for is over.
CanEnd(s) == Running(s) \/ (parked[s] # NoLoad /\ ~InFlight(parked[s]))

\* Some strand can go on as long as any has code to run.
NeverStuck == NoCircle => ((\E s \in Strands : stack[s] # <<>>) => \E s \in Strands : CanEnd(s))

\* Without a circle an import is answered as long as strands go on: the load that
\* anyone waits for is led, and of the leaders one can always step (the closed done
\* channel of loadModule, and its deferred clean-up, reach every waiter).
THEOREM ImportsAreNeverStuck == Spec => []NeverStuck
<1>1. Base /\ Descents /\ Led => NeverStuck
  <2> SUFFICES ASSUME Base, Descents, Led, NoCircle, \E s \in Strands : stack[s] # <<>>,
                      \A s \in Strands : ~CanEnd(s)
               PROVE  FALSE
    BY DEF NeverStuck
  <2> DEFINE S == {s \in Strands : stack[s] # <<>>}
  <2>1. ASSUME NEW s \in S PROVE parked[s] # NoLoad /\ \E t \in S : parked[s] \in Leading(t)
    <3>1. parked[s] # NoLoad /\ InFlight(parked[s]) /\ parked[s] \in Loads
      BY <2>1 DEF CanEnd, Running, Base, TypeOK
    <3>2. PICK t \in Strands : parked[s] \in Leading(t)
      BY <3>1 DEF Led
    <3>3. stack[t] # <<>>
      BY <3>2 DEF Leading
    <3> QED
      BY <3>1, <3>2, <3>3
  <2>2. Deadlocked(S)
    BY <2>1 DEF Deadlocked
  <2>3. S \in SUBSET Strands
    OBVIOUS
  <2> QED
    BY <2>2, <2>3, CircleOrFree DEF NoImportDeadlock
<1> QED
  BY <1>1, BaseInvariant, DescentsInvariant, LedStart, LedStep, PTL DEF Spec

\* What a strand may still do: each use of the bound, what it opens, and the end of it.
Left(s) ==
  3 * (MaxUses - uses[s]) + Len(stack[s])
    + (IF parked[s] = NoLoad THEN 0 ELSE 1) + (IF s \in unborn THEN 1 ELSE 0)

\* Each step takes from what a strand may still do, and gives to none.
StepsRunOut ==
  [][/\ \E s \in Strands : Left(s)' < Left(s)
     /\ \A s \in Strands : Left(s) \in Nat /\ Left(s)' <= Left(s)]_vars

LEMMA LeftOf ==
  ASSUME Base, NEW s \in Strands
  PROVE  /\ uses[s] \in 0..MaxUses /\ Len(stack[s]) \in Nat /\ MaxUses \in Nat /\ Left(s) \in Nat
<1>1. stack[s] \in Seq(Frames) /\ uses[s] \in 0..MaxUses /\ MaxUses \in Nat
  BY ModulesAssumption DEF Base, TypeOK
<1>2. Len(stack[s]) \in Nat
  BY <1>1
<1> QED
  BY <1>1, <1>2, SMTT(30) DEF Left

LEMMA LeftAfter ==
  ASSUME Base, [Next]_vars, NEW s \in Strands
  PROVE  Left(s)' \in Nat
<1>1. stack'[s] \in Seq(Frames) /\ uses'[s] \in 0..MaxUses /\ MaxUses \in Nat
  BY BaseStep, ModulesAssumption DEF Base, TypeOK
<1>2. Len(stack'[s]) \in Nat
  BY <1>1
<1> QED
  BY <1>1, <1>2, SMTT(30) DEF Left

\* A strand that is not the one that steps.
LEMMA LeftKept ==
  ASSUME Base, NEW t \in Strands, stack'[t] = stack[t], uses'[t] = uses[t], parked'[t] = parked[t],
         t \in unborn' <=> t \in unborn
  PROVE  Left(t)' = Left(t)
  BY DEF Left

\* The strand that steps uses once and opens one thing, or closes one.
LEMMA LeftFalls ==
  ASSUME Base, NEW s \in Strands, s \notin unborn, s \notin unborn',
         \/ /\ uses'[s] = uses[s] + 1 /\ uses[s] < MaxUses
            /\ Len(stack'[s]) \in {Len(stack[s]), Len(stack[s]) + 1}
            /\ parked[s] = NoLoad
         \/ uses'[s] = uses[s] /\ Len(stack'[s]) = Len(stack[s]) - 1 /\ parked'[s] = NoLoad
         \/ /\ uses'[s] = uses[s] /\ Len(stack'[s]) = Len(stack[s])
            /\ parked[s] # NoLoad /\ parked'[s] = NoLoad
  PROVE  Left(s)' < Left(s)
<1> DEFINE u == uses[s]
           v == uses'[s]
           k == Len(stack[s])
           l == Len(stack'[s])
           p == IF parked[s] = NoLoad THEN 0 ELSE 1
           q == IF parked'[s] = NoLoad THEN 0 ELSE 1
<1>1. u \in Int /\ k \in Int /\ MaxUses \in Int /\ p \in {0, 1} /\ q \in {0, 1}
  BY LeftOf
<1>2. Left(s) = 3 * (MaxUses - u) + k + p + 0 /\ Left(s)' = 3 * (MaxUses - v) + l + q + 0
  BY DEF Left
<1>3. \/ v = u + 1 /\ l \in {k, k + 1} /\ p = 0
      \/ v = u /\ l = k - 1 /\ q = 0
      \/ v = u /\ l = k /\ p = 1 /\ q = 0
  OBVIOUS
<1> HIDE DEF u, v, k, l, p, q
<1>4. 3 * (MaxUses - v) + l + q + 0 < 3 * (MaxUses - u) + k + p + 0
  BY <1>1, <1>3
<1> QED
  BY <1>2, <1>4

\* Imports, calls and spawns are bounded by MaxUses, and what they open ends once:
\* no load, wait or frame comes back by itself.  With ImportsAreNeverStuck this is
\* the argument for ImportsEnd, short of the fairness it assumes.
THEOREM ImportsRunOut == Spec => StepsRunOut
<1> DEFINE Falls == /\ \E s \in Strands : Left(s)' < Left(s)
                    /\ \A s \in Strands : Left(s) \in Nat /\ Left(s)' <= Left(s)
<1>1. Base /\ [Next]_vars => [Falls]_vars
  <2> SUFFICES ASSUME Base, Next PROVE Falls
    OBVIOUS
  <2>0. \A t \in Strands : Left(t) \in Nat
    BY LeftOf
  <2>1. ASSUME NEW s \in Strands, s \notin unborn, Left(s)' < Left(s), unborn' = unborn,
               \A t \in Strands \ {s} : stack'[t] = stack[t] /\ uses'[t] = uses[t] /\ parked'[t] = parked[t]
        PROVE  Falls
    <3>1. ASSUME NEW t \in Strands PROVE Left(t)' <= Left(t)
      <4>1. CASE t = s
        <5>1. Left(s) \in Nat /\ Left(s)' \in Int
          <6>1. Left(s)' \in Nat
            BY LeftAfter
          <6> QED
            BY <2>0, <6>1
        <5> QED
          BY <2>1, <4>1, <5>1
      <4>2. CASE t # s
        <5>1. Left(t)' = Left(t)
          BY <2>1, <4>2, LeftKept
        <5> QED
          BY <2>0, <5>1
      <4> QED
        BY <4>1, <4>2
    <3> QED
      BY <2>0, <2>1, <3>1
  <2>2. ASSUME NEW s \in Strands, stack[s] # <<>> PROVE s \notin unborn
    BY <2>2 DEF Base, Waiters, WaiterOf
  <2>3. ASSUME NEW s \in Strands, Use(s)
        PROVE  /\ uses'[s] = uses[s] + 1 /\ uses[s] < MaxUses
               /\ \A t \in Strands \ {s} : uses'[t] = uses[t]
    BY <2>3 DEF Use, Base, TypeOK
  <2>4. ASSUME NEW s \in Strands, NEW m \in ModuleNames, Refuse(s, m) PROVE Falls
    <3>1. Use(s) /\ stack' = stack /\ parked' = parked /\ unborn' = unborn
          /\ stack[s] # <<>> /\ parked[s] = NoLoad
      BY <2>4 DEF Refuse, Running
    <3> QED
      BY <2>1, <2>2, <2>3, <3>1, LeftFalls
  <2>5. ASSUME NEW s \in Strands, NEW m \in ModuleNames, Wait(s, m) PROVE Falls
    <3>1. /\ Use(s) /\ stack' = stack /\ unborn' = unborn
          /\ stack[s] # <<>> /\ parked[s] = NoLoad /\ parked' = [parked EXCEPT ![s] = registry[m]]
      BY <2>5 DEF Wait, Running
    <3>2. \A t \in Strands \ {s} : parked'[t] = parked[t]
      BY <3>1 DEF Base, TypeOK
    <3> QED
      BY <2>1, <2>2, <2>3, <3>1, <3>2, LeftFalls
  <2>6. ASSUME NEW s \in Strands, NEW m \in ModuleNames, NEW e \in Loads, Lead(s, m, e) PROVE Falls
    <3> DEFINE f == [env |-> e, leads |-> TRUE]
    <3>1. /\ Use(s) /\ parked' = parked /\ unborn' = unborn /\ stack[s] # <<>> /\ parked[s] = NoLoad
          /\ stack' = [stack EXCEPT ![s] = Append(@, f)] /\ f \in Frames
      BY <2>6 DEF Lead, Running, Frames
    <3> HIDE DEF f
    <3>2. Len(stack'[s]) = Len(stack[s]) + 1 /\ \A t \in Strands \ {s} : stack'[t] = stack[t]
      BY <3>1, PushOf DEF Base
    <3> QED
      BY <2>1, <2>2, <2>3, <3>1, <3>2, LeftFalls
  <2>7. ASSUME NEW s \in Strands, NEW m \in ModuleNames, Call(s, m) PROVE Falls
    <3> DEFINE f == [env |-> registry[m], leads |-> FALSE]
    <3>1. /\ Use(s) /\ parked' = parked /\ unborn' = unborn /\ stack[s] # <<>> /\ parked[s] = NoLoad
          /\ stack' = [stack EXCEPT ![s] = Append(@, f)] /\ registry[m] # NoLoad
      BY <2>7 DEF Call, Running
    <3>2. f \in Frames
      BY <3>1, RegistryOf DEF Base, Frames
    <3> HIDE DEF f
    <3>3. Len(stack'[s]) = Len(stack[s]) + 1 /\ \A t \in Strands \ {s} : stack'[t] = stack[t]
      BY <3>1, <3>2, PushOf DEF Base
    <3> QED
      BY <2>1, <2>2, <2>3, <3>1, <3>3, LeftFalls
  <2>8. ASSUME NEW s \in Strands, stack[s] # <<>>, parked[s] = NoLoad, parked' = parked,
               stack' = [stack EXCEPT ![s] = Pop(s)], uses' = uses, unborn' = unborn
        PROVE  Falls
    <3>1. Len(stack'[s]) = Len(stack[s]) - 1 /\ \A t \in Strands \ {s} : stack'[t] = stack[t]
      BY <2>8, PopOf DEF Base
    <3> QED
      BY <2>1, <2>2, <2>8, <3>1, LeftFalls
  <2>9. ASSUME NEW s \in Strands, Ends(s) PROVE Falls
    <3>1. CASE Resume(s)
      <4>1. /\ stack' = stack /\ uses' = uses /\ unborn' = unborn /\ parked[s] # NoLoad
            /\ parked' = [parked EXCEPT ![s] = NoLoad] /\ stack[s] # <<>>
        BY <3>1 DEF Resume, Base, Waiters, WaiterOf
      <4>2. parked'[s] = NoLoad /\ \A t \in Strands \ {s} : parked'[t] = parked[t]
        BY <4>1 DEF Base, TypeOK
      <4> QED
        BY <2>1, <2>2, <4>1, <4>2, LeftFalls
    <3>2. CASE Return(s)
      BY <2>8, <3>2 DEF Return, Running
    <3>3. ASSUME NEW phase \in {"loaded", "failed"}, Finish(s, phase) PROVE Falls
      BY <2>8, <3>3 DEF Finish, Running
    <3> QED
      BY <2>9, <3>1, <3>2, <3>3 DEF Ends
  <2>10. ASSUME NEW s \in Strands, NEW t \in Strands, Spawn(s, t) PROVE Falls
    <3> DEFINE f == [env |-> Current(s), leads |-> FALSE]
    <3>1. /\ Use(s) /\ parked' = parked /\ unborn' = unborn \ {t} /\ t \in unborn
          /\ stack' = [stack EXCEPT ![t] = <<f>>] /\ stack[s] # <<>> /\ parked[s] = NoLoad
      BY <2>10 DEF Spawn, Running
    <3> HIDE DEF f
    <3>2. s \notin unborn /\ s # t /\ stack[t] = <<>>
      BY <2>2, <3>1 DEF Base, Waiters, WaiterOf
    <3>3. stack'[t] = <<f>> /\ \A u \in Strands \ {t} : stack'[u] = stack[u]
      BY <3>1 DEF Base, TypeOK
    <3>4. Left(s)' < Left(s)
      BY <2>3, <3>1, <3>2, <3>3, LeftFalls
    <3>5. Left(t)' = Left(t)
      <4>1. Len(stack'[t]) = 1 /\ Len(stack[t]) = 0 /\ uses'[t] = uses[t]
        BY <2>3, <3>1, <3>2, <3>3
      <4>2. /\ Left(t) = 3 * (MaxUses - uses[t]) + 0 + (IF parked[t] = NoLoad THEN 0 ELSE 1) + 1
            /\ Left(t)' = 3 * (MaxUses - uses[t]) + 1 + (IF parked[t] = NoLoad THEN 0 ELSE 1) + 0
        BY <3>1, <4>1 DEF Left
      <4>3. uses[t] \in Int /\ MaxUses \in Int
        BY LeftOf
      <4> QED
        BY <4>2, <4>3
    <3>6. \A u \in Strands \ {s, t} : Left(u)' = Left(u)
      BY <2>3, <3>1, <3>3, LeftKept
    <3>7. Left(s) \in Nat /\ Left(s)' \in Nat
      BY <2>0, LeftAfter
    <3>8. \A u \in Strands : Left(u)' <= Left(u)
      BY <2>0, <3>4, <3>5, <3>6, <3>7
    <3> QED
      BY <2>0, <3>4, <3>8
  <2> QED
    BY <2>4, <2>5, <2>6, <2>7, <2>9, <2>10 DEF Next, Imports
<1> QED
  BY <1>1, BaseInvariant, PTL DEF Spec, StepsRunOut
=============================================================================
