------------------------------ MODULE MCLanguage ------------------------------
(* The language as TLC checks it: programs on both backends, the integers    *)
(* they compute with, and source text through the formatter.  They do not    *)
(* interact, so a behaviour has one of them as its scene and the rest stand  *)
(* still.                                                                    *)
EXTENDS MCVM, Accumulator, MCFormatting

VARIABLE scene

-----------------------------------------------------------------------------
Scenes == {"machine", "integers", "text"}

(* Outside its scene, a component has one initial state. *)
Among(s, all, idle) == IF scene = s THEN all ELSE {idle}

(* Init, AccInit and FormatInit of these. *)
SceneInit ==
  /\ scene \in Scenes
  /\ prog \in Among("machine", AgreedCases, <<"registers", 1, 1, 1>>) /\ Init
  /\ held \in Among("integers", Word, 0) /\ AccInit
  /\ source \in Among("text", AllTexts, Programs[1]) /\ text = source

InMachine == scene = "machine" /\ UNCHANGED <<scene, accVars, formatVars>>
InIntegers == scene = "integers" /\ UNCHANGED <<scene, vars, formatVars>>
InText == scene = "text" /\ UNCHANGED <<scene, vars, accVars>>

(* Next, AccNext and FormatNext, action by action. *)
SceneNext ==
  \/ InMachine /\ LoadConst
  \/ InMachine /\ LoadNilOp
  \/ InMachine /\ Move
  \/ InMachine /\ BinOp
  \/ InMachine /\ BinKOp
  \/ InMachine /\ ConcatOp
  \/ InMachine /\ NegOp
  \/ InMachine /\ NotOp
  \/ InMachine /\ MakeArray
  \/ InMachine /\ MakeMap
  \/ InMachine /\ JumpUnhashable
  \/ InMachine /\ MakeRangeOp
  \/ InMachine /\ IndexOp
  \/ InMachine /\ FieldOp
  \/ InMachine /\ GetVar
  \/ InMachine /\ GetIdent
  \/ InMachine /\ DeclVar
  \/ InMachine /\ SetVar
  \/ InMachine /\ CompoundLocal
  \/ InMachine /\ CompoundLocalK
  \/ InMachine /\ CompoundVar
  \/ InMachine /\ ResolveLocal
  \/ InMachine /\ ResolveVarOp
  \/ InMachine /\ ResolveSlotOp
  \/ InMachine /\ AssignSlotOp
  \/ InMachine /\ PushScope
  \/ InMachine /\ PopScope
  \/ InMachine /\ Jump
  \/ InMachine /\ JumpIfFalsy
  \/ InMachine /\ JumpIfTruthy
  \/ InMachine /\ JumpIfDefined
  \/ InMachine /\ JumpIfErr
  \/ InMachine /\ JmpFalse
  \/ InMachine /\ JmpTrue
  \/ InMachine /\ IterNewOp
  \/ InMachine /\ IterNext1
  \/ InMachine /\ IterNext2
  \/ InMachine /\ MakeClosure
  \/ InMachine /\ CallOp
  \/ InMachine /\ CallBuiltin
  \/ InMachine /\ CallValue
  \/ InMachine /\ Propagate
  \/ InMachine /\ ReturnOp
  \/ InMachine /\ RunOff
  \/ \E k \in Word, op \in Integral : InIntegers /\ AccUpdate(op, k)
  \/ \E k \in Word : InIntegers /\ AccMeasure(k)
  \/ InText /\ Fmt

SceneSpec ==
  /\ SceneInit
  /\ [][SceneNext]_<<scene, vars, accVars, formatVars>>
  /\ WF_vars(InMachine /\ Next)

-----------------------------------------------------------------------------
(* Properties.                                                               *)

(* Every program the walker finishes comes to an end on the machine too: no  *)
(* patched jump closes a loop the source does not have, and no instruction   *)
(* is stuck (compileWhile, compileFor).                                      *)
MachineHalts == <>(scene = "machine" => end # "no")
=============================================================================
