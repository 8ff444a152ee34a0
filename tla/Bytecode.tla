------------------------------ MODULE Bytecode ------------------------------
(***************************************************************************)
(* railgun's bytecode: the body of a function made of statements           *)
(* (StatementMachine), or an expression (ExpressionMachine), at a time.    *)
(***************************************************************************)
EXTENDS StatementMachine, ExpressionMachine

NoStatement ==
  /\ program = <<>> /\ pc = 1 /\ registers = <<>> /\ env = 0
  /\ binary = [code |-> <<Jump("none")>>, handlers |-> <<>>, registers |-> 0]
  /\ iterators = <<>> /\ cache = <<>> /\ taken = <<>> /\ trace = <<>>
  /\ result = Running

NoExpression ==
  /\ source = <<>> /\ object = Start(FALSE) /\ at = 1 /\ regs = <<>> /\ world = <<>>
  /\ rax = Garbage /\ truth = <<>> /\ outcome = Executing

BInit == (SInit /\ NoExpression) \/ (EInit /\ NoStatement)

BNext ==
  \/ SNext /\ UNCHANGED evars
  \/ ENext /\ UNCHANGED svars

BSpec == BInit /\ [][BNext]_<<svars, evars>>
=============================================================================
