------------------------------- MODULE Syntax -------------------------------
(***************************************************************************)
(* The tokens the lexer delivers and the nodes the parser makes of them.   *)
(* A token's value is its text for a symbol or a string, its number for an *)
(* integer.  Positions are left out.                                       *)
(***************************************************************************)
EXTENDS Words, Sequences

CONSTANTS
  Symbols,   \* names: opcodes, registers and labels
  Literals,  \* contents of string literals
  NULL

ASSUME SyntaxAssumption == NULL \notin Word /\ NULL \notin Symbols

Punctuation == {"COLON", "COMMA", "BRACKET_OPEN", "BRACKET_CLOSE", "NEW_LINE", "EOF"}

Token ==
  [type : {"SYMBOL"}, value : Symbols]
    \cup [type : {"STRING"}, value : Literals]
    \cup [type : {"INT"}, value : Word]
    \cup [type : Punctuation, value : {NULL}]

Mark(type) == [type |-> type, value |-> NULL]

\* operand_simple_node and operand_mem_address_node
OperandNode ==
  [type : {"SIMPLE"}, token : {t \in Token : t.type \in {"SYMBOL", "STRING", "INT"}}]
    \cup [type : {"MEM_ADDRESS"}, register : Symbols, offset : Word \cup {NULL}]

InstructionNode == [opcode : Symbols, operands : Seq(OperandNode)]

\* A label without instructions is not made: its body starts with an instruction.
LabelNode == [name : Symbols, instructions : Seq(InstructionNode) \ {<< >>}]

TopLevelNode == [instructions : Seq(InstructionNode), labels : Seq(LabelNode)]
=============================================================================
