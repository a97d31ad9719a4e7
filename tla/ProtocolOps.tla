------------------------------ MODULE ProtocolOps ------------------------------
(***************************************************************************)
(* The text protocol (src/src/protocol.py), as operators.  A line from a   *)
(* client is the sequence of its words: the parser does not tell spaces    *)
(* apart, except inside the value of a SET, which is the sequence of the   *)
(* words after the key.  An answer is a sequence of lines <<sigil, body>>. *)
(***************************************************************************)
EXTENDS Integers, Sequences, Responses, CommandOps

CONSTANTS Numbers,     \* the words that int() accepts, as the integers they are
          NullWord     \* the word "-1"

ASSUME NumbersAssumption == Numbers \subseteq Int

\* _ensure_arity, for each command.
Arities == [PING |-> {0}, SET |-> {2}, GET |-> {1}, DEL |-> {1}, EXPIRE |-> {2},
            TTL |-> {1}, MGET |-> Nat \ {0}, KEYS |-> {0, 1}, FLUSHALL |-> {0}]

\* Mutated _split_command: the value of a SET ends with its first word.
SplitAtSpaces(words) ==
  IF words[1] = "SET" /\ Len(words) >= 3 THEN <<words[2], <<words[3]>>>>
  ELSE Tail(words)

\* _split_command: the arguments.
SplitCommand(words) ==
  IF words[1] = "SET" /\ Len(words) >= 3
  THEN <<words[2], SubSeq(words, 3, Len(words))>>
  ELSE Tail(words)

\* The command that a verb and its arguments are to a worker.
RequestOf(verb, args) ==
  CASE verb = "SET"                   -> Command(verb, args[1], args[2])
    [] verb = "EXPIRE"                ->
         Command(verb, args[1], IF args[2] \in Numbers THEN args[2] ELSE None)
    [] verb \in {"GET", "DEL", "TTL"} -> Command(verb, args[1], None)
    [] verb = "MGET"                  -> Command(verb, args, None)
    [] verb = "KEYS"                  ->
         Command(verb, None, IF args = <<>> THEN Keys ELSE {args[1]})
    [] verb \in {"PING", "FLUSHALL"}  -> Command(verb, None, None)

\* parse_command: the error code of a line, or None ...
ParseError(words) ==
  CASE words = <<>> -> "INVALID_REQUEST"
    [] words # <<>> /\ words[1] \notin DOMAIN Arities -> "UNKNOWN_COMMAND"
    [] words # <<>> /\ words[1] \in DOMAIN Arities ->
         IF Len(SplitCommand(words)) \in Arities[words[1]] THEN None
         ELSE "WRONG_ARITY"

\* ... and the command of one without error.
ParseCommand(words) == RequestOf(words[1], SplitCommand(words))

\* A bulk string, or what stands for none.
BulkLine(value) == <<"$", IF value = None THEN <<NullWord>> ELSE value>>

\* serialize_response
SerializeResponse(response) ==
  CASE response[1] = "SIMPLE_STRING" -> <<<<"+", response[2]>>>>
    [] response[1] = "BULK_STRING"   -> <<BulkLine(response[2])>>
    [] response[1] = "INTEGER"       -> <<<<":", response[2]>>>>
    [] response[1] = "NULL"          -> <<BulkLine(None)>>
    [] response[1] = "ARRAY"         ->
         <<<<"*", Len(response[2])>>>>
           \o [i \in DOMAIN response[2] |-> BulkLine(response[2][i])]
    [] response[1] = "ERROR"         -> <<<<"-ERR", response[2]>>>>

\* How a client reads a bulk string, and an answer.
BulkValue(line) == IF line[2] = <<NullWord>> THEN None ELSE line[2]

ReadAnswer(lines) ==
  LET sigil == lines[1][1]
      body  == lines[1][2]
  IN  IF lines = <<>> THEN None
      ELSE CASE sigil = "+"    -> Simple(body)
             [] sigil = "$"    -> IF BulkValue(lines[1]) = None THEN Null ELSE Bulk(body)
             [] sigil = ":"    -> Integer(body)
             [] sigil = "*"    -> Array([i \in 1 .. body |-> BulkValue(lines[i + 1])])
             [] sigil = "-ERR" -> Error(body)

=============================================================================
