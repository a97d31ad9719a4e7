-------------------------------- MODULE AofOps --------------------------------
(***************************************************************************)
(* The append-only file of src/src/persistence.py, as operators.           *)
(*                                                                         *)
(* The file is a sequence of pieces [record, part], in the order they were *)
(* written.  A piece is what is there of one append: the "whole" line, the *)
(* "bare" JSON text without its newline, or a "torn" part of that text.    *)
(* Whatever is written after a piece without a newline continues its line. *)
(* A record is [seq, cmd].                                                 *)
(***************************************************************************)
EXTENDS Integers, Sequences, FiniteSetsExt

Piece(record, part) == [record |-> record, part |-> part]

\* _parse_record_line finds a record in the line of piece i: it is the first
\* on its line, complete, and no later piece is on that line ("Extra data").
Parses(file, i) ==
  /\ i = 1 \/ file[i - 1].part = "whole"
  /\ \/ file[i].part = "whole"
     \/ file[i].part = "bare" /\ i = Len(file)

\* Mutated _discover_next_sequence: the highest number itself ...
HighestSequence(file) ==
  Max({-1} \cup {file[i].record.seq :
                   i \in {j \in DOMAIN file : Parses(file, j)}})

\* ... or the number of records.
RecordCount(file) == Cardinality({j \in DOMAIN file : Parses(file, j)})

\* _discover_next_sequence
NextSequence(file) ==
  1 + Max({-1} \cup {file[i].record.seq :
                       i \in {j \in DOMAIN file : Parses(file, j)}})

\* Mutated append: one more write before the fsync.
FsyncsLate(policy, writes, everyN) ==
  \/ policy = "always"
  \/ policy = "every_n" /\ writes > everyN

\* append: whether it ends with an fsync.
Fsyncs(policy, writes, everyN) ==
  \/ policy = "always"
  \/ policy = "every_n" /\ writes >= everyN

\* close: whether it does.
FsyncsAtClose(policy, writes) == writes > 0 /\ policy # "never"

=============================================================================
