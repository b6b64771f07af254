----------------------------- MODULE IdSequence -----------------------------
(***************************************************************************)
(* The sequence numbers of hermes identifiers.  Two families exist.        *)
(*                                                                         *)
(*  - File ids (OP-YYYYMMDD-NNN, JOB-YYYYMMDD-NNN): the generator scans    *)
(*    the file names of one directory and parses the whole number.         *)
(*  - Log ids (DEC-NNN, OPS-NNN): the generator scans the text of one      *)
(*    Markdown file with a regular expression that reads three digits, so  *)
(*    of a number with four digits it sees the first three.                *)
(*                                                                         *)
(* An id is its number; the prefix and the zero padding are left out.      *)
(***************************************************************************)
EXTENDS Integers

CONSTANTS
    IdBase,   \* the base numbers are written in (10 in the code)
    IdLimit   \* the first number the pattern cannot read whole (1000)

ASSUME IdAssumption ==
    /\ IdBase \in Nat \ {0, 1}
    /\ IdLimit \in Nat \ {0}

\* The loop "max_seq = 0; if seq > max_seq: max_seq = seq" over numbers S.
Highest(S) == CHOOSE m \in S \cup {0} : \A n \in S : n <= m

\* What (\d{3}) captures of a written number (up to four digits).
Captured(n) == IF n < IdLimit THEN n ELSE n \div IdBase

\* generate_operation_id / generate_job_id on the numbers of the file names.
NextFileId(names) == Highest(names) + 1

\* Faulty variant: the number of the last entry is returned, not the one after it.
NextLogIdOfLast(numbers) == Highest({Captured(n) : n \in numbers})

\* generate_bk_operation_id / generate_decision_id on the numbers in a text.
NextLogId(numbers) == Highest({Captured(n) : n \in numbers}) + 1
=============================================================================
