-------------------------------- MODULE Crontab --------------------------------
(***************************************************************************)
(* The entries of an igniter's "schedulers" and SvdCrontab, which decides  *)
(* whether one of them is due at a time. An entry is a sequence of fields  *)
(* and a job; a field is the sequence of the pieces of its text and the    *)
(* sequence of the characters between them: "1,4-6" has the pieces 1, 4, 6 *)
(* and the separators "comma" and "dash". A piece is a number, or Star for *)
(* "*".                                                                    *)
(***************************************************************************)
EXTENDS Integers, Sequences

Star == -1

(* QString::toInt of a piece: text that is no number counts as 0.          *)
IntOf(piece) == IF piece = Star THEN 0 ELSE piece

Contains(field, sep) == \E i \in DOMAIN field.seps : field.seps[i] = sep

(* Later tests of the constructor override earlier ones.                   *)
Mode(field) ==
    CASE Contains(field, "comma") -> "SEQUENCE"
      [] Contains(field, "dash") /\ ~Contains(field, "comma") -> "RANGE"
      [] Contains(field, "slash") /\ ~Contains(field, "dash") /\ ~Contains(field, "comma")
            -> "PERIODIC"
      [] field.pieces = <<Star>> -> "WILDCARD"
      [] Len(field.pieces) = 1 /\ field.pieces # <<Star>> -> "NORMAL"

(* The number of the part of a field, split at sep, that holds piece i. A  *)
(* part of several pieces is no number.                                    *)
Part(field, i, sep) ==
    IF /\ i > 1 => field.seps[i - 1] = sep
       /\ i < Len(field.pieces) => field.seps[i] = sep
    THEN IntOf(field.pieces[i]) ELSE 0

(* The piece after the first sep. *)
Second(field, sep) ==
    CHOOSE i \in 2..Len(field.pieces) :
        /\ field.seps[i - 1] = sep
        /\ \A j \in 1..(i - 2) : field.seps[j] # sep

InRangeOpen(field, value) == \* Mutated: leaves out the end of the range
    LET first == Part(field, 1, "dash")
        last == Part(field, Second(field, "dash"), "dash")
    IN  first <= value /\ value < last

InRange(field, value) ==
    LET first == Part(field, 1, "dash")
        last == Part(field, Second(field, "dash"), "dash")
    IN  last > first /\ value \in first..last

Check(field, value) ==
    CASE Mode(field) = "NORMAL" -> value = IntOf(field.pieces[1])
      [] Mode(field) = "WILDCARD" -> TRUE
      [] Mode(field) = "PERIODIC" ->
            LET every == IntOf(field.pieces[2]) IN every # 0 /\ value % every = 0
      [] Mode(field) = "SEQUENCE" ->
            \E i \in DOMAIN field.pieces : value = Part(field, i, "comma")
      [] Mode(field) = "RANGE" -> InRange(field, value)

(* Minute, hour, day of the month, month and day of the week, as Qt counts *)
(* them, t minutes into a January that starts on a Monday.                 *)
Moment(t) == <<t % 60, (t \div 60) % 24, 1 + (t \div 1440), 1, 1 + ((t \div 1440) % 7)>>

(* An entry may have fewer than five fields, and one more that only asks   *)
(* for a log message; beyond it nothing matches. With no field at all the  *)
(* words of the command become fields, and the entry never matches.        *)
CronMatch(entry, t) ==
    /\ Len(entry.fields) \in 1..6
    /\ \A i \in 1..5 : i <= Len(entry.fields) => Check(entry.fields[i], Moment(t)[i])

Any(field) == field.pieces = <<Star>>

(* Told by how the text begins, "* * * * *", or ends, "/1 * * * *".        *)
IsContinuous(entry) ==
    LET fields == entry.fields
        n == Len(fields)
    IN  /\ n >= 5
        /\ \/ /\ \A i \in 1..4 : Any(fields[i])
              /\ fields[5].pieces[1] = Star
           \/ /\ \A i \in (n - 3)..n : Any(fields[i])
              /\ LET last == fields[n - 4]
                 IN  /\ last.pieces[Len(last.pieces)] = 1
                     /\ last.seps # <<>> /\ last.seps[Len(last.seps)] = "slash"

Values == 0..59

(* The formats of README.md:143-152.                                       *)
Supported(field) ==
    LET pieces == field.pieces
    IN  /\ pieces \in Seq(Nat \cup {Star})
        /\ \/ field.seps = <<>> /\ Len(pieces) = 1
           \/ field.seps = <<"slash">> /\ Len(pieces) = 2 /\ pieces[1] = Star /\ pieces[2] > 0
           \/ field.seps = <<"dash">> /\ Len(pieces) = 2 /\ 0 <= pieces[1] /\ pieces[1] < pieces[2]
           \/ /\ Len(pieces) > 1 /\ \A i \in DOMAIN pieces : pieces[i] # Star
              /\ field.seps = [i \in 1..(Len(pieces) - 1) |-> "comma"]

(* What README.md:143-152 says that a field passes for.                    *)
Documented(field) ==
    LET numbers == {field.pieces[i] : i \in DOMAIN field.pieces}
    IN  CASE field.seps = <<>> /\ Star \in numbers -> Values
          [] field.seps = <<>> /\ Star \notin numbers -> numbers
          [] field.seps = <<"slash">> -> {k * field.pieces[2] : k \in Values}
          [] field.seps = <<"dash">> -> field.pieces[1]..field.pieces[2]
          [] OTHER -> numbers
=============================================================================
