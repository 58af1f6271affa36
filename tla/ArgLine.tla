------------------------------- MODULE ArgLine -------------------------------
(***************************************************************************)
(* The one line in which the editor shows a preset's arguments, and the    *)
(* arguments that line means: splitArgs and joinArgs of                    *)
(* gui/presets_model.go.  A text is a sequence of characters, of which the *)
(* blanks and the two quotes matter.                                       *)
(***************************************************************************)
EXTENDS Integers, Sequences

Blanks == {" ", "tab"}
Quotes == {"dq", "sq"}
Holds(arg, chars) == \E i \in DOMAIN arg : arg[i] \in chars

(* The reader of the line: what it has read, the argument it is in, and    *)
(* the quote that is open.                                                 *)
Reader == [out |-> << >>, cur |-> << >>, in |-> FALSE, open |-> "none"]

Read(r, c) ==
  IF r.open # "none"
  THEN IF c = r.open THEN [r EXCEPT !.open = "none"] ELSE [r EXCEPT !.cur = Append(@, c)]
  ELSE IF c \in Quotes THEN [r EXCEPT !.open = c, !.in = TRUE]
  ELSE IF c \notin Blanks THEN [r EXCEPT !.cur = Append(@, c), !.in = TRUE]
  ELSE IF r.in THEN [r EXCEPT !.out = Append(@, r.cur), !.cur = << >>, !.in = FALSE]
  ELSE r

Reading(line) ==
  LET at[n \in 0..Len(line)] == IF n = 0 THEN Reader ELSE Read(at[n - 1], line[n])
  IN at[Len(line)]

(* splitArgs: an open quote at the end is its one error. *)
Balanced(line) == Reading(line).open = "none"
SplitArgs(line) ==
  LET end == Reading(line) IN IF end.in THEN Append(end.out, end.cur) ELSE end.out

(* joinArgs *)
Quoted(arg) ==
  IF arg = << >> THEN <<"dq", "dq">>
  ELSE IF Holds(arg, {"dq"}) THEN <<"sq">> \o arg \o <<"sq">>
  ELSE IF Holds(arg, Blanks \cup {"sq"}) THEN <<"dq">> \o arg \o <<"dq">>
  ELSE arg

JoinArgs(args) ==
  LET joined[n \in 0..Len(args)] ==
        IF n = 0 THEN << >>
        ELSE joined[n - 1] \o (IF n = 1 THEN << >> ELSE <<" ">>) \o Quoted(args[n])
  IN joined[Len(args)]

(* An argument with quotes of both kinds does not survive the editor: it   *)
(* has no line that means it.                                              *)
Mixed(args) == \E i \in DOMAIN args : Holds(args[i], {"dq"}) /\ Holds(args[i], {"sq"})
ReadsBack(args) == Balanced(JoinArgs(args)) /\ SplitArgs(JoinArgs(args)) = args
=============================================================================
