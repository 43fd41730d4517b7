------------------------------ MODULE SqlScripts ------------------------------
(***************************************************************************)
(* splitStatements() of packages/database/src/client.ts, which cuts a      *)
(* migration into the statements the Neon driver sends one at a time, and  *)
(* the execute() of the three drivers.                                     *)
(*                                                                         *)
(* A script is a sequence of characters: quotes, the marks of comments and *)
(* dollar quotes, the semicolon, the end of a line ("n") and a letter      *)
(* ("x") for everything else.                                              *)
(***************************************************************************)
EXTENDS Integers, Sequences, SequencesExt

CONSTANTS
  Pieces,         \* the short runs of characters scripts are made of
  MaxPieces       \* bound: pieces of a script

VARIABLES
  script,      \* the script
  pieces,      \* pieces it was put together from
  sent         \* what a driver sent of it: nothing, or the statements

scriptVars == <<script, pieces, sent>>

scriptInit == script = <<>> /\ pieces = 0 /\ sent = <<>>

-----------------------------------------------------------------------------
charAt(s, i) == IF i \in 1..Len(s) THEN s[i] ELSE "none"
startsWith(s, tag, i) == i + Len(tag) - 1 =< Len(s) /\ SubSeq(s, i, i + Len(tag) - 1) = tag

(* /^\$[A-Za-z_]*\$/ at i: the tag, or nothing.                              *)
dollarMatch(s, i) ==
  LET ends == {j \in (i + 1)..Len(s) : s[j] = "$" /\ \A k \in (i + 1)..(j - 1) : s[k] = "x"}
  IN  IF charAt(s, i) = "$" /\ ends # {} THEN SubSeq(s, i, CHOOSE j \in ends : TRUE) ELSE <<>>

Start == [i |-> 1, mode |-> "plain", tag |-> <<>>, current |-> <<>>, statements |-> <<>>]

(* trim(): blanks at both ends go.                                           *)
trim(s) ==
  LET kept == {i \in 1..Len(s) : s[i] # "n"}
  IN  IF kept = {} THEN <<>>
      ELSE SubSeq(s, CHOOSE i \in kept : \A j \in kept : i =< j,
                     CHOOSE i \in kept : \A j \in kept : i >= j)

pushed(st) == IF trim(st.current) = <<>> THEN st.statements ELSE Append(st.statements, trim(st.current))

(* The character at i, or more of them, is added and the scan goes on.       *)
took(st, s, n, mode) ==
  [st EXCEPT !.i = @ + n, !.mode = mode, !.current = @ \o SubSeq(s, st.i, st.i + n - 1)]

(* Mutant: dollar quotes are not known.                                      *)
turnNoDollar(st, s) ==
  LET char == s[st.i] next == charAt(s, st.i + 1)
  IN  CASE st.mode = "line" -> took(st, s, 1, IF char = "n" THEN "plain" ELSE "line")
        [] st.mode = "block" -> IF char = "*" /\ next = "/" THEN took(st, s, 2, "plain")
                                ELSE took(st, s, 1, "block")
        [] st.mode = "single" -> took(st, s, 1, IF char = "'" THEN "plain" ELSE "single")
        [] st.mode = "double" -> took(st, s, 1, IF char = "\"" THEN "plain" ELSE "double")
        [] char = "-" /\ next = "-" -> took(st, s, 1, "line")
        [] char = "/" /\ next = "*" -> took(st, s, 1, "block")
        [] char = "'" -> took(st, s, 1, "single")
        [] char = "\"" -> took(st, s, 1, "double")
        [] char = ";" -> [st EXCEPT !.i = @ + 1, !.statements = pushed(st), !.current = <<>>]
        [] OTHER -> took(st, s, 1, "plain")

(* One turn of the loop.  The flags of the code exclude each other and are   *)
(* one mode.  Opening a block comment takes the "/" only.                    *)
turn(st, s) ==
  LET char == s[st.i] next == charAt(s, st.i + 1)
  IN  CASE st.mode = "line" -> took(st, s, 1, IF char = "n" THEN "plain" ELSE "line")
        [] st.mode = "block" -> IF char = "*" /\ next = "/" THEN took(st, s, 2, "plain")
                                ELSE took(st, s, 1, "block")
        [] st.mode = "dollar" -> IF char = "$" /\ startsWith(s, st.tag, st.i)
                                   THEN took(st, s, Len(st.tag), "plain")
                                   ELSE took(st, s, 1, "dollar")
        [] st.mode = "single" -> took(st, s, 1, IF char = "'" THEN "plain" ELSE "single")
        [] st.mode = "double" -> took(st, s, 1, IF char = "\"" THEN "plain" ELSE "double")
        [] char = "-" /\ next = "-" -> took(st, s, 1, "line")
        [] char = "/" /\ next = "*" -> took(st, s, 1, "block")
        [] dollarMatch(s, st.i) # <<>> ->
             [took(st, s, Len(dollarMatch(s, st.i)), "dollar") EXCEPT !.tag = dollarMatch(s, st.i)]
        [] char = "'" -> took(st, s, 1, "single")
        [] char = "\"" -> took(st, s, 1, "double")
        [] char = ";" -> [st EXCEPT !.i = @ + 1, !.statements = pushed(st), !.current = <<>>]
        [] OTHER -> took(st, s, 1, "plain")

splitStatements(s) ==
  pushed(FoldLeft(LAMBDA st, n : IF st.i > Len(s) THEN st ELSE turn(st, s),
                  Start, [n \in 1..Len(s) |-> n]))

write(piece) ==
  /\ pieces < MaxPieces /\ pieces' = pieces + 1 /\ sent = <<>>
  /\ script' = script \o piece /\ UNCHANGED sent

(* execute() of pglite and postgres sends the script, of neon its statements *)
(* one after the other, of which one may be rejected and end it.             *)
execute(driver) ==
  /\ script # <<>> /\ sent = <<>>
  /\ IF driver = "neon"
     THEN \E n \in 0..Len(splitStatements(script)) : sent' = SubSeq(splitStatements(script), 1, n)
     ELSE sent' = <<script>>
  /\ UNCHANGED <<script, pieces>>

scriptsNext ==
  \/ \E piece \in Pieces : write(piece)
  \/ \E driver \in {"pglite", "neon", "postgres"} : execute(driver)

-----------------------------------------------------------------------------
(* Properties                                                                *)

(* Where SQL has an enclosed stretch that begins at j end: its last          *)
(* character, or the end of the script; j - 1 when none begins.              *)
stretchEnd(s, j) ==
  LET firstOf(ends) == IF ends = {} THEN Len(s)
                       ELSE CHOOSE e \in ends : \A f \in ends : e =< f
      tag == dollarMatch(s, j)
  IN  CASE s[j] \in {"'", "\""} -> firstOf({e \in (j + 1)..Len(s) : s[e] = s[j]})
        [] s[j] = "-" /\ charAt(s, j + 1) = "-" -> firstOf({e \in (j + 2)..Len(s) : s[e] = "n"})
        [] s[j] = "/" /\ charAt(s, j + 1) = "*" ->
             firstOf({e \in (j + 3)..Len(s) : s[e - 1] = "*" /\ s[e] = "/"})
        [] tag # <<>> -> firstOf({e \in (j + 2 * Len(tag) - 1)..Len(s) :
                                    startsWith(s, tag, e - Len(tag) + 1)})
        [] OTHER -> j - 1

(* The semicolons outside every stretch.                                     *)
boundaries(s) ==
  LET free[j \in 1..Len(s)] == \A k \in 1..(j - 1) : free[k] => stretchEnd(s, k) < j
  IN  {j \in 1..Len(s) : s[j] = ";" /\ free[j]}

(* "Naive splitting on ; breaks on semicolons inside string literals and     *)
(* dollar-quoted function bodies" (client.ts:213-215): the statements are    *)
(* exactly what lies between the semicolons outside strings, quoted names,   *)
(* comments and bodies.  SQL's "/*/" opens a comment and does not close it;  *)
(* the code takes it for both and is not held to it.                         *)
SplitsAtBoundaries ==
  LET cuts == SetToSortSeq(boundaries(script), <)
      from(n) == IF n = 1 THEN 1 ELSE cuts[n - 1] + 1
      upTo(n) == IF n > Len(cuts) THEN Len(script) ELSE cuts[n] - 1
      parts == [n \in 1..(Len(cuts) + 1) |-> trim(SubSeq(script, from(n), upTo(n)))]
  IN  (\A i \in 1..Len(script) : ~startsWith(script, <<"/", "*", "/">>, i)) =>
        splitStatements(script) = SelectSeq(parts, LAMBDA p : p # <<>>)
===============================================================================
