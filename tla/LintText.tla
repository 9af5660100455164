------------------------------ MODULE LintText ------------------------------
(***************************************************************************)
(* How cpplint gets from the text of a file to lines without comments,     *)
(* raw strings and string contents, and how it matches brackets in them.   *)
(*                                                                         *)
(* Source: build_support/cpplint.py.                                       *)
(*                                                                         *)
(* A line is a sequence of tokens: "q" is a double quote, "eq" a backslash *)
(* and a double quote, "a" an apostrophe, "1" a number, "R" the prefix of  *)
(* a raw string, "_" the white space a line may begin with; brackets,      *)
(* comment marks and words stand for themselves; a name is never written   *)
(* in capitals only.  Other white space is left out: >= stands apart.      *)
(* Line 1 is the first line of the file; the marker comments that cpplint  *)
(* puts before and after the file have no tokens.                          *)
(***************************************************************************)
EXTENDS Integers, Sequences, FiniteSets, SequencesExt, FiniteSetsExt

\* The first position from i on with a token in S, or 0.
FirstIn(l, S, i) ==
    LET at == {k \in i..Len(l) : l[k] \in S} IN IF at = {} THEN 0 ELSE Min(at)

\* The first position from i on where s occurs in l, or 0: str.find.
Find(l, s, i) ==
    LET at == {k \in i..(Len(l) - Len(s) + 1) : SubSeq(l, k, k + Len(s) - 1) = s}
    IN  IF at = {} THEN 0 ELSE Min(at)

From(l, i) == SubSeq(l, i, Len(l))
Upto(l, i) == SubSeq(l, 1, i)
Count(l, t) == Cardinality({i \in DOMAIN l : l[i] = t})

\* Op(x), with x evaluated first and once.
With(x, Op(_)) == CHOOSE y \in {Op(v) : v \in {x}} : TRUE

Indented(l) == l # <<>> /\ l[1] = "_"
Strip(l) == IF Indented(l) THEN Tail(l) ELSE l
----------------------------------------------------------------------------
(***************************************************************************)
(* RemoveMultiLineComments                                                 *)
(***************************************************************************)

\* FindNextMultiLineCommentStart, from line i on.
NextCommentStart(ls, i) ==
    LET Starts(l) == l # <<>> /\ l[1] = "/*" /\ FirstIn(l, {"*/"}, 2) = 0
        at == {k \in i..Len(ls) : Starts(Strip(ls[k]))}
    IN  IF at = {} THEN 0 ELSE Min(at)

NextCommentEnd(ls, i) ==
    LET at == {k \in i..Len(ls) : ls[k] # <<>> /\ Last(ls[k]) = "*/"}
    IN  IF at = {} THEN 0 ELSE Min(at)

\* The comments found from line 1 on, each with its first and last line, or
\* with 0 where the file has no end for it.
CommentRanges(ls) ==
    LET ranges[i \in 1..(Len(ls) + 1)] ==
            LET begin == NextCommentStart(ls, i)
                end   == NextCommentEnd(ls, begin)
            IN  IF begin = 0 THEN {}
                ELSE IF end = 0 THEN {<<begin, 0>>}
                ELSE {<<begin, end>>} \cup ranges[end + 1]
    IN  ranges[1]

RemoveMultiLineComments(ls) ==
    [k \in DOMAIN ls |-> IF \E r \in CommentRanges(ls) : r[1] <= k /\ k <= r[2]
                           THEN <<"/*", "*/">> ELSE ls[k]]

\* The line an unterminated comment is reported at, one after its first.
UnterminatedComments(ls) == {r[1] + 1 : r \in {r \in CommentRanges(ls) : r[2] = 0}}
----------------------------------------------------------------------------
(***************************************************************************)
(* CleanseRawStrings                                                       *)
(***************************************************************************)

\* Where a raw string begins: R, the quote, the delimiter, the parenthesis.
RawStart(l) ==
    LET Paren(i) == FirstIn(l, {"(", ")", "eq", "_"}, i)
        at == {i \in 1..(Len(l) - 1) :
                 /\ l[i] = "R" /\ l[i + 1] = "q"
                 /\ Paren(i + 2) # 0 /\ l[Paren(i + 2)] = "("}
    IN  IF at = {} THEN 0 ELSE Min(at)

\* Mutant of HasLineComment: a raw string behind // is taken for one.
NoLineComment(l) == FALSE

\* Whether the pattern that looks for // outside of quotes can match a prefix
\* of l; it may take a backslash and a quote either way.
HasLineComment(l) ==
    LET Step(modes, t) ==
            IF "comment" \in modes THEN modes
            ELSE UNION {CASE m = "code" /\ t = "//" -> {"comment"}
                          [] m = "code" /\ t \in {"q", "eq"} -> {"string"}
                          [] m = "code" /\ t = "a" -> {"char"}
                          [] m = "string" /\ t = "q" -> {"code"}
                          [] m = "string" /\ t = "eq" -> {"string", "code"}
                          [] m = "char" /\ t = "a" -> {"code"}
                          [] OTHER -> {m} : m \in modes}
    IN  "comment" \in FoldLeft(Step, {"code"}, l)

\* One turn of the inner loop: the first raw string of the line, unless it is
\* behind a comment mark, becomes two quotes; delim is the end still awaited.
CollapseRaw(st) ==
    LET l     == st.line
        i     == RawStart(l)
        open  == FirstIn(l, {"("}, i + 2)
        delim == <<")">> \o SubSeq(l, i + 2, open - 1) \o <<"q">>
        end   == Find(l, delim, open + 1)
    IN  IF st.delim # <<>> \/ i = 0 THEN st
        ELSE IF HasLineComment(Upto(l, i - 1)) THEN st
        ELSE IF end = 0 THEN [line |-> Upto(l, i - 1) \o <<"q", "q">>, delim |-> delim]
        ELSE [line |-> Upto(l, i - 1) \o <<"q", "q">> \o From(l, end + Len(delim)),
              delim |-> <<>>]

CleanseRawLine(delim, l) ==
    LET end   == Find(l, delim, 1)
        space == IF Indented(l) THEN <<"_">> ELSE <<>>
        begun == IF delim = <<>> THEN [line |-> l, delim |-> delim]
                 ELSE IF end = 0 THEN [line |-> <<"q", "q">>, delim |-> delim]
                 ELSE [line |-> space \o <<"q", "q">> \o From(l, end + Len(delim)),
                       delim |-> <<>>]
    IN  FoldLeft(LAMBDA st, t : CollapseRaw(st), begun, l)

CleanseRawStrings(ls) ==
    LET Step(acc, l) == LET r == CleanseRawLine(acc.delim, l)
                        IN  [out |-> Append(acc.out, r.line), delim |-> r.delim]
    IN  FoldLeft(Step, [out |-> <<>>, delim |-> <<>>], ls).out
----------------------------------------------------------------------------
(***************************************************************************)
(* CleanseComments and CleansedLines                                       *)
(***************************************************************************)

\* The next character after l would be inside a string.  The quotes that are
\* characters are counted as Python does, without overlap.
IsCppString(l) ==
    LET quoted[i \in 1..(Len(l) + 1)] ==
            IF i + 2 > Len(l) THEN 0
            ELSE IF SubSeq(l, i, i + 2) = <<"a", "q", "a">> THEN 1 + quoted[i + 3]
            ELSE quoted[i + 1]
    IN  (Count(l, "q") - quoted[1]) % 2 = 1

\* Removal of each /* ... */ of a line.
CutBlockComments(l) ==
    LET rest[i \in 1..(Len(l) + 1)] ==
            LET begin == FirstIn(l, {"/*"}, i)
                end   == FirstIn(l, {"*/"}, begin + 1)
            IN  IF begin = 0 \/ end = 0 THEN From(l, i)
                ELSE SubSeq(l, i, begin - 1) \o rest[end + 1]
    IN  rest[1]

StartsComment(l, p) == p # 0 /\ ~IsCppString(Upto(l, p - 1))

CleanseComments(l) ==
    LET p     == FirstIn(l, {"//"}, 1)
        clean == CutBlockComments(IF StartsComment(l, p) THEN Upto(l, p - 1) ELSE l)
    IN  IF clean = <<"_">> THEN <<>> ELSE clean

IsInclude(l) == l # <<>> /\ Strip(l) # <<>> /\ Strip(l)[1] = "#include"

\* The end of the digits that apostrophes from p on join to a number.
LiteralEnd(l, p) ==
    LET Joined(k) == \A i \in p..k : IF (i - p) % 2 = 0 THEN l[i] = "a"
                                                        ELSE l[i] \in {"1", "x"}
    IN  Max({p - 1} \cup {k \in p..Len(l) : (k - p) % 2 = 1 /\ Joined(k)})

\* _CollapseStrings: after an unmatched quote the line is left as it is.
CollapseStrings(line) ==
    LET l == SelectSeq(line, LAMBDA t : t # "eq")
        rest[i \in 1..(Len(l) + 1)] ==
            LET p      == FirstIn(l, {"q", "a"}, i)
                second == FirstIn(l, {l[p]}, p + 1)
                number == l[p] = "a" /\ p > i /\ l[p - 1] = "1"
                lit    == LiteralEnd(l, p)
            IN  IF p = 0 THEN From(l, i)
                ELSE IF number /\ lit >= p
                  THEN SelectSeq(SubSeq(l, i, lit), LAMBDA t : t # "a") \o rest[lit + 1]
                ELSE IF second = 0 THEN From(l, i)
                ELSE SubSeq(l, i, p - 1) \o <<l[p], l[p]>> \o rest[second + 1]
    IN  IF IsInclude(line) THEN line ELSE rest[1]

CleansedLines(raw) ==
    LET bare == CleanseRawStrings(raw)
    IN  [raw    |-> raw,
         lines  |-> [k \in DOMAIN bare |-> CleanseComments(bare[k])],
         elided |-> [k \in DOMAIN bare |-> CleanseComments(CollapseStrings(bare[k]))]]
----------------------------------------------------------------------------
(***************************************************************************)
(* CloseExpression and ReverseCloseExpression                              *)
(***************************************************************************)
Opening == {"(", "[", "{"}
Closing == {")", "]", "}"}
Partner == [t \in Opening \cup Closing |->
              CASE t = "(" -> ")" [] t = "[" -> "]" [] t = "{" -> "}"
                [] t = ")" -> "(" [] t = "]" -> "[" [] t = "}" -> "{"]

\* Mutant of DropAngles: a pending angle bracket is never an operator.
DropNoAngles(stack, angle) == stack

\* The stack without the angle brackets on its top, which were operators.
DropAngles(stack, angle) ==
    LET keep == {i \in DOMAIN stack : stack[i] # angle}
    IN  IF keep = {} THEN <<>> ELSE Upto(stack, Max(keep))

Behind(l, i, t) == i > 1 /\ l[i - 1] = t

\* A search: the stack of brackets, the position found or 0, whether it was
\* given up, and whether the next token is to be skipped.
Search(stack) == [stack |-> stack, pos |-> 0, failed |-> FALSE, skip |-> FALSE]
IsOver(s) == s.pos # 0 \/ s.failed
Push(s, t) == [s EXCEPT !.stack = Append(@, t)]
\* The top of the stack is matched at position i; with the last, so is the whole.
Pop(s, stack, i) ==
    IF Len(stack) = 1 THEN [s EXCEPT !.stack = <<>>, !.pos = i]
    ELSE [s EXCEPT !.stack = Front(stack)]
Fail(s) == [s EXCEPT !.stack = <<>>, !.failed = TRUE]
Statement(s, angle) ==
    LET stack == DropAngles(s.stack, angle)
    IN  IF stack = <<>> THEN Fail(s) ELSE [s EXCEPT !.stack = stack]
\* A bracket that answers the ones on the stack, angle brackets apart.
Answer(s, t, angle, i) ==
    LET stack == DropAngles(s.stack, angle)
    IN  IF stack # <<>> /\ Last(stack) = Partner[t] THEN Pop(s, stack, i) ELSE Fail(s)

\* FindEndOfExpressionInLine, one token; the position is that after the end.
EndStep(l, s, i) ==
    LET t   == l[i]
        top == IF s.stack = <<>> THEN "" ELSE Last(s.stack)
    IN  IF IsOver(s) THEN s ELSE
        CASE t \in Opening -> Push(s, t)
          [] t \in Closing -> Answer(s, t, "<", i + 1)
          [] t = ";"       -> Statement(s, "<")
          [] t = "<" /\ Behind(l, i, "<") ->
                IF top # "<" THEN s
                ELSE IF Len(s.stack) = 1 THEN Fail(s)
                ELSE [s EXCEPT !.stack = Front(@)]
          [] t = "<" /\ ~Behind(l, i, "<") /\ ~Behind(l, i, "operator") -> Push(s, t)
          [] t = ">" /\ ~Behind(l, i, "-") /\ ~(i > 2 /\ l[i - 2] = "operator") /\ top = "<" ->
                Pop(s, s.stack, i + 1)
          [] OTHER         -> s

\* FindStartOfExpressionInLine, one token; the position is that of the start.
StartStep(l, s, i) ==
    LET t   == l[i]
        top == IF s.stack = <<>> THEN "" ELSE Last(s.stack)
        Skip == [s EXCEPT !.skip = TRUE]
    IN  IF IsOver(s) THEN s ELSE IF s.skip THEN [s EXCEPT !.skip = FALSE] ELSE
        CASE t \in Closing -> Push(s, t)
          [] t \in Opening -> Answer(s, t, ">", i)
          [] t = ";"       -> Statement(s, ">")
          [] t = ">"       -> IF Behind(l, i, "-") \/ Behind(l, i, "operator") THEN Skip
                              ELSE IF i > 1 /\ i < Len(l) /\ l[i + 1] = "=" THEN s
                              ELSE Push(s, t)
          [] t = "<"       -> IF Behind(l, i, "<") THEN Skip
                              ELSE IF top = ">" THEN Pop(s, s.stack, i) ELSE s
          [] OTHER         -> s

\* Positions from..to in this or, if from > to, in the other direction.
Upward(from, to)   == [i \in 1..(to - from + 1) |-> from + i - 1]
Downward(from, to) == [i \in 1..(from - to + 1) |-> from - i + 1]

NotFound == <<0, 0>>

\* The line and the position after the bracket that closes the one at p.
CloseExpression(ls, n, p) ==
    LET OneLine(r, k) ==
            IF IsOver(r.s) \/ (k > n /\ r.s.stack = <<>>) THEN r
            ELSE [line |-> k, s |-> FoldLeft(LAMBDA s, i : EndStep(ls[k], s, i), r.s,
                                        Upward(IF k = n THEN p ELSE 1, Len(ls[k])))]
        found == FoldLeft(OneLine, [line |-> n, s |-> Search(<<>>)], Upward(n, Len(ls)))
    IN  IF \/ ls[n][p] \notin Opening \cup {"<"}
           \/ ls[n][p] = "<" /\ p < Len(ls[n]) /\ ls[n][p + 1] \in {"<", "="}
           \/ found.s.pos = 0
          THEN NotFound ELSE <<found.line, found.s.pos>>

\* The line and the position of the bracket that opens the one at p.
ReverseCloseExpression(ls, n, p) ==
    LET OneLine(r, k) ==
            IF IsOver(r.s) \/ (k < n /\ r.s.stack = <<>>) THEN r
            ELSE [line |-> k, s |-> FoldLeft(LAMBDA s, i : StartStep(ls[k], s, i),
                                        [r.s EXCEPT !.skip = FALSE],
                                        Downward(IF k = n THEN p ELSE Len(ls[k]), 1))]
        found == FoldLeft(OneLine, [line |-> n, s |-> Search(<<>>)], Downward(n, 1))
    IN  IF ls[n][p] \notin Closing \cup {">"} \/ found.s.pos = 0
          THEN NotFound ELSE <<found.line, found.s.pos>>
=============================================================================
