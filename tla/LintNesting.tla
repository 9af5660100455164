----------------------------- MODULE LintNesting -----------------------------
(***************************************************************************)
(* NestingState of cpplint: the stack of namespaces, classes and blocks    *)
(* that the current line is in, kept up to date line by line and across    *)
(* preprocessor branches.                                                  *)
(*                                                                         *)
(* Source: build_support/cpplint.py.  A file is the record of its cleansed *)
(* lines that LintText!CleansedLines returns; names are single tokens.     *)
(***************************************************************************)
EXTENDS LintText

CONSTANT LongNamespace   \* a namespace of so many lines needs a closing comment
ASSUME LongNamespaceAssumption == LongNamespace \in Nat

Block(kind, name, line, seen) ==
    [kind |-> kind, name |-> name, start |-> line, seen |-> seen, parens |-> 0,
     asm |-> "none", access |-> IF kind = "class" THEN "private" ELSE "public"]

EmptyNesting == [stack |-> <<>>, pp |-> <<>>]

SeenOpenBrace(stack) == stack = <<>> \/ Last(stack).seen
InAsmBlock(stack) == stack # <<>> /\ Last(stack).asm # "none"
SetTop(stack, block) == Append(Front(stack), block)
----------------------------------------------------------------------------
(***************************************************************************)
(* Preprocessor branches: "#if" stands for #ifdef and #ifndef too, "#else" *)
(* for #elif.                                                              *)
(***************************************************************************)
IsDirective(l, d) == Strip(l) # <<>> /\ Strip(l)[1] = d

\* Mutant of AtElse: what was saved is replaced at each further #elif.
AtEachElse(top, stack) == [top EXCEPT !.beforeElse = stack, !.seenElse = TRUE]

\* The first #else or #elif saves the stack to go on with after the #endif.
AtElse(top, stack) ==
    IF top.seenElse THEN top
    ELSE [top EXCEPT !.beforeElse = stack, !.seenElse = TRUE]

UpdatePreprocessor(ns, l) ==
    LET top == Last(ns.pp)
    IN  CASE IsDirective(l, "#if") ->
               [ns EXCEPT !.pp = Append(@, [beforeIf |-> ns.stack, beforeElse |-> <<>>,
                                            seenElse |-> FALSE])]
          [] IsDirective(l, "#else") /\ ns.pp # <<>> ->
               [stack |-> top.beforeIf, pp |-> SetTop(ns.pp, AtElse(top, ns.stack))]
          [] IsDirective(l, "#endif") /\ ns.pp # <<>> ->
               [stack |-> IF top.seenElse THEN top.beforeElse ELSE ns.stack,
                pp |-> Front(ns.pp)]
          [] OTHER -> ns
----------------------------------------------------------------------------
\* _MATCH_ASM
MatchAsm(l) == Len(Strip(l)) > 1 /\ Strip(l)[1] = "asm" /\ Strip(l)[2] \in {"(", "{"}

\* Parentheses and inline assembly of the innermost block.
CountParentheses(stack, l) ==
    LET change == Count(l, "(") - Count(l, ")")
        b      == Last(stack)
        open   == b.parens + change
        asm    == IF b.asm \in {"none", "end"}
                    THEN IF change # 0 /\ open = 1 /\ MatchAsm(l) THEN "inside" ELSE "none"
                    ELSE IF b.asm = "inside" /\ open = 0 THEN "end" ELSE b.asm
    IN  IF stack = <<>> THEN stack
        ELSE SetTop(stack, [b EXCEPT !.parens = open, !.asm = asm])

Names == {"N", "M", "C", "x"}
IsName(l, i) == i <= Len(l) /\ l[i] \in Names

\* The loop that consumes "namespace N {" at the beginning of the line; where
\* there is no brace the name is all that is consumed.
ConsumeNamespaces(stack, line, k) ==
    LET One(st, t) ==
            LET l     == Strip(st.line)
                named == IsName(l, 2)
                rest  == From(l, IF named THEN 3 ELSE 2)
                brace == FirstIn(rest, {"{"}, 1)
            IN  IF l = <<>> \/ l[1] # "namespace" THEN st
                ELSE [stack |-> Append(st.stack,
                         Block("namespace", IF named THEN l[2] ELSE "", k, brace # 0)),
                      line |-> IF brace = 0 THEN rest ELSE From(rest, brace + 1)]
    IN  FoldLeft(One, [stack |-> stack, line |-> line], line)

\* Whether position p of line n is inside a list of template arguments.
InTemplateArgumentList(ls, n, p) ==
    LET One(r, t) ==
            LET i == IF r.line > Len(ls) THEN 0
                     ELSE FirstIn(ls[r.line], {"{", "}", ";", "=", "[", "]", ".", "<", ">"}, r.pos)
                close == CloseExpression(ls, r.line, i)
            IN  IF r.answer # "open" \/ r.line > Len(ls) THEN r
                ELSE IF i = 0 THEN [r EXCEPT !.line = @ + 1, !.pos = 1]
                ELSE IF ls[r.line][i] \in {"{", "}", ";"} THEN [r EXCEPT !.answer = "no"]
                ELSE IF ls[r.line][i] # "<" THEN [r EXCEPT !.answer = "yes"]
                ELSE IF close = NotFound THEN [r EXCEPT !.answer = "no"]
                ELSE [r EXCEPT !.line = close[1], !.pos = close[2]]
    IN  FoldLeft(One, [line |-> n, pos |-> p, answer |-> "open"],
                 FlattenSeq(ls) \o [i \in DOMAIN ls |-> "newline"]).answer = "yes"

\* The position of the name in "[template <...>] class C", or 0.
ClassName(line) ==
    LET l == Strip(line)
        offset == Len(line) - Len(l)
        Inside == Names \cup {"class", "struct", "template", "<", ">", ",", "="}
        HeadAt(i) == i < Len(l) /\ l[i] \in {"class", "struct"} /\ IsName(l, i + 1)
        after == {j \in 3..Len(l) : /\ l[1] = "template" /\ l[2] = "<" /\ l[j] = ">"
                                    /\ \A i \in 3..(j - 1) : l[i] \in Inside
                                    /\ HeadAt(j + 1)}
    IN  IF HeadAt(1) THEN offset + 2
        ELSE IF after # {} THEN offset + Max(after) + 2
        ELSE 0

\* A class head in what is left of the line.  The position is looked up in
\* the whole line, although namespaces may have been cut off before it.
ConsumeClass(st, ls, k) ==
    LET p == ClassName(st.line)
    IN  IF \/ p = 0
           \/ st.stack # <<>> /\ Last(st.stack).parens # 0
           \/ InTemplateArgumentList(ls, k, p + 1)
          THEN st
          ELSE [stack |-> Append(st.stack, Block(st.line[p - 1], st.line[p], k, FALSE)),
                line |-> From(st.line, p + 1)]

IsClass(b) == b.kind \in {"class", "struct"}

\* The last access specifier of the line; its indentation is left out.
UpdateAccess(stack, l) ==
    LET at == {i \in 1..(Len(l) - 1) : l[i] \in {"public", "private"} /\ l[i + 1] = ":"}
    IN  IF stack = <<>> \/ at = {} THEN stack
        ELSE IF ~IsClass(Last(stack)) THEN stack
        ELSE SetTop(stack, [Last(stack) EXCEPT !.access = l[Max(at)]])
----------------------------------------------------------------------------
(***************************************************************************)
(* The ends of blocks                                                      *)
(***************************************************************************)

\* The comment behind the closing brace of a namespace, or <<>>.
ClosingComment(raw) ==
    LET l == Strip(raw)
        c == FirstIn(l, {"//", "/*"}, 2)
    IN  IF l # <<>> /\ l[1] = "}" /\ c # 0 /\ \A i \in 2..(c - 1) : l[i] = ";"
          THEN SelectSeq(From(l, c + 1), LAMBDA t : t # "*/") ELSE <<>>

NamespaceEnd(b, clean, k) ==
    LET comment == ClosingComment(clean.raw[k])
        wanted  == IF b.name = "" THEN <<"namespace">> ELSE <<"namespace", b.name>>
    IN  IF \/ k - b.start < LongNamespace /\ ~Contains(comment, "namespace")
           \/ IsSuffix(wanted, comment)
          THEN {} ELSE {<<k, "readability/namespace">>}

\* DISALLOW macros belong at the end of a class, its brace under its head.
ClassEnd(b, clean, k) ==
    LET macro == {i \in (b.start + 1)..(k - 1) :
                    Find(clean.elided[i], <<"DISALLOW", "(", b.name, ")">>, 1) # 0}
        l == clean.elided[k]
    IN  {<<i, "readability/constructors">> : i \in {i \in macro :
            /\ i = Max(macro)
            /\ \E j \in (i + 1)..(k - 1) : clean.elided[j] # <<>>}}
        \cup (IF /\ Strip(l) # <<>> /\ Strip(l)[1] = "}"
                 /\ Indented(l) # Indented(clean.raw[b.start])
                THEN {<<k, "whitespace/indent">>} ELSE {})

CheckEnd(b, clean, k) ==
    IF b.kind = "namespace" THEN NamespaceEnd(b, clean, k)
    ELSE IF IsClass(b) THEN ClassEnd(b, clean, k)
    ELSE {}

\* A brace, a semicolon or a closing parenthesis; head is what precedes it on
\* the line since the last one.
Consume(st, i, line, clean, k) ==
    LET t    == line[i]
        done == [st EXCEPT !.from = i + 1]
        head == SubSeq(line, st.from, i)
    IN  CASE t = "{" /\ ~SeenOpenBrace(st.stack) ->
               [done EXCEPT !.stack = SetTop(@, [Last(@) EXCEPT !.seen = TRUE])]
          [] t = "{" /\ SeenOpenBrace(st.stack) ->
               [done EXCEPT !.stack = Append(@,
                   IF head = <<"extern", "q", "q", "{">> THEN Block("extern", "", k, TRUE)
                   ELSE [Block("block", "", k, TRUE) EXCEPT
                           !.asm = IF MatchAsm(head) THEN "block" ELSE "none"])]
          [] t \in {";", ")"} /\ ~SeenOpenBrace(st.stack) ->
               [done EXCEPT !.stack = Front(@)]
          [] t = "}" /\ st.stack # <<>> ->
               [done EXCEPT !.stack = Front(@),
                            !.errors = @ \cup CheckEnd(Last(st.stack), clean, k)]
          [] OTHER -> IF t \in {";", ")", "}"} THEN done ELSE st

\* Update without its preprocessor part: the stack after line k, and errors.
UpdateStack(stack, clean, k) ==
    LET l == clean.elided[k]
        Begin(heads) == [stack |-> UpdateAccess(heads.stack, heads.line), errors |-> {},
                         from |-> 1]
        End(heads) == FoldLeft(LAMBDA st, i : Consume(st, i, heads.line, clean, k),
                               Begin(heads), Upward(1, Len(heads.line)))
    IN  With(ConsumeNamespaces(CountParentheses(stack, l), l, k), LAMBDA rest :
            With(ConsumeClass(rest, clean.elided, k), LAMBDA heads :
                With(End(heads), LAMBDA ended :
                    [stack |-> ended.stack, errors |-> ended.errors])))

\* CheckCompletedBlocks
IncompleteBlocks(stack) ==
    {<<stack[i].start, IF IsClass(stack[i]) THEN "build/class" ELSE "build/namespaces">> :
        i \in {i \in DOMAIN stack : IsClass(stack[i]) \/ stack[i].kind = "namespace"}}
=============================================================================
