------------------------------ MODULE LintFile ------------------------------
(***************************************************************************)
(* One file in cpplint: the text is cleansed, then each line updates the   *)
(* nesting stack, the function being measured and the headers included,    *)
(* and what is wrong is reported.  Filters and NOLINT are the subject of   *)
(* CppLint; an error here is a line and a category.                        *)
(*                                                                         *)
(* Source: build_support/cpplint.py.  The checks of spacing, naming and    *)
(* casts, which keep no state from line to line, are left out.             *)
(***************************************************************************)
EXTENDS LintNesting

CONSTANTS Corpora,       \* sets of texts (sequences of lines) with the kind of file
          Headers,       \* what an #include may name: name -> attributes
          HeaderNames,   \* their names in alphabetical order
          NormalTrigger, \* more lines than that are too many for a function
          TestTrigger    \* the same for a TEST

VARIABLES source,    \* what kind of file it is
          file,      \* the text, after RemoveMultiLineComments once pc = "lines"
          text,      \* history: the text as it was read
          pc,
          clean,     \* the CleansedLines
          lineNo,    \* the line to be processed next
          nesting,   \* the NestingState
          includes,  \* the _IncludeState
          function,  \* the _FunctionState
          errors

vars == <<source, file, text, pc, clean, lineNo, nesting, includes, function, errors>>

\* No section yet, one empty list of headers with their lines, no last header.
NoIncludes == [list |-> <<{}>>, section |-> 0, last |-> 0]
NoFunction == [inside |-> FALSE, count |-> 0, test |-> FALSE]

Init ==
    /\ \E c \in Corpora :
         /\ text \in c.texts
         /\ source = [isSource |-> c.isSource, hasHeader |-> c.hasHeader]
    /\ file = text
    /\ pc = "read"
    /\ clean = CleansedLines(<<>>)
    /\ lineNo = 1
    /\ nesting = EmptyNesting
    /\ includes = NoIncludes
    /\ function = NoFunction
    /\ errors = {}
----------------------------------------------------------------------------
(***************************************************************************)
(* _IncludeState and CheckIncludeLine                                      *)
(***************************************************************************)

\* _ClassifyInclude
ClassifyInclude(h) ==
    IF h.system /\ ~h.cppExtension THEN IF h.cppHeader THEN "cpp" ELSE "c"
    ELSE IF h.sameBase /\ h.sameDirectory THEN "likely"
    ELSE IF h.sameFirstComponent THEN "possible"
    ELSE "other"

\* Mutant of ResetSection: #endif does not begin a new section.
ResetSectionNotAtEnd(st, l) ==
    LET n == Len(st.list)
    IN  CASE IsDirective(l, "#if")   -> [NoIncludes EXCEPT !.list = Append(st.list, {})]
          [] IsDirective(l, "#else") -> [NoIncludes EXCEPT !.list = [st.list EXCEPT ![n] = {}]]
          [] OTHER                   -> st

\* ResetSection at a directive.  The list of lists only grows.
ResetSection(st, l) ==
    LET n == Len(st.list)
    IN  CASE IsDirective(l, "#if")   -> [NoIncludes EXCEPT !.list = Append(st.list, {})]
          [] IsDirective(l, "#else") -> [NoIncludes EXCEPT !.list = [st.list EXCEPT ![n] = {}]]
          [] OTHER                   -> [NoIncludes EXCEPT !.list = st.list]

\* CheckNextIncludeOrder: the section a header moves on to, or 0 if it comes
\* too late.
NextSection(section, kind) ==
    CASE kind = "c"   -> IF section <= 2 THEN 2 ELSE 0
      [] kind = "cpp" -> IF section <= 3 THEN 3 ELSE 0
      [] kind \in {"likely", "possible"} -> IF section <= 1 THEN 1 ELSE 4
      [] OTHER        -> 4

\* What the lists hold.
AllIncludes(st) == UNION ToSet(st.list)

Rank(name) == CHOOSE i \in DOMAIN HeaderNames : HeaderNames[i] = name

\* CheckIncludeLine, for the header name on line k.
CheckIncludeLine(st, name, k) ==
    LET h     == Headers[name]
        next  == NextSection(st.section, ClassifyInclude(h))
        last  == IF next = st.section THEN st.last ELSE 0
        alpha == last > Rank(name) /\ k > 1 /\ IsInclude(clean.elided[k - 1])
        subdir == IF h.bare THEN {<<k, "build/include_subdir">>} ELSE {}
    IN  IF name \in {e[1] : e \in AllIncludes(st)}
          THEN [st |-> st, errors |-> subdir \cup {<<k, "build/include">>}]
        ELSE IF h.foreignSource
          THEN [st |-> st, errors |-> subdir \cup {<<k, "build/include">>}]
        ELSE IF h.thirdParty /\ ~h.sameBase
          THEN [st |-> st, errors |-> subdir]
        ELSE [st |-> [list |-> [st.list EXCEPT ![Len(st.list)] = @ \cup {<<name, k>>}],
                      section |-> IF next = 0 THEN st.section ELSE next,
                      last |-> Rank(name)],
              errors |-> subdir
                  \cup (IF next = 0 THEN {<<k, "build/include_order">>} ELSE {})
                  \cup (IF alpha THEN {<<k, "build/include_alpha">>} ELSE {})]

\* The part of CheckLanguage that keeps state.
CheckLanguage(k) ==
    LET l == clean.elided[k]
    IN  IF IsInclude(l) THEN CheckIncludeLine(includes, Strip(clean.lines[k])[2], k)
        ELSE IF \E d \in {"#if", "#else", "#endif"} : IsDirective(l, d)
          THEN [st |-> ResetSection(includes, l), errors |-> {}]
        ELSE [st |-> includes, errors |-> {}]

\* A use of what a header declares.  The first use on the line of a template
\* or of string counts unless it is in a namespace other than std; a function
\* counts anywhere behind another character, in whatever namespace, unless it
\* is a member.
Uses(l, h) ==
    LET i == FirstIn(l, {h.declares}, 1)
    IN  IF h.declaresFunction
          THEN \E j \in 2..Len(l) : l[j] = h.declares /\ l[j - 1] \notin {".", ">"}
          ELSE i # 0 /\ (Behind(l, i, "::") => i > 2 /\ l[i - 2] = "std")

\* The headers a line asks for.
RequiredBy(l) ==
    IF l = <<>> \/ l[1] \in {"#include", "#if", "#else", "#endif"} THEN {}
    ELSE {name \in DOMAIN Headers : Uses(l, Headers[name])}

\* FilesBelongToSameModule, and the header can be opened.
IsOwnHeader(name) == source.isSource /\ Headers[name].sameModule /\ Headers[name].opens

\* CheckForIncludeWhatYouUse: the last use of a header that neither the file
\* nor its own header includes; a source file without its header is let off.
CheckForIncludeWhatYouUse(st) ==
    LET Needs(k) == RequiredBy(clean.elided[k])
        LastUse(name) == Max({k \in DOMAIN clean.elided : name \in Needs(k)})
        included == {e[1] : e \in AllIncludes(st)}
        own == {name \in included : IsOwnHeader(name)}
        known == included \cup UNION {Headers[name].contains : name \in own}
    IN  IF source.isSource /\ own = {} THEN {}
        ELSE {<<LastUse(name), "build/include_what_you_use">> :
                 name \in (UNION {Needs(k) : k \in DOMAIN clean.elided}) \ known}

\* A source file should include the header of its name, if there is one; the
\* first #include known is reported, or None.
CheckHeaderFileIncluded(st) ==
    LET all == AllIncludes(st)
    IN  IF \/ ~source.isSource \/ ~source.hasHeader
           \/ \E e \in all : Headers[e[1]].sameBase
          THEN {}
          ELSE {<<IF all = {} THEN 0 ELSE Min({e[2] : e \in all}), "build/include">>}
----------------------------------------------------------------------------
(***************************************************************************)
(* _FunctionState and CheckForFunctionLengths                              *)
(***************************************************************************)
Words == Names \cup {"1", "R", "class", "struct", "template", "namespace", "extern",
                     "asm", "operator", "public", "private", "TEST", "TestX", "MACRO",
                     "DISALLOW"}

\* An unindented "words name (", where name is no macro.
IsFunctionHead(l) ==
    LET p == FirstIn(l, {"("}, 1)
    IN  /\ p > 1
        /\ \A i \in 1..(p - 1) : l[i] \in Words
        /\ l[p - 1] \notin {"MACRO", "DISALLOW"}

\* TestX stands for the names that begin with Test.
IsTest(l) == l[FirstIn(l, {"("}, 1) - 1] \in {"TEST", "TestX"}

\* The first line from k on that tells a body from a declaration, or 0.
BodyLine(ls, k) ==
    LET at == {j \in k..Len(ls) : \E t \in {"{", "}", ";"} : Contains(ls[j], t)}
    IN  IF at = {} THEN 0 ELSE Min(at)

HasBody(ls, k) == ~\E t \in {"}", ";"} : Contains(ls[BodyLine(ls, k)], t)

\* Mutant of IsCounted: blank lines and comments are counted too.
IsCountedAlways(l) == TRUE

IsCounted(l) == l # <<>>

\* _FunctionState.Begin, Count and Check
BeginFunction(l) == [inside |-> TRUE, count |-> 0, test |-> IsTest(l)]
CountLine(st) == IF st.inside THEN [st EXCEPT !.count = @ + 1] ELSE st
IsTooLong(st) == st.inside /\ st.count > (IF st.test THEN TestTrigger ELSE NormalTrigger)

CheckForFunctionLengths(k) ==
    LET ls == clean.lines
        l  == ls[k]
        Result(st, isError) ==
            [st |-> st, errors |-> IF isError THEN {<<k, "readability/fn_size">>} ELSE {}]
        noBody == BodyLine(ls, k) = 0
    IN  IF IsFunctionHead(l)
          THEN Result(IF ~noBody /\ HasBody(ls, k) THEN BeginFunction(l) ELSE function, noBody)
        ELSE IF l = <<"}">>
          THEN Result([function EXCEPT !.inside = FALSE], IsTooLong(function))
        ELSE Result(IF IsCounted(l) THEN CountLine(function) ELSE function, FALSE)
----------------------------------------------------------------------------
(***************************************************************************)
(* ProcessFileData                                                         *)
(***************************************************************************)

\* CheckForMultilineCommentsAndStrings: what the passes over the text have
\* left of a comment or a string.
CheckForMultiline(k) ==
    LET l == clean.elided[k]
    IN  (IF Count(l, "/*") > Count(l, "*/") THEN {<<k, "readability/multiline_comment">>} ELSE {})
        \cup (IF Count(l, "q") % 2 = 1 THEN {<<k, "readability/multiline_string">>} ELSE {})

Cleanse ==
    /\ pc = "read"
    /\ file' = RemoveMultiLineComments(file)
    /\ clean' = CleansedLines(file')
    /\ errors' = {<<k, "readability/multiline_comment">> : k \in UnterminatedComments(file)}
    /\ pc' = "lines"
    /\ UNCHANGED <<source, text, lineNo, nesting, includes, function>>

\* ProcessLine: in a block of assembly nothing but the nesting is looked at.
ProcessLine ==
    /\ pc = "lines"
    /\ lineNo <= Len(file)
    /\ LET k       == lineNo
           entered == UpdatePreprocessor(nesting, clean.elided[k])
           updated == UpdateStack(entered.stack, clean, k)
           fn      == CheckForFunctionLengths(k)
           lang    == CheckLanguage(k)
       IN  /\ nesting' = [stack |-> updated.stack, pp |-> entered.pp]
           /\ IF InAsmBlock(updated.stack)
                THEN /\ errors' = errors \cup updated.errors
                     /\ UNCHANGED <<function, includes>>
                ELSE /\ errors' = errors \cup updated.errors \cup fn.errors
                                        \cup CheckForMultiline(k) \cup lang.errors
                     /\ function' = fn.st
                     /\ includes' = lang.st
    /\ lineNo' = lineNo + 1
    /\ UNCHANGED <<source, file, text, pc, clean>>

Complete ==
    /\ pc = "lines"
    /\ lineNo > Len(file)
    /\ errors' = errors \cup IncompleteBlocks(nesting.stack)
                        \cup CheckForIncludeWhatYouUse(includes)
                        \cup CheckHeaderFileIncluded(includes)
    /\ pc' = "done"
    /\ UNCHANGED <<source, file, text, clean, lineNo, nesting, includes, function>>

Next == Cleanse \/ ProcessLine \/ Complete

Spec == Init /\ [][Next]_vars
----------------------------------------------------------------------------
(***************************************************************************)
(* Properties                                                              *)
(***************************************************************************)
Begun == pc = "lines" /\ lineNo = 1

\* --- What a compiler takes for code ---

\* All the tokens, each line ended by "nl".
Joined(ls) == FlattenSeq([k \in DOMAIN ls |-> Append(ls[k], "nl")])

Unindented(s) == SelectSeq(s, LAMBDA t : t # "_")
Newlines(s) == SelectSeq(s, LAMBDA t : t = "nl")

\* The code from position i on, string contents and comments left out; ok is
\* FALSE where the text is no C++ or is written in a way that cpplint's
\* separate passes are not made for: a comment over several lines that does
\* not begin and end as a line of its own, quotes or // in a /* comment, a raw
\* string that contains /*, a string that contains R.
Lexed(s) ==
    LET Bad == [ok |-> FALSE, out |-> <<>>]
        Then(out, r) == [ok |-> r.ok, out |-> out \o r.out]
        Starts(i) == \/ i = 1 \/ s[i - 1] = "nl"
                     \/ s[i - 1] = "_"
        Within(i, j, S) == \A k \in i..j : s[k] \notin S
        code[i \in 1..(Len(s) + 1)] ==
            IF i > Len(s) THEN [ok |-> TRUE, out |-> <<>>]
            ELSE IF s[i] = "//" THEN code[FirstIn(s, {"nl"}, i)]
            ELSE IF s[i] = "/*" THEN
                LET e == FirstIn(s, {"*/"}, i + 1)
                IN  IF \/ e = 0
                       \/ ~Within(i, e, {"q", "eq", "a", "R", "//"})
                       \/ ~Within(i, e, {"nl"}) /\ ~(Starts(i) /\ s[e + 1] = "nl")
                      THEN Bad ELSE Then(Newlines(SubSeq(s, i, e)), code[e + 1])
            ELSE IF s[i] = "R" /\ s[i + 1] = "q" THEN
                LET p == FirstIn(s, {"(", ")", "eq", "_", "nl", "q"}, i + 2)
                    delim == <<")">> \o SubSeq(s, i + 2, p - 1) \o <<"q">>
                    e == Find(s, delim, p + 1)
                IN  IF p = 0 \/ e = 0 THEN Bad
                    ELSE IF s[p] # "(" \/ ~Within(p, e, {"/*"}) THEN Bad
                    ELSE Then(LET nls == Newlines(SubSeq(s, p, e))
                              IN  <<"q", "q">>
                                  \o FlattenSeq([n \in DOMAIN nls |-> <<"nl", "q", "q">>]),
                              code[e + Len(delim)])
            ELSE IF s[i] = "a" /\ i > 1 /\ s[i - 1] = "1" /\ s[i + 1] \in {"1", "x"} THEN
                \* a digit separator; what it joins may go on with another one
                LET e == LiteralEnd(s, i)
                IN  Then(SelectSeq(SubSeq(s, i, e), LAMBDA t : t # "a"), code[e + 1])
            ELSE IF s[i] \in {"q", "a"} THEN
                LET e == FirstIn(s, {s[i], "nl"}, i + 1)
                IN  IF s[e] = "nl" \/ ~Within(i, e, {"R"}) THEN Bad
                    ELSE Then(<<s[i], s[i]>>, code[e + 1])
            ELSE IF s[i] \in {"*/", "eq"} THEN Bad
            ELSE Then(<<s[i]>>, code[i + 1])
    IN  code[1]

\* The elided lines hold exactly the code of the file: the passes over it,
\* which each know one kind of comment or literal, do not mistake one for
\* another (//, /* and quotes in strings, strings in raw strings, apostrophes
\* in numbers).
ElidedIsCode ==
    Begun => LET code == Lexed(Joined(text))
             IN  code.ok => Unindented(Joined(clean.elided)) = Unindented(code.out)

\* --- Brackets ---

Brackets(s) == SelectSeq(s, LAMBDA t : t \in Opening \cup Closing)

\* What is left of s when matching pairs are cancelled.
Uncancelled(s) ==
    FoldLeft(LAMBDA left, t :
                 IF left # <<>> /\ Last(left) \in Opening /\ t = Partner[Last(left)]
                   THEN Front(left) ELSE Append(left, t),
             <<>>, Brackets(s))

\* A closing angle bracket of "operator>" or ">=", which only the search
\* backwards tells from one that closes.
IsOperator(l, i) == Behind(l, i, "operator") \/ (i < Len(l) /\ l[i + 1] = "=")

\* CloseExpression finds the bracket that closes a round, square or curly one,
\* whatever angle brackets and semicolons lie between, on this or a later line;
\* a closing position, an angle bracket's too, leads ReverseCloseExpression back.
BracketsClose ==
    Begun =>
        \A n \in DOMAIN clean.elided : \A p \in DOMAIN clean.elided[n] :
            LET ls == clean.elided
                r  == IF ls[n][p] = "<" /\ Behind(ls[n], p, "<") THEN NotFound
                      ELSE CloseExpression(ls, n, p)
                Span(m, q) == IF m = n THEN SubSeq(ls[n], p, q)
                              ELSE From(ls[n], p) \o FlattenSeq(SubSeq(ls, n + 1, m - 1))
                                       \o Upto(ls[m], q)
                Closes(m, q) == (m = n => q > p) /\ Uncancelled(Span(m, q)) = <<>>
            IN  /\ ls[n][p] \in Opening =>
                     IF r # NotFound
                       THEN /\ Closes(r[1], r[2] - 1)
                            /\ \A m \in n..r[1] : \A q \in DOMAIN ls[m] :
                                  Closes(m, q) => m = r[1] /\ q >= r[2] - 1
                       ELSE ~\E m \in n..Len(ls) : \E q \in DOMAIN ls[m] : Closes(m, q)
                /\ r # NotFound /\ ~IsOperator(ls[r[1]], r[2] - 1) =>
                     ReverseCloseExpression(ls, r[1], r[2] - 1) = <<n, p>>

\* --- Nesting ---

\* For each conditional open after line k, whether its #else was seen.
Branches(k) ==
    FoldLeft(LAMBDA open, l :
                 IF IsDirective(l, "#if") THEN Append(open, FALSE)
                 ELSE IF open = <<>> THEN open
                 ELSE IF IsDirective(l, "#else") THEN Append(Front(open), TRUE)
                 ELSE IF IsDirective(l, "#endif") THEN Front(open)
                 ELSE open,
             <<>>, Upto(clean.elided, k))

InElse(k) == \E i \in DOMAIN Branches(k) : Branches(k)[i]

\* The lines up to k that are not in an #else branch.
Kept(k) == SelectSeq(Upward(1, k), LAMBDA j : ~InElse(j))

\* Heads of classes and namespaces are followed by a brace or a semicolon, or
\* are template arguments, and no more braces close than were opened.
WellFormed(s) ==
    /\ \A i \in DOMAIN s : s[i] \in {"class", "struct", "namespace"} =>
          LET j == FirstIn(s, {"{", "}", ";", ")", ">", "class", "struct", "namespace"}, i + 1)
          IN  j = 0 \/ s[j] \in {"{", ";", ")", ">"}
    /\ \A i \in DOMAIN s : Count(Upto(s, i), "}") <= Count(Upto(s, i), "{")

\* Outside of #else branches the stack is the one of the file without these
\* branches, however conditionals nest and whatever braces their branches open
\* or close; and the blocks on it are as many as braces are open there.
NestingFollowsCode ==
    pc = "lines" /\ lineNo > 1 /\ ~InElse(lineNo - 1) =>
        LET kept == Kept(lineNo - 1)
            code == FlattenSeq([i \in DOMAIN kept |-> clean.elided[kept[i]]])
        IN  /\ nesting.stack = FoldLeft(LAMBDA stack, j : UpdateStack(stack, clean, j).stack,
                                        <<>>, kept)
            /\ WellFormed(code) =>
                 Cardinality({i \in DOMAIN nesting.stack : nesting.stack[i].seen})
                     = Count(code, "{") - Count(code, "}")

\* --- Includes ---

AnyDirective(l) == \E d \in {"#if", "#else", "#endif"} : IsDirective(l, d)
HeaderOn(k) == Strip(clean.lines[k])[2]

\* The last directive before line k, or 0.
LastDirective(k) == Max({0} \cup {d \in 1..(k - 1) : AnyDirective(clean.elided[d])})

\* The header of line j was in a branch that an #else before line k has ended.
IsForgotten(j, k) ==
    LET ds == {d \in (j + 1)..(k - 1) : AnyDirective(clean.elided[d])}
    IN  ds # {} /\ IsDirective(clean.elided[Min(ds)], "#else")

RepeatedIncludes ==
    LET inc == {k \in DOMAIN clean.elided : IsInclude(clean.elided[k])}
        Recorded(j) == LET h == Headers[HeaderOn(j)]
                       IN  ~h.foreignSource /\ (h.sameBase \/ ~h.thirdParty)
    IN  {k \in inc : Recorded(k) /\ \E j \in inc :
            j < k /\ HeaderOn(j) = HeaderOn(k) /\ ~IsForgotten(j, k)}

\* Headers that count for the order: those recorded, the first time.
Ordered ==
    LET repeated == RepeatedIncludes
    IN  {k \in DOMAIN clean.elided :
            /\ IsInclude(clean.elided[k])
            /\ k \notin repeated
            /\ LET h == Headers[HeaderOn(k)]
               IN  ~h.foreignSource /\ (h.sameBase \/ ~h.thirdParty)}

KindOn(k) == ClassifyInclude(Headers[HeaderOn(k)])

\* A C header is late after a C++ or another header, a C++ header after another
\* one; a header that this file may implement counts as another one unless it
\* is the first, and directives start afresh.
LateIncludes ==
    LET ordered == Ordered
        Before(k) == {j \in ordered : LastDirective(k) < j /\ j < k}
        IsOther(j) == \/ KindOn(j) = "other"
                      \/ /\ KindOn(j) \in {"likely", "possible"}
                         /\ \E i \in Before(j) : KindOn(i) \in {"c", "cpp", "other"}
    IN  {k \in ordered :
            \/ KindOn(k) = "c" /\ \E j \in Before(k) : KindOn(j) = "cpp" \/ IsOther(j)
            \/ KindOn(k) = "cpp" /\ \E j \in Before(k) : IsOther(j)}

\* Complete conditionals that do not nest: in those that do, an outer #else
\* forgets the headers of the wrong branch.
IsFlat ==
    \A k \in DOMAIN clean.elided :
        LET l == clean.elided[k]
        IN  /\ Len(Branches(k)) <= 1
            /\ IsDirective(l, "#else") \/ IsDirective(l, "#endif") => Branches(k - 1) # <<>>

\* The includes not forgotten when the file has been read.
KnownIncludes ==
    LET end == Len(clean.elided) + 1
    IN  {k \in Ordered : ~IsForgotten(k, end)}

\* A source file that has a header and includes none of its name is reported
\* at its first include.
OwnHeaderMissing ==
    LET known == KnownIncludes
    IN  IF /\ source.isSource /\ source.hasHeader
           /\ ~\E k \in known : Headers[HeaderOn(k)].sameBase
          THEN {IF known = {} THEN 0 ELSE Min(known)} ELSE {}

\* The last lines that use something of a header the file does not include,
\* directly or through its own header.
UnmetUses ==
    LET names == {HeaderOn(k) : k \in KnownIncludes}
        Reached(h) == \/ h \in names
                      \/ \E n \in names : IsOwnHeader(n) /\ h \in Headers[n].contains
        Using(h) == {k \in DOMAIN clean.elided : h \in RequiredBy(clean.elided[k])}
    IN  IF source.isSource /\ ~\E n \in names : IsOwnHeader(n) THEN {}
        ELSE {Max(Using(h)) : h \in {h \in DOMAIN Headers : Using(h) # {} /\ ~Reached(h)}}

\* Where conditionals do not nest, a header is reported as repeated exactly if
\* it was included before on a line not in an alternative branch, as late
\* exactly if the order of sections since the last directive is broken, and as
\* missing exactly if something of it is used and no branch that was not
\* given up for another includes it.
IncludesJudged ==
    pc = "done" /\ IsFlat =>
        LET Reported(category) == {e[1] : e \in {e \in errors : e[2] = category}}
        IN  /\ Reported("build/include")
                 = RepeatedIncludes \cup OwnHeaderMissing
                     \cup {k \in DOMAIN clean.elided : IsInclude(clean.elided[k])
                                                       /\ Headers[HeaderOn(k)].foreignSource}
            /\ Reported("build/include_order") = LateIncludes
            /\ Reported("build/include_what_you_use") = UnmetUses

\* --- Function lengths ---

\* Line i is part of assembly in parentheses that does not end on the line it
\* begins on, or in braces and before the line of the closing one.
InAsm(i) ==
    \E s \in {s \in 1..i : MatchAsm(clean.elided[s])} :
        \E last \in {i - 1, i} : \E open \in {"(", "{"} :
            /\ open = "(" => last = Max({s, i - 1})
            /\ open = "{" => last = i
            /\ Contains(clean.elided[s], open)
            /\ \A j \in s..last :
                  LET sofar == FlattenSeq(SubSeq(clean.elided, s, j))
                  IN  Count(sofar, open) > Count(sofar, Partner[open])

\* A function is reported on the line of its closing brace exactly if between
\* it and the head there are more lines of code than allowed, blank lines,
\* comments and assembly not counted, and no line either that looks like a head
\* itself (a call at the left margin); a head without any body is reported too.
FunctionLengthExact ==
    pc = "done" =>
        LET ls == clean.lines
            heads == {k \in DOMAIN ls : IsFunctionHead(ls[k]) /\ ~InAsm(k)}
            begins == {k \in heads : BodyLine(ls, k) # 0 /\ HasBody(ls, k)}
            ends == {k \in DOMAIN ls : ls[k] = <<"}">> /\ ~InAsm(k)}
            Counted(b, e) == {i \in (b + 1)..(e - 1) :
                                ls[i] # <<>> /\ i \notin heads /\ ~InAsm(i)}
            IsLong(e) == \E b \in begins :
                /\ b < e
                /\ \A i \in (b + 1)..(e - 1) : i \notin begins \cup ends
                /\ Cardinality(Counted(b, e))
                     > (IF IsTest(ls[b]) THEN TestTrigger ELSE NormalTrigger)
        IN  {e[1] : e \in {e \in errors : e[2] = "readability/fn_size"}}
              = {e \in ends : IsLong(e)} \cup {k \in heads : BodyLine(ls, k) = 0}
=============================================================================
