----------------------------- MODULE MCLintFile -----------------------------
(***************************************************************************)
(* Model-checking instance of LintFile: every short file over the tokens   *)
(* and the shapes of lines that one part of cpplint tells apart.           *)
(***************************************************************************)
EXTENDS LintFile

\* The files of one line, of two and of three with so many tokens in a line.
Texts(tokens, one, two, three) ==
    {{<<l>> : l \in BoundedSeq(tokens, one)},
     {<<l, m>> : l \in BoundedSeq(tokens, two), m \in BoundedSeq(tokens, two)},
     {<<l, m, n>> : l \in BoundedSeq(tokens, three), m \in BoundedSeq(tokens, three),
                    n \in BoundedSeq(tokens, three)}}

Comments == Texts({"x", "q", "eq", "//", "/*", "*/"}, 4, 2, 1)
RawStrings == Texts({"R", "q", "(", ")", "//"}, 5, 2, 1)
              \cup {{<<<<"R", "q">> \o l, m \o <<")", "q", "x">>>> :
                        l \in BoundedSeq({"x", "("}, 2), m \in BoundedSeq({"x", ")", "q"}, 2)},
                    {<<l \o <<"R", "q", "(">>, m>> : l \in BoundedSeq({"x", "//", "q", "a"}, 2),
                                                     m \in BoundedSeq({"x", "q", ")"}, 3)}}
Literals == Texts({"1", "a", "q", "x"}, 5, 0, 0)

Bracketed == Texts({"(", ")", "[", "<", ">", ";"}, 4, 2, 1)
             \cup Texts({"(", ")", "<", ">", "-"}, 5, 0, 0)
             \cup Texts({"operator", "<", ">", "="}, 4, 0, 0)
----------------------------------------------------------------------------
\* Files of n lines out of a set.
OfLines(lines, n) == [1..n -> lines]

NestingLines ==
    {<<"namespace", "N", "{">>, <<"class", "C", "{">>, <<"class", "C", ";">>,
     <<"}">>, <<"#if">>, <<"#else">>, <<"#endif">>}

OtherNestingLines ==
    {<<"namespace", "{", "namespace", "M", "{">>, <<"struct", "C">>, <<"{">>,
     <<"_", "}">>, <<"}", "//", "namespace", "N">>, <<"}", ";">>,
     <<"template", "<", "class", "x", ">", "class", "C", "{">>,
     <<"x", "<", "class", "x", ">", "x", ";">>, <<"extern", "q", "q", "{">>,
     <<"DISALLOW", "(", "C", ")">>, <<"public", ":">>, <<>>}

Nested ==
    {OfLines(NestingLines, 4),
     {<<<<"#if">>, a, b, c, <<"#endif">>, d>> :
         a \in NestingLines, b \in NestingLines, c \in NestingLines, d \in NestingLines},
     OfLines(OtherNestingLines, 3),
     {<<<<"#if">>, a, <<"#else">>, b, <<"#else">>, c, <<"#endif">>, d>> :
         a \in NestingLines, b \in NestingLines, c \in NestingLines, d \in NestingLines}}
----------------------------------------------------------------------------
MCHeaderNames == <<"a", "algorithm", "b", "impl", "internal", "lua", "stdio">>

\* Attributes of a header that is none of the special ones.
Ordinary == [system |-> FALSE, cppExtension |-> TRUE, cppHeader |-> FALSE,
             sameBase |-> FALSE, sameDirectory |-> FALSE, sameFirstComponent |-> FALSE,
             foreignSource |-> FALSE, thirdParty |-> FALSE, bare |-> FALSE, declares |-> "",
             declaresFunction |-> FALSE, sameModule |-> FALSE, opens |-> FALSE, contains |-> {}]

MCHeaders ==
    [name \in Range(MCHeaderNames) |->
        CASE name = "stdio"     -> [Ordinary EXCEPT !.system = TRUE, !.cppExtension = FALSE]
          [] name = "algorithm" -> [Ordinary EXCEPT !.system = TRUE, !.cppExtension = FALSE,
                                                    !.cppHeader = TRUE, !.declares = "sort",
                                                    !.declaresFunction = TRUE]
          [] name = "a"         -> [Ordinary EXCEPT !.sameBase = TRUE, !.sameDirectory = TRUE,
                                                    !.sameFirstComponent = TRUE, !.sameModule = TRUE,
                                                    !.opens = TRUE, !.contains = {"b"}]
          [] name = "internal"  -> [Ordinary EXCEPT !.sameFirstComponent = TRUE,
                                                    !.sameModule = TRUE]
          [] name = "impl"      -> [Ordinary EXCEPT !.foreignSource = TRUE]
          [] name = "lua"       -> [Ordinary EXCEPT !.thirdParty = TRUE]
          [] name = "b"         -> [Ordinary EXCEPT !.bare = TRUE, !.declares = "string"]]

Include(name) == <<"#include", name>>

Conditionals == {<<"#if">>, <<"#else">>, <<"#endif">>}

Included ==
    {OfLines({Include(name) : name \in {"stdio", "algorithm", "a", "b"}} \cup Conditionals, 4),
     OfLines({Include(name) : name \in {"stdio", "b", "impl", "internal", "lua"}}
                 \cup {<<>>}, 4),
     {<<Include("b"), <<"#if">>, a, <<"#else">>, b, <<"#endif">>, c>> :
         a \in {Include("a"), Include("b")}, b \in {Include("a"), Include("b")},
         c \in {Include("a"), Include("b")}}}

\* Uses of what headers declare, in source and header files.
UsingLines == {Include("a"), Include("b"), Include("internal"), <<"std", "::", "string">>,
               <<"N", "::", "string">>, <<"N", "::", "sort">>}

Used ==
    {OfLines(UsingLines, 4),
     {<<<<"#if">>, a, <<"#else">>, b, <<"#endif">>, c>> :
         a \in UsingLines, b \in UsingLines, c \in UsingLines}}
----------------------------------------------------------------------------
Body == {<<"_", "x", ";">>, <<>>, <<"_", "//", "x">>, <<"}">>}

Statements ==
    {<<<<"_", "x", ";">>>>, <<<<>>>>, <<<<"_", "asm", "(", ")", ";">>>>,
     <<<<"_", "asm", "(">>, <<"_", "x">>, <<"_", ")", ";">>>>,
     <<<<"_", "asm", "{">>, <<"_", "x">>, <<"_", "}">>>>,
     <<<<"_", "x", "{">>, <<"_", "}">>>>}

Functions ==
    {OfLines({<<"x", "(", ")", "{">>, <<"x", "(", ")">>, <<"x", "(", ")", ";">>, <<"{">>,
              <<"TEST", "(", ")", "{">>, <<"MACRO", "(", ")", "{">>} \cup Body, 4),
     {<<<<h, "(", ")", "{">>, a, b, c, d, e, <<"}">>>> :
         h \in {"x", "TEST"}, a \in Body, b \in Body, c \in Body, d \in Body, e \in Body},
     {<<<<h, "(", ")", "{">>>> \o a \o b \o c \o <<<<"}">>>> :
         h \in {"x", "TEST", "TestX"}, a \in Statements, b \in Statements, c \in Statements}}

Corpus(texts, isSource, hasHeader) ==
    [texts |-> texts, isSource |-> isSource, hasHeader |-> hasHeader]

MCCorpora ==
    {Corpus(t, TRUE, FALSE) :
        t \in Comments \cup RawStrings \cup Literals \cup Bracketed \cup Nested
                \cup Included \cup Functions}
    \cup {Corpus(t, TRUE, TRUE) : t \in Used}
    \cup {Corpus(t, FALSE, FALSE) : t \in Used}
=============================================================================
