----------------------------- MODULE MCCppLint -----------------------------
(***************************************************************************)
(* Model-checking instance of CppLint: two files in nested directories     *)
(* under every pair of configurations of these directories, and one file   *)
(* of two lines, with and without a header guard on them, under every pair *)
(* of NOLINT comments.                                                     *)
(***************************************************************************)
EXTENDS CppLint

Class == "build/class"
Alpha == "build/include_alpha"
Guard == "build/header_guard"
Loop  == "whitespace/empty_loop_body"
Tab   == "whitespace/tab"
Cast  == "readability/casting"

MCErrorCategories == {Class, Alpha, Guard, Loop, Tab, Cast}
MCLegacyCategories == {"readability/streams"}

Found(k, c, n) == [line |-> k, cat |-> c, conf |-> n]
On(p)  == [sign |-> "+", prefix |-> p]
Off(p) == [sign |-> "-", prefix |-> p]
Bare(p) == [sign |-> "?", prefix |-> p]
----------------------------------------------------------------------------
Plain == [usage |-> "ok", filter |-> <<>>, verbose |-> 1, output |-> "emacs",
          quiet |-> FALSE, counting |-> "detailed", recursive |-> FALSE,
          exclude |-> {}, lineLength |-> 80, extensions |-> {}, headers |-> {},
          root |-> <<>>]

A == <<"d", "a.cpp">>
B == <<"d", "e", "b.hpp">>

MCFlags ==
    {[Plain EXCEPT !.filter = f, !.quiet = q, !.recursive = r, !.output = o[1],
                   !.counting = o[2]] :
        f \in {<<>>, <<Off(""), On("build/incl")>>}, q \in BOOLEAN, r \in BOOLEAN,
        o \in {<<"emacs", "detailed">>, <<"junit", "toplevel">>}}
    \cup {[Plain EXCEPT !.usage = "help"],
          [Plain EXCEPT !.usage = "fatal"],
          [Plain EXCEPT !.filter = <<On(Alpha), Bare(Class)>>],
          [Plain EXCEPT !.verbose = 2, !.quiet = TRUE, !.counting = "",
                        !.lineLength = 120],
          [Plain EXCEPT !.exclude = {A}, !.output = "vs7"],
          [Plain EXCEPT !.extensions = {"cpp"}, !.recursive = TRUE],
          [Plain EXCEPT !.headers = {"h"}, !.root = <<"d">>]}
----------------------------------------------------------------------------
NoComment == {}
Nolint(c)         == {[next |-> FALSE, cat |-> c]}
NolintNextLine(c) == {[next |-> TRUE, cat |-> c]}

Line(n, found, width, cr) == [nolint |-> n, found |-> found, width |-> width, cr |-> cr]

Clean == [readable |-> TRUE, ext |-> "cpp", copyright |-> TRUE, global |-> {},
          early |-> <<>>, guard |-> <<>>, late |-> <<>>,
          lines |-> <<Line(NoComment, <<>>, 60, FALSE)>>]
Busy  == [Clean EXCEPT !.copyright = FALSE,
              !.lines = <<Line(NoComment, <<Found(1, Class, 4), Found(1, Alpha, 4)>>, 100, FALSE)>>,
              !.late = <<Found(1, Class, 5)>>]
CFile == [Clean EXCEPT !.global = {Cast}, !.early = <<Found(1, Cast, 5), Found(1, Class, 5)>>,
              !.guard = <<[line |-> 0, found |-> <<Found(0, Guard, 5)>>]>>,
              !.lines = <<Line(NoComment, <<Found(1, Cast, 4)>>, 60, TRUE),
                          Line(NoComment, <<Found(2, Tab, 1)>>, 60, FALSE)>>]
Missing == [Clean EXCEPT !.readable = FALSE]
Directory == [Missing EXCEPT !.ext = ""]

Cfg(opts) == [readable |-> TRUE, options |-> opts]
Opt(n, v) == [name |-> n, val |-> v]

\* Configurations of /d and of /d/e.
OuterConfigs ==
    {Cfg(<<Opt("filter", <<Off(Class)>>)>>),
     Cfg(<<Opt("filter", <<Off(Class)>>), Opt("filter", <<On("build")>>)>>),
     Cfg(<<Opt("linelength", 120), Opt("exclude_files", {"a.cpp"})>>),
     Cfg(<<Opt("exclude_files", {"e"}), Opt("filter", <<Bare(Tab)>>)>>),
     Cfg(<<Opt("extensions", {"cpp"}), Opt("headers", {"hpp"}), Opt("root", <<"d">>)>>)}
InnerConfigs ==
    {Cfg(<<Opt("filter", <<On(Class), On(Alpha)>>)>>),
     Cfg(<<Opt("noparent", 0), Opt("filter", <<Off("legal")>>)>>),
     Cfg(<<Opt("linelength", 120)>>),
     Cfg(<<Opt("colour", 1), Opt("exclude_files", {"b.hpp"})>>),
     [readable |-> FALSE, options |-> <<>>]}

ConfigFiles ==
    LET D == <<"d">>  E == <<"d", "e">>
    IN  {<<>>} \cup [{D} -> OuterConfigs] \cup [{E} -> InnerConfigs]
            \cup {[x \in {D, E} |-> IF x = D THEN o ELSE i] :
                     o \in OuterConfigs, i \in InnerConfigs}

ConfigDisks ==
    [names : {<<A, B>>}, cfg : ConfigFiles,
     files : {[x \in {A, B} |-> IF x = A THEN a ELSE b] :
                 a \in {Clean, Busy, Missing},
                 b \in {[f EXCEPT !.ext = "hpp"] : f \in {Clean, Busy, CFile}}}]
    \cup
    [names : {<<A, A>>, <<<<"d">>>>}, cfg : [{<<>>} -> OuterConfigs],
     files : {[x \in {A, B, <<"d">>} |-> IF x = A THEN Busy
                                         ELSE IF x = B THEN CFile ELSE Directory]}]

Comments ==
    {NoComment} \cup {Nolint(c) : c \in {"*", Class, Guard, "readability/streams", "none"}}
                \cup {NolintNextLine(c) : c \in {"*", Loop}}

\* The guard of a header, its #ifndef on line 1 and its #endif on line 2.
Guards == {<<>>,
           <<[line |-> 2, found |-> <<>>]>>,
           <<[line |-> 1, found |-> <<Found(1, Guard, 5)>>],
             [line |-> 2, found |-> <<Found(2, Guard, 5)>>]>>}

\* The loop that starts on line 1 ends on line 2, and is reported there.
NolintDisks ==
    {[names |-> <<B>>, cfg |-> <<>>,
      files |-> [x \in {B} |->
        [Clean EXCEPT
            !.ext = "hpp", !.guard = g,
            !.lines = <<Line(c1, <<Found(1, Class, 4), Found(2, Loop, 5)>>, 60, FALSE),
                        Line(c2, <<Found(2, Class, 4), Found(2, Tab, 3)>>, 60, TRUE)>>,
            !.late = <<Found(1, Class, 4)>>]]] :
        c1 \in Comments, c2 \in Comments, g \in Guards}

MCDisks == ConfigDisks \cup NolintDisks
=============================================================================
