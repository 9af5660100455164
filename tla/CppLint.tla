------------------------------- MODULE CppLint -------------------------------
(***************************************************************************)
(* The driver of cpplint ("make cpplint"): options, the CPPLINT.cfg files  *)
(* on the way from a source file to the root, NOLINT comments, filters,    *)
(* counters and reports.  All of it is state of the Python module that     *)
(* outlives a file, so what one file leaves behind meets the next.         *)
(*                                                                         *)
(* Source: build_support/cpplint.py.                                       *)
(*                                                                         *)
(* What the checks find in a file is an input: a finding is a line, a      *)
(* category and a confidence.  A category is a string such as              *)
(* "build/class", a filter a sign and a string that categories start with, *)
(* a path the sequence of its components.  How the findings come about is  *)
(* the subject of LintFile.  A string is a sequence of characters.         *)
(***************************************************************************)
EXTENDS Integers, Sequences, FiniteSets, Bags, SequencesExt, FiniteSetsExt

CONSTANTS Flags,              \* the command lines, without the file names
          Disks,              \* the file names given, source and CPPLINT.cfg files
          ErrorCategories,    \* _ERROR_CATEGORIES
          LegacyCategories    \* _LEGACY_ERROR_CATEGORIES

Category == STRING \ {"*"}
Path     == Seq(STRING) \ {<<>>}
Filter   == [sign : STRING, prefix : STRING]
Finding  == [line : Nat, cat : Category, conf : Nat]
Comment  == [next : BOOLEAN, cat : STRING]
\* A line has at most one NOLINT comment that is looked at, the first.
CodeLine == [nolint : {ns \in SUBSET Comment : \A m, n \in ns : m = n},
             found : Seq(Finding), width : Nat, cr : BOOLEAN]
\* A line that CheckForHeaderGuard looks at, the #ifndef and then the #endif, and
\* what it finds there; line 0 stands for a guard that is missing.
GuardLine == [line : Nat, found : Seq(Finding)]
Source   == [readable : BOOLEAN, ext : STRING, copyright : BOOLEAN,
             global : SUBSET ErrorCategories, early : Seq(Finding),
             guard : Seq(GuardLine), lines : Seq(CodeLine), late : Seq(Finding)]
Settings == [lineLength : Int, extensions : SUBSET STRING, headers : SUBSET STRING,
             root : Seq(STRING)]

\* The values of the options of a CPPLINT.cfg that are looked at.
OptionOK(opt) ==
    /\ opt.name = "filter" => opt.val \in Seq(Filter)
    /\ opt.name = "linelength" => opt.val \in Int
    /\ opt.name \in {"extensions", "headers"} => opt.val \in SUBSET STRING
    /\ opt.name = "root" => opt.val \in Seq(STRING)

\* The filters, categories and notes that the driver itself makes are strings: true
\* in TLA+, and stated because no rule of the prover says so.
ASSUME StringAssumption ==
    {"-", "build/include_alpha", "legal/copyright", "readability/nolint",
     "whitespace/line_length", "whitespace/newline", "option", "config", "ignored",
     "unreadable", "extension", "done"} \subseteq STRING

\* A name given that is no file is an unreadable one.
ASSUME CppLintAssumption ==
    /\ ErrorCategories \subseteq Category
    /\ \A f \in Flags : /\ f.filter \in Seq(Filter) /\ f.quiet \in BOOLEAN
                        /\ f.lineLength \in Int /\ f.root \in Seq(STRING)
                        /\ f.extensions \in SUBSET STRING /\ f.headers \in SUBSET STRING
    /\ \A d \in Disks :
          /\ IsFiniteSet(DOMAIN d.files) /\ DOMAIN d.files \subseteq Path
          /\ \A f \in DOMAIN d.files : d.files[f] \in Source
          /\ d.names \in Seq(DOMAIN d.files)
          /\ \A dir \in DOMAIN d.cfg :
                LET opts == d.cfg[dir].options
                IN  /\ Len(opts) \in Nat /\ DOMAIN opts = 1 .. Len(opts)
                    /\ \A i \in DOMAIN opts : OptionOK(opts[i])

VARIABLES flags, disk,        \* the inputs
          pc,
          filenames,          \* the files still to be processed
          file,               \* the file being processed
          filters, filtersBackup,
          settings,           \* _line_length, _valid_extensions, _hpp_headers, _root
          depth,              \* how much of file is left to climb for CPPLINT.cfg
          cfgFilters,         \* cfg_filters, one entry for each "filter=" line
          suppressions,       \* _error_suppressions; "*" is the category None
          globalSuppressions, \* _global_error_suppressions
          lineNo,             \* of the file, or of the lines of its header guard
          errorCount, oldErrors,
          errorsByCategory,   \* a bag
          stdout, stderr,     \* what was written
          junitErrors, junitFailures,
          exitStatus,
          finished            \* history: the files processed, in order

inputs     == <<flags, disk>>
filterVars == <<filters, filtersBackup>>
nolintVars == <<suppressions, globalSuppressions>>
countVars  == <<errorCount, errorsByCategory>>
junitVars  == <<junitErrors, junitFailures>>
fileVars   == <<filenames, file, oldErrors, finished>>
cfgVars    == <<settings, depth, cfgFilters>>
vars == <<inputs, pc, fileVars, filterVars, cfgVars, nolintVars, lineNo,
          countVars, stdout, stderr, junitVars, exitStatus>>
----------------------------------------------------------------------------
\* The elements of s at the places in at, in their order: SelectSeq, as a fold.
Select(s, at) ==
    FoldLeft(LAMBDA kept, i : IF i \in at THEN Append(kept, s[i]) ELSE kept,
             <<>>, [i \in DOMAIN s |-> i])
----------------------------------------------------------------------------
(***************************************************************************)
(* Extensions                                                              *)
(***************************************************************************)
HeaderExtensions == {"h", "hh", "hpp", "hxx", "h++", "cuh"}
SourceExtensions == {"c", "cc", "cpp", "cxx", "c++", "cu"}

\* 'h' in e
HasAnH(e) == \E i \in 1..Len(e) : SubSeq(e, i, i) = "h"

GetHeaderExtensions(s) ==
    IF s.headers # {} THEN s.headers
    ELSE IF s.extensions # {} THEN {e \in s.extensions : HasAnH(e)}
    ELSE HeaderExtensions

GetAllExtensions(s) ==
    GetHeaderExtensions(s)
        \cup (IF s.extensions # {} THEN s.extensions ELSE SourceExtensions)

\* Options of the command line and of CPPLINT.cfg.
ProcessHppHeadersOption(s, val) == [s EXCEPT !.headers = val]
ProcessExtensionsOption(s, val) == [s EXCEPT !.extensions = val]
----------------------------------------------------------------------------
(***************************************************************************)
(* Filters and suppressions                                                *)
(***************************************************************************)
DefaultFilters == <<[sign |-> "-", prefix |-> "build/include_alpha"]>>

\* AddFilters raises a ValueError for a filter with neither sign.
AllSigned(fs) == \A i \in DOMAIN fs : fs[i].sign \in {"+", "-"}

IsErrorSuppressedByNolint(x, supp, global) ==
    x.cat \in global \/ <<x.cat, x.line>> \in supp \/ <<"*", x.line>> \in supp

\* Later filters override earlier ones.  A prefix need not end at a "/":
\* -build/include takes build/include_alpha away as well.
IsFiltered(cat) ==
    FoldLeft(LAMBDA filtered, f :
                 IF IsPrefix(f.prefix, cat) THEN f.sign = "-" ELSE filtered,
             FALSE, filters)

ShouldPrintError(x, supp, global) ==
    /\ ~IsErrorSuppressedByNolint(x, supp, global)
    /\ x.conf >= flags.verbose
    /\ ~IsFiltered(x.cat)

\* _RestoreFilters
RestoreFilters == filters' = filtersBackup

\* The findings among xs for which Error prints something.
Shown(xs, supp, global) ==
    Select(xs, {i \in DOMAIN xs : ShouldPrintError(xs[i], supp, global)})

\* cat.split('/')[0]
TopLevel(cat) ==
    SubSeq(cat, 1, Min({i \in 1..Len(cat) : SubSeq(cat, i, i) = "/"} \cup {Len(cat) + 1}) - 1)

\* The entry of errors_by_category that IncrementErrorCount bumps.
CountingKey(cat) == IF flags.counting = "toplevel" THEN TopLevel(cat) ELSE cat

\* errors_by_category after IncrementErrorCount for each of xs.
Counted(xs) ==
    IF flags.counting \notin {"toplevel", "detailed"} THEN errorsByCategory
    ELSE FoldLeft(LAMBDA bag, x : bag (+) SetToBag({CountingKey(x.cat)}),
                  errorsByCategory, xs)

Message(x) == [file |-> file, line |-> x.line, cat |-> x.cat, conf |-> x.conf]

\* Mutant of Report: each category is counted once a call.
ReportOnce(xs) ==
    LET messages == [i \in DOMAIN xs |-> Message(xs[i])]
    IN  /\ errorCount' = errorCount + Len(xs)
        /\ errorsByCategory' =
               IF flags.counting \notin {"toplevel", "detailed"} THEN errorsByCategory
               ELSE errorsByCategory
                        (+) SetToBag({CountingKey(xs[i].cat) : i \in DOMAIN xs})
        /\ IF flags.output = "junit"
             THEN junitFailures' = junitFailures \o messages /\ UNCHANGED stderr
             ELSE stderr' = stderr \o messages /\ UNCHANGED junitFailures

\* Error, for a sequence of findings that are all shown.
Report(xs) ==
    LET messages == [i \in DOMAIN xs |-> Message(xs[i])]
    IN  /\ errorCount' = errorCount + Len(xs)
        /\ errorsByCategory' = Counted(xs)
        /\ IF flags.output = "junit"
             THEN junitFailures' = junitFailures \o messages /\ UNCHANGED stderr
             ELSE stderr' = stderr \o messages /\ UNCHANGED junitFailures

\* PrintError, for texts that are not counted as errors.
PrintError(notes) ==
    IF flags.output = "junit"
      THEN junitErrors' = junitErrors \o notes /\ UNCHANGED stderr
      ELSE stderr' = stderr \o notes /\ UNCHANGED junitErrors

\* PrintInfo.  The flag it tests itself (_quiet) is never set.
PrintInfo(text) ==
    stdout' = IF flags.output = "junit" THEN stdout ELSE Append(stdout, text)

Note(what) == [note |-> what, file |-> file]
----------------------------------------------------------------------------
Init ==
    /\ flags \in Flags
    /\ disk \in Disks
    /\ pc = "args"
    /\ filenames = <<>>
    /\ file = <<>>
    /\ filters = DefaultFilters
    /\ filtersBackup = DefaultFilters
    /\ settings = [lineLength |-> 80, extensions |-> {}, headers |-> {}, root |-> <<>>]
    /\ depth = 0
    /\ cfgFilters = <<>>
    /\ suppressions = {}
    /\ globalSuppressions = {}
    /\ lineNo = 0
    /\ errorCount = 0
    /\ oldErrors = 0
    /\ errorsByCategory = EmptyBag
    /\ stdout = <<>>
    /\ stderr = <<>>
    /\ junitErrors = <<>>
    /\ junitFailures = <<>>
    /\ exitStatus = 0
    /\ finished = <<>>
----------------------------------------------------------------------------
(***************************************************************************)
(* The command line                                                        *)
(***************************************************************************)

\* _ExpandDirectories: the set of files at or below the names given.
ExpandDirectories(names, s) ==
    {f \in DOMAIN disk.files :
        /\ \E n \in ToSet(names) : IsPrefix(n, f)
        /\ disk.files[f].ext \in GetAllExtensions(s)}

\* PrintUsage, PrintVersion and PrintCategories end the program, and so does
\* the ValueError of _SetFilters.
BadArguments ==
    /\ pc = "args"
    /\ flags.usage # "ok" \/ ~AllSigned(flags.filter)
    /\ pc' = IF flags.usage = "ok" THEN "traceback" ELSE "usage"
    /\ exitStatus' = IF flags.usage = "help" THEN 0 ELSE 1
    /\ UNCHANGED <<inputs, fileVars, filterVars, cfgVars, nolintVars, lineNo,
                   countVars, stdout, stderr, junitVars>>

\* A recursive search collects the files in a Python set: any order.
ParseArguments ==
    /\ pc = "args"
    /\ flags.usage = "ok"
    /\ AllSigned(flags.filter)
    /\ filters' = DefaultFilters \o flags.filter
    /\ settings' = ProcessHppHeadersOption(ProcessExtensionsOption(
                        [lineLength |-> flags.lineLength, extensions |-> settings.extensions,
                         headers |-> settings.headers, root |-> flags.root],
                        flags.extensions), flags.headers)
    /\ \E names \in IF flags.recursive
                      THEN SetToSeqs(ExpandDirectories(disk.names, settings'))
                      ELSE {disk.names} :
          filenames' = Select(names, {i \in DOMAIN names : names[i] \notin flags.exclude})
    /\ pc' = "file"
    /\ UNCHANGED <<inputs, file, oldErrors, finished, filtersBackup, depth,
                   cfgFilters, nolintVars, lineNo, countVars, stdout, stderr,
                   junitVars, exitStatus>>
----------------------------------------------------------------------------
(***************************************************************************)
(* ProcessFile, as far as the CPPLINT.cfg files                            *)
(***************************************************************************)
BeginFile ==
    /\ pc = "file"
    /\ filenames # <<>>
    /\ file' = Head(filenames)
    /\ filenames' = Tail(filenames)
    /\ filtersBackup' = filters
    /\ oldErrors' = errorCount
    /\ depth' = Len(file')
    /\ cfgFilters' = <<>>
    /\ pc' = "config"
    /\ UNCHANGED <<inputs, finished, filters, settings, nolintVars, lineNo,
                   countVars, stdout, stderr, junitVars, exitStatus>>

\* What one line of a CPPLINT.cfg in directory dir does to the settings.
ReadSetting(s, opt, dir) ==
    IF opt.name = "linelength" THEN [s EXCEPT !.lineLength = opt.val]
    ELSE IF opt.name = "extensions" THEN ProcessExtensionsOption(s, opt.val)
    ELSE IF opt.name = "headers" THEN ProcessHppHeadersOption(s, opt.val)
    ELSE IF opt.name = "root" THEN [s EXCEPT !.root = dir \o opt.val]
    ELSE s

KnownOptions == {"noparent", "filter", "exclude_files", "linelength", "extensions",
                 "headers", "root"}

\* The line as a whole; base is the component of the path below dir.  Nothing is
\* read after a pattern that excludes the file.  A line length that is no number
\* is noted like an unknown option.
ReadOption(acc, opt, dir, base) ==
    IF acc.ignore THEN acc
    ELSE [ignore      |-> opt.name = "exclude_files" /\ base \in opt.val,
          keepLooking |-> acc.keepLooking /\ opt.name # "noparent",
          filters     |-> IF opt.name = "filter" THEN Append(acc.filters, opt.val)
                                                 ELSE acc.filters,
          settings    |-> ReadSetting(acc.settings, opt, dir),
          notes       |-> IF opt.name \in KnownOptions THEN acc.notes
                          ELSE Append(acc.notes, Note("option"))]

\* The lines one after the other.
ReadOptions(opts, dir, base) ==
    FoldLeft(LAMBDA acc, opt : ReadOption(acc, opt, dir, base),
             [ignore |-> FALSE, keepLooking |-> TRUE, filters |-> cfgFilters,
              settings |-> settings, notes |-> <<>>],
             opts)

\* ProcessConfigOverrides, one directory.  An excluded file is left at once,
\* with what this and deeper CPPLINT.cfg files have put into settings.
ReadConfig ==
    /\ pc = "config"
    /\ depth > 0
    /\ LET dir  == SubSeq(file, 1, depth - 1)
           read == ReadOptions(disk.cfg[dir].options, dir, file[depth])
       IN  \/ /\ dir \notin DOMAIN disk.cfg
              /\ depth' = depth - 1
              /\ UNCHANGED <<pc, fileVars, filters, settings, cfgFilters, stdout,
                             stderr, junitErrors>>
           \/ /\ dir \in DOMAIN disk.cfg
              /\ ~disk.cfg[dir].readable
              /\ PrintError(<<Note("config")>>)
              /\ depth' = 0
              /\ UNCHANGED <<pc, fileVars, filters, settings, cfgFilters, stdout>>
           \/ /\ dir \in DOMAIN disk.cfg
              /\ disk.cfg[dir].readable
              /\ PrintError(read.notes)
              /\ settings' = read.settings
              /\ cfgFilters' = read.filters
              /\ depth' = IF read.keepLooking THEN depth - 1 ELSE 0
              /\ IF read.ignore
                   THEN /\ IF flags.quiet THEN UNCHANGED stdout
                                          ELSE PrintInfo(Note("ignored"))
                        /\ RestoreFilters
                        /\ finished' = Append(finished, file)
                        /\ pc' = "file"
                   ELSE UNCHANGED <<pc, filters, finished, stdout>>
              /\ UNCHANGED <<filenames, file, oldErrors>>
    /\ UNCHANGED <<inputs, filtersBackup, nolintVars, lineNo, countVars,
                   junitFailures, exitStatus>>

\* All the filters found, those found first with the last word; one without
\* a sign raises a ValueError that nobody catches.
AddConfigFilters ==
    /\ pc = "config"
    /\ depth = 0
    /\ LET added == FlattenSeq(Reverse(cfgFilters))
       IN  IF AllSigned(added)
             THEN filters' = filters \o added /\ pc' = "read" /\ UNCHANGED exitStatus
             ELSE pc' = "traceback" /\ exitStatus' = 1 /\ UNCHANGED filters
    /\ UNCHANGED <<inputs, fileVars, filtersBackup, cfgVars, nolintVars, lineNo,
                   countVars, stdout, stderr, junitVars>>
----------------------------------------------------------------------------
(***************************************************************************)
(* ProcessFile and ProcessFileData, for a file that is not excluded        *)
(***************************************************************************)

\* Mutant of Unreadable: the early return without _RestoreFilters.
UnreadableForgets ==
    /\ pc = "read"
    /\ ~disk.files[file].readable
    /\ PrintError(<<Note("unreadable")>>)
    /\ finished' = Append(finished, file)
    /\ pc' = "file"
    /\ UNCHANGED <<inputs, filenames, file, oldErrors, filterVars, cfgVars,
                   nolintVars, lineNo, countVars, stdout, junitFailures, exitStatus>>

\* IOError while reading: a note, no error.
Unreadable ==
    /\ pc = "read"
    /\ ~disk.files[file].readable
    /\ PrintError(<<Note("unreadable")>>)
    /\ RestoreFilters
    /\ finished' = Append(finished, file)
    /\ pc' = "file"
    /\ UNCHANGED <<inputs, filenames, file, oldErrors, filtersBackup, cfgVars,
                   nolintVars, lineNo, countVars, stdout, junitFailures, exitStatus>>

WrongExtension ==
    /\ pc = "read"
    /\ disk.files[file].readable
    /\ disk.files[file].ext \notin GetAllExtensions(settings)
    /\ PrintError(<<Note("extension")>>)
    /\ pc' = "done"
    /\ UNCHANGED <<inputs, fileVars, filterVars, cfgVars, nolintVars, lineNo,
                   countVars, stdout, junitFailures, exitStatus>>

CopyrightMissing == [line |-> 0, cat |-> "legal/copyright", conf |-> 5]

\* ResetNolintSuppressions, CheckForCopyright, ProcessGlobalSuppresions and
\* RemoveMultiLineComments: no NOLINT comment has been read yet.
BeginData ==
    LET f == disk.files[file]
    IN  /\ pc = "read"
        /\ f.readable
        /\ f.ext \in GetAllExtensions(settings)
        /\ suppressions' = {}
        /\ globalSuppressions' = f.global
        /\ Report(  Shown(IF f.copyright THEN <<>> ELSE <<CopyrightMissing>>, {}, {})
                 \o Shown(f.early, {}, f.global))
        /\ lineNo' = 1
        /\ pc' = "guard"
        /\ UNCHANGED <<inputs, fileVars, filterVars, cfgVars, stdout, junitErrors,
                       exitStatus>>

\* The line a NOLINT or NOLINTNEXTLINE on line k is about.
SuppressedLine(nolint, k) == IF nolint.next THEN k + 1 ELSE k

\* ParseNolintSuppressions: "*" stands for no category and for (*).
Suppressed(nolints, k) ==
    {<<n.cat, SuppressedLine(n, k)>> :
        n \in {n \in nolints : n.cat \in ErrorCategories \cup {"*"}}}

UnknownNolint(nolints, k) ==
    IF \E n \in nolints : n.cat \notin ErrorCategories \cup LegacyCategories \cup {"*"}
      THEN <<[line |-> k, cat |-> "readability/nolint", conf |-> 5]>>
      ELSE <<>>

\* The NOLINT comment of line k; the marker lines around the file have none.
NolintOf(src, k) == IF k \in DOMAIN src.lines THEN src.lines[k].nolint ELSE {}

\* ParseNolintSuppressions for line k, then what was found is reported.
ParseAndReport(nolints, k, found) ==
    /\ suppressions' = suppressions \cup Suppressed(nolints, k)
    /\ Report(  Shown(UnknownNolint(nolints, k), suppressions, globalSuppressions)
              \o Shown(found, suppressions', globalSuppressions))

\* The lines of the guard that are looked at: in a header.
GuardOf(src, s) == IF src.ext \in GetHeaderExtensions(s) THEN src.guard ELSE <<>>

\* CheckForHeaderGuard, one line of the guard; the NOLINT on it will be read once
\* more when its turn comes in ProcessLine.
CheckForHeaderGuard ==
    LET f     == disk.files[file]
        guard == GuardOf(f, settings)
    IN  /\ pc = "guard"
        /\ lineNo <= Len(guard)
        /\ LET at == guard[lineNo]
           IN  ParseAndReport(NolintOf(f, at.line), at.line, at.found)
        /\ lineNo' = lineNo + 1
        /\ UNCHANGED <<inputs, pc, fileVars, filterVars, cfgVars, globalSuppressions,
                       stdout, junitErrors, exitStatus>>

\* On to the first line.
BeginLines ==
    /\ pc = "guard"
    /\ lineNo > Len(GuardOf(disk.files[file], settings))
    /\ pc' = "lines"
    /\ lineNo' = 1
    /\ UNCHANGED <<inputs, fileVars, filterVars, cfgVars, nolintVars, countVars,
                   stdout, stderr, junitVars, exitStatus>>

TooLong(width, limit, k) ==
    IF width > limit
      THEN <<[line |-> k, cat |-> "whitespace/line_length", conf |-> 2]>>
      ELSE <<>>

\* ProcessLine: first the NOLINT comment of the line, then its checks.
ProcessLine ==
    /\ pc = "lines"
    /\ lineNo <= Len(disk.files[file].lines)
    /\ LET l == disk.files[file].lines[lineNo]
       IN  ParseAndReport(l.nolint, lineNo,
                          l.found \o TooLong(l.width, settings.lineLength, lineNo))
    /\ lineNo' = lineNo + 1
    /\ UNCHANGED <<inputs, pc, fileVars, filterVars, cfgVars, globalSuppressions,
                   stdout, junitErrors, exitStatus>>

\* The lines that end in CR LF where others do not.
StrayCR(lines) ==
    LET cr == Select([k \in DOMAIN lines |-> k], {k \in DOMAIN lines : lines[k].cr})
    IN  IF Len(cr) = Len(lines) THEN <<>>
        ELSE [i \in DOMAIN cr |->
                [line |-> cr[i], cat |-> "whitespace/newline", conf |-> 1]]

\* The checks after the last line.
EndData ==
    LET f == disk.files[file]
    IN  /\ pc = "lines"
        /\ lineNo > Len(f.lines)
        /\ Report(Shown(f.late \o StrayCR(f.lines), suppressions, globalSuppressions))
        /\ pc' = "done"
        /\ UNCHANGED <<inputs, fileVars, filterVars, cfgVars, nolintVars, lineNo,
                       stdout, junitErrors, exitStatus>>

\* Mutant of Done: any error so far counts, not only those of this file.
DoneAfterAnyError ==
    /\ pc = "done"
    /\ IF ~flags.quiet \/ errorCount > 0 THEN PrintInfo(Note("done"))
                                         ELSE UNCHANGED stdout
    /\ RestoreFilters
    /\ finished' = Append(finished, file)
    /\ pc' = "file"
    /\ UNCHANGED <<inputs, filenames, file, oldErrors, filtersBackup, cfgVars,
                   nolintVars, lineNo, countVars, stderr, junitVars, exitStatus>>

Done ==
    /\ pc = "done"
    /\ IF ~flags.quiet \/ oldErrors # errorCount THEN PrintInfo(Note("done"))
                                                 ELSE UNCHANGED stdout
    /\ RestoreFilters
    /\ finished' = Append(finished, file)
    /\ pc' = "file"
    /\ UNCHANGED <<inputs, filenames, file, oldErrors, filtersBackup, cfgVars,
                   nolintVars, lineNo, countVars, stderr, junitVars, exitStatus>>
----------------------------------------------------------------------------
(***************************************************************************)
(* The end of main                                                         *)
(***************************************************************************)

\* The files with failures, in order of their first one.
FailedFiles ==
    FoldLeft(LAMBDA names, x : IF Contains(names, x.file) THEN names
                               ELSE Append(names, x.file),
             <<>>, junitFailures)

\* FormatJUnitXML: the failures grouped by file.
FormatJUnitXML ==
    [errors |-> junitErrors,
     testcases |-> [i \in DOMAIN FailedFiles |->
         Select(junitFailures,
                {k \in DOMAIN junitFailures : junitFailures[k].file = FailedFiles[i]})]]

\* Mutant of Finish: the number of errors as the exit status.
FinishWithCount ==
    /\ pc = "file"
    /\ filenames = <<>>
    /\ IF errorCount > 0
         THEN PrintInfo([total |-> errorCount, categories |-> errorsByCategory])
         ELSE UNCHANGED stdout
    /\ stderr' = IF flags.output = "junit" THEN Append(stderr, FormatJUnitXML) ELSE stderr
    /\ exitStatus' = errorCount
    /\ pc' = "exit"
    /\ UNCHANGED <<inputs, fileVars, filterVars, cfgVars, nolintVars, lineNo,
                   countVars, junitVars>>

\* PrintErrorCounts prints nothing where there are no errors.
Finish ==
    /\ pc = "file"
    /\ filenames = <<>>
    /\ IF errorCount > 0
         THEN PrintInfo([total |-> errorCount, categories |-> errorsByCategory])
         ELSE UNCHANGED stdout
    /\ stderr' = IF flags.output = "junit" THEN Append(stderr, FormatJUnitXML) ELSE stderr
    /\ exitStatus' = IF errorCount > 0 THEN 1 ELSE 0
    /\ pc' = "exit"
    /\ UNCHANGED <<inputs, fileVars, filterVars, cfgVars, nolintVars, lineNo,
                   countVars, junitVars>>

Next ==
    \/ BadArguments \/ ParseArguments
    \/ BeginFile \/ ReadConfig \/ AddConfigFilters
    \/ Unreadable \/ WrongExtension \/ BeginData \/ CheckForHeaderGuard \/ BeginLines
    \/ ProcessLine \/ EndData \/ Done
    \/ Finish

Spec == Init /\ [][Next]_vars
----------------------------------------------------------------------------
(***************************************************************************)
(* Properties                                                              *)
(***************************************************************************)
TypeOK ==
    /\ flags \in Flags
    /\ disk \in Disks
    /\ pc \in {"args", "file", "config", "read", "guard", "lines", "done", "exit",
              "usage", "traceback"}
    /\ ToSet(filenames) \subseteq DOMAIN disk.files
    /\ ToSet(finished) \subseteq DOMAIN disk.files
    /\ file \in DOMAIN disk.files \cup {<<>>}
    /\ AllSigned(filters) /\ AllSigned(filtersBackup)
    /\ settings \in Settings
    /\ depth \in 0..Len(file)
    /\ \A s \in suppressions : s[1] \in ErrorCategories \cup {"*"} /\ s[2] \in Nat
    /\ globalSuppressions \subseteq ErrorCategories
    /\ lineNo \in Nat
    /\ errorCount \in Nat /\ oldErrors \in 0..errorCount
    /\ IsABag(errorsByCategory)
    /\ exitStatus \in {0, 1}

\* --- What the usage text promises, from the command line cmd and the disk d alone ---

Options(d, dir) ==
    IF dir \in DOMAIN d.cfg /\ d.cfg[dir].readable THEN d.cfg[dir].options ELSE <<>>

\* The configuration of a directory is the last one looked at.
IsTop(d, dir) ==
    /\ dir \in DOMAIN d.cfg
    /\ \/ ~d.cfg[dir].readable
       \/ \E i \in DOMAIN Options(d, dir) : Options(d, dir)[i].name = "noparent"

\* How deep the outermost directory is whose configuration f is subject to.
Outermost(d, f) ==
    Max({0} \cup {i \in 0..(Len(f) - 1) : IsTop(d, SubSeq(f, 1, i))})

\* A pattern in opts matches the name.
Excludes(opts, name) ==
    \E i \in DOMAIN opts : opts[i].name = "exclude_files" /\ name \in opts[i].val

IsExcluded(d, f) ==
    \E i \in Outermost(d, f)..(Len(f) - 1) :
        Excludes(Options(d, SubSeq(f, 1, i)), f[i + 1])

\* The filter lines of a CPPLINT.cfg; the first of several has the last word.
FilterLines(opts) ==
    Select([i \in DOMAIN opts |-> opts[i].val], {i \in DOMAIN opts : opts[i].name = "filter"})
FiltersOf(opts) == FlattenSeq(Reverse(FilterLines(opts)))

\* A nested directory overrides the one above, both override the command line.
FiltersFrom(d, f, top) ==
    FlattenSeq([i \in 1..(Len(f) - top) |-> FiltersOf(Options(d, SubSeq(f, 1, top + i - 1)))])
FiltersFor(cmd, d, f) ==
    DefaultFilters \o cmd.filter \o FiltersFrom(d, f, Outermost(d, f))

\* The last filter that speaks of a category decides.
Passes(fs, cat) ==
    \A i \in DOMAIN fs :
        /\ IsPrefix(fs[i].prefix, cat)
        /\ \A j \in (i + 1)..Len(fs) : ~IsPrefix(fs[j].prefix, cat)
        => fs[i].sign = "+"

\* x is found when the comments of the lines in read have been read.
IsWanted(cmd, fs, src, x, read) ==
    /\ x.conf >= cmd.verbose
    /\ Passes(fs, x.cat)
    /\ x.cat \notin src.global
    /\ ~\E j \in read : \E n \in NolintOf(src, j) :
          /\ n.cat = "*" \/ (n.cat = x.cat /\ n.cat \in ErrorCategories)
          /\ x.line = IF n.next THEN j + 1 ELSE j

Wanted(cmd, fs, src, xs, read) ==
    Select(xs, {i \in DOMAIN xs : IsWanted(cmd, fs, src, xs[i], read)})

WantedCopyright(cmd, fs, src) ==
    IF /\ ~src.copyright
       /\ CopyrightMissing.conf >= cmd.verbose
       /\ Passes(fs, CopyrightMissing.cat)
      THEN <<CopyrightMissing>> ELSE <<>>

\* The first n lines of the header guard, and the first k lines as well.
GuardRead(cmd, src, n) == {GuardOf(src, cmd)[i].line : i \in 1..n}
LinesRead(cmd, src, k) == GuardRead(cmd, src, Len(GuardOf(src, cmd))) \cup 1..k

\* What is to be shown of line i of the header guard and of line k, ...
WantedOfGuard(cmd, fs, src, i) ==
    LET at == GuardOf(src, cmd)[i]
    IN  Wanted(cmd, fs, src, UnknownNolint(NolintOf(src, at.line), at.line) \o at.found,
               GuardRead(cmd, src, i))
WantedOfLine(cmd, fs, src, k) ==
    LET l == src.lines[k]
    IN  Wanted(cmd, fs, src,
               UnknownNolint(l.nolint, k) \o (l.found \o TooLong(l.width, cmd.lineLength, k)),
               LinesRead(cmd, src, k))

\* ... up to line n of the guard, ...
WantedUpToGuard(cmd, fs, src, n) ==
    (WantedCopyright(cmd, fs, src) \o Wanted(cmd, fs, src, src.early, {}))
        \o FlattenSeq([i \in 1..n |-> WantedOfGuard(cmd, fs, src, i)])

\* ... before and in the first n lines, ...
WantedUpTo(cmd, fs, src, n) ==
    WantedUpToGuard(cmd, fs, src, Len(GuardOf(src, cmd)))
        \o FlattenSeq([k \in 1..n |-> WantedOfLine(cmd, fs, src, k)])

\* ... and in all of src.
WantedInAll(cmd, fs, src) ==
    WantedUpTo(cmd, fs, src, Len(src.lines))
        \o Wanted(cmd, fs, src, src.late \o StrayCR(src.lines),
                  LinesRead(cmd, src, Len(src.lines)))

IsChecked(cmd, d, f) ==
    /\ ~IsExcluded(d, f)
    /\ d.files[f].readable
    /\ d.files[f].ext \in GetAllExtensions([extensions |-> cmd.extensions,
                                            headers |-> cmd.headers])

MessagesFor(f, xs) ==
    [i \in DOMAIN xs |-> [file |-> f, line |-> xs[i].line, cat |-> xs[i].cat,
                          conf |-> xs[i].conf]]

ExpectedFor(cmd, d, f) ==
    IF IsChecked(cmd, d, f)
      THEN MessagesFor(f, WantedInAll(cmd, FiltersFor(cmd, d, f), d.files[f]))
      ELSE <<>>

\* No CPPLINT.cfg touches a setting that is not restored after a file.
NoLastingSettings ==
    \A dir \in DOMAIN disk.cfg : \A i \in DOMAIN Options(disk, dir) :
        Options(disk, dir)[i].name \notin {"linelength", "extensions", "headers"}

Reported ==
    IF flags.output = "junit" THEN junitFailures
    ELSE Select(stderr, {i \in DOMAIN stderr : "cat" \in DOMAIN stderr[i]})

\* The errors reported so far are, file by file and in order, those that the
\* command line, the configuration files above the file and its own NOLINT
\* comments let through, whatever files were processed before.  A NOLINT comment
\* is in force from the moment it is read: that of a line when the line is
\* checked or, on the #ifndef and #endif of a header guard, before the first
\* line; it comes too late for what is reported earlier, and for the copyright
\* and an unfinished comment always.  An unknown category in it is reported each
\* time it is read, twice on the guard.  Configuration files with settings that
\* are not restored after a file are excluded.
ReportedAsDocumented ==
    NoLastingSettings /\ pc = "file" =>
        Reported = FlattenSeq([i \in DOMAIN finished |-> ExpectedFor(flags, disk, finished[i])])

\* A run that gets to its end exits with 1 exactly if it reported something,
\* the counts of the categories add up to the total, and the XML holds every
\* failure, once, under its file.
ExitCodeTellsErrors ==
    pc = "exit" =>
        /\ exitStatus = IF Reported = <<>> THEN 0 ELSE 1
        /\ errorCount = Len(Reported)
        /\ flags.counting \in {"toplevel", "detailed"} =>
               /\ SumFunctionOnSet(errorsByCategory, DOMAIN errorsByCategory) = errorCount
               /\ \A key \in DOMAIN errorsByCategory :
                     errorsByCategory[key] =
                         Cardinality({i \in DOMAIN Reported :
                                         CountingKey(Reported[i].cat) = key})
        /\ flags.output = "junit" =>
               LET cases == Last(stderr).testcases
               IN  /\ \A i \in DOMAIN cases : cases[i] # <<>>
                   /\ Len(FlattenSeq(cases)) = Len(junitFailures)
                   /\ ToSet(FlattenSeq(cases)) = ToSet(junitFailures)

\* --quiet: nothing is printed on stdout where no errors are found, and a
\* file is named as done only if errors were found in that very file.
QuietIsQuiet ==
    flags.quiet =>
        /\ errorCount = 0 => stdout = <<>>
        /\ \A i \in DOMAIN stdout : "note" \in DOMAIN stdout[i] =>
              \E j \in DOMAIN Reported : Reported[j].file = stdout[i].file
=============================================================================
