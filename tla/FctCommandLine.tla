---------------------------- MODULE FctCommandLine ----------------------------
(***************************************************************************)
(* The command line of the unit tests (src/abstraction/fct.h, fct_clp and  *)
(* fctkern__cl_parse): what is parsed from the arguments, how parsing      *)
(* ends, and which tests the filters let pass.                             *)
(*                                                                         *)
(* A text is a sequence of letters.  An argument is a record: option says  *)
(* which option its part before the "=" names in either form, or "none";   *)
(* text is that part, value the part after the "=".                        *)
(***************************************************************************)
EXTENDS Naturals, SequencesExt

CONSTANTS LoggerTypes,    \* the loggers by name: "standard", "minimal", "junit"
          DefaultLogger   \* FCT_DEFAULT_LOGGER

ASSUME DefaultLoggerIsKnown == DefaultLogger \in DOMAIN LoggerTypes

\* What fct_clp__parse has found; chew is set when an option took no value
\* with it and gets the next argument.
NothingParsed ==
  [version |-> FALSE, help |-> FALSE, logger |-> DefaultLogger, params |-> <<>>, chew |-> FALSE]

ParseArg(p, arg) ==
  CASE p.chew -> [p EXCEPT !.chew = FALSE, !.logger = arg.text \o arg.value]
    [] ~p.chew /\ arg.option = "version" -> [p EXCEPT !.version = TRUE]
    [] ~p.chew /\ arg.option = "help" -> [p EXCEPT !.help = TRUE]
    [] ~p.chew /\ arg.option = "logger" /\ arg.value # <<>> -> [p EXCEPT !.logger = arg.value]
    [] ~p.chew /\ arg.option = "logger" /\ arg.value = <<>> -> [p EXCEPT !.chew = TRUE]
    [] ~p.chew /\ arg.option = "none" -> [p EXCEPT !.params = Append(@, arg.text)]

Parse(args) == FoldLeft(ParseArg, NothingParsed, args)

SelectsLogger(p) == p.logger \in DOMAIN LoggerTypes

\* How fctkern__cl_parse ends: with one of its statuses, or at the assertion
\* that a filter is not blank.  A logger that is not known ends like --help.
CommandLineStatus(p) ==
  CASE p.chew -> "failure"
    [] ~p.chew /\ <<>> \in Range(p.params) -> "assertion"
    [] ~p.chew /\ <<>> \notin Range(p.params) ->
         IF p.version \/ p.help \/ ~SelectsLogger(p) THEN "success" ELSE "go"

\* A name passes a filter that it begins with, and every name passes no filters.
FilterPass(prefix, name) == IsPrefix(prefix, name)

PassFilter(filters, name) == filters = <<>> \/ \E n \in DOMAIN filters : FilterPass(filters[n], name)
=============================================================================
