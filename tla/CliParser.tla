------------------------------ MODULE CliParser ------------------------------
(***************************************************************************)
(* How the clients of the phone directory (lltest.cpp, systest.cpp) take   *)
(* their command line: CLI::App of CLI11.hpp, one action for each          *)
(* _parse_single, each return of a nested _parse, each option whose        *)
(* callback runs, and each of the checks and callbacks that follow.        *)
(*                                                                         *)
(* An argument is a value the tables below say how to split.  What the     *)
(* clients do not use is left out: option groups, fallthrough, extras that *)
(* are allowed, validators, configuration files, the environment.          *)
(***************************************************************************)
EXTENDS Integers, SequencesExt

CONSTANTS
  Subcommands,    (* [name, positionals] in the order they were added      *)
  HasDevice,      (* lltest has a required -d                              *)
  Lines,          (* the command lines                                     *)
  SplitLong,      (* "--name=value" -> <<name, value>>                     *)
  SplitShort,     (* "-nrest" -> <<name, rest>>                            *)
  Dash,           (* rest -> "-rest"                                       *)
  Digits,         (* names that are digits                                 *)
  Unsigned        (* what lexical_cast takes for an unsigned int           *)

VARIABLES
  line, args,     (* the command line, and what is left of it              *)
  frames,         (* [app, positional_only] of each _parse that runs       *)
  results,        (* results_ of each option                               *)
  parsed,         (* parsed_ of each app                                   *)
  parsed_subcommands, missing,
  todo,           (* options whose callback has not run yet                *)
  variables,      (* the variables of main, which subcommands share        *)
  ran,            (* [name, values] of each final callback that has run    *)
  phase, outcome

vars == <<line, args, frames, results, parsed, parsed_subcommands, missing, todo, variables, ran,
          phase, outcome>>

MAIN   == "main"
NONE   == "none"
Names  == {Subcommands[i].name : i \in DOMAIN Subcommands}
Apps   == {MAIN} \cup Names
App(n) == Subcommands[CHOOSE i \in DOMAIN Subcommands : Subcommands[i].name = n]

(* Positional options of an app, all of them required, one item each.      *)
Positionals(a) == IF a = MAIN THEN <<>> ELSE App(a).positionals

(* set_help_flag and add_option: -h,--help everywhere, -d of main.         *)
HELP   == "help"
DEVICE == "device"
Options(a) == <<HELP>> \o (IF a = MAIN /\ HasDevice THEN <<DEVICE>> ELSE <<>>) \o Positionals(a)
AllOptions == UNION {{<<a, o>> : o \in ToSet(Options(a))} : a \in Apps}
Variables  == UNION {ToSet(Positionals(a)) : a \in Names}

(* "-h,--help" and "-d": the names by which an option can be given.        *)
get_names(o) ==
  [short |-> IF o = HELP THEN {"h"} ELSE IF o = DEVICE THEN {"d"} ELSE {},
   long  |-> IF o = HELP THEN {"help"} ELSE {}]

(* The option of an app that a name is one of, NONE if there is none.      *)
Named(a, name, long) ==
  LET hits == {o \in ToSet(Options(a)) : name \in IF long THEN get_names(o).long ELSE get_names(o).short}
  IN  IF hits = {} THEN NONE ELSE CHOOSE o \in hits : TRUE

Count(a, o) == Len(results[<<a, o>>])

(* The order of _process_callbacks.                                        *)
InOrder == FlattenSeq([i \in 1..(Len(Subcommands) + 1) |->
             LET a == IF i = 1 THEN MAIN ELSE Subcommands[i - 1].name
             IN  [j \in DOMAIN Options(a) |-> <<a, Options(a)[j]>>]])

Init ==
  /\ line \in Lines /\ args = line
  /\ frames = <<[app |-> MAIN, positional_only |-> FALSE]>>
  /\ results = [o \in AllOptions |-> <<>>]
  /\ parsed = [a \in Apps |-> IF a = MAIN THEN 1 ELSE 0]
  /\ parsed_subcommands = <<>> /\ missing = [a \in Apps |-> <<>>]
  /\ todo = <<>>
  /\ variables = [v \in Variables |-> NONE] /\ ran = <<>>
  /\ phase = "parse" /\ outcome = "none"

(* The app that parses, and the argument it looks at: parse(argc, argv)    *)
(* turns the line round, and what is at the back comes next.               *)
Top     == frames[Len(frames)].app
Arg     == args[1]
Exit(o) == phase' = "exit" /\ outcome' = o

(* The status of the process, but for an exception nobody catches.         *)
ExitCodes == [Success |-> 0, CallForHelp |-> 0, ConversionError |-> 104, RequiredError |-> 106,
              ExtrasError |-> 109, ArgumentMismatch |-> 114]
-----------------------------------------------------------------------------
(* _find_subcommand from main: used ones are skipped or not.               *)
find_subcommand(a, name, ignore_used) ==
  a = MAIN /\ name \in Names /\ (ignore_used => parsed[name] = 0)

(* A subcommand of its own or of its parent's.                             *)
valid_subcommand(name) == find_subcommand(MAIN, name, TRUE)

recognize(a, arg) ==
  CASE arg = "--" -> "POSITIONAL_MARK"
    [] arg # "--" /\ valid_subcommand(arg) -> "SUBCOMMAND"
    [] ~valid_subcommand(arg) /\ arg \in DOMAIN SplitLong -> "LONG"
    [] ~valid_subcommand(arg) /\ arg \in DOMAIN SplitShort /\ SplitShort[arg][1] \notin Digits -> "SHORT"
    [] arg = "++" /\ a # MAIN -> "SUBCOMMAND_TERMINATOR"
    [] OTHER -> "NONE"

(* split_long and split_short: the name, and what follows it.              *)
split(arg, long) == IF long THEN SplitLong[arg] ELSE SplitShort[arg]

Classifier == IF frames[Len(frames)].positional_only THEN "NONE" ELSE recognize(Top, Arg)

(* The options parse_positional and _parse_subcommand look for.            *)
Unfilled(a) == SelectSeq(Positionals(a), LAMBDA o : Count(a, o) < 1)
count_remaining_positionals(a) == Len(Unfilled(a))

Return == frames' = Front(frames)
Call(a) ==
  /\ frames' = Append(frames, [app |-> a, positional_only |-> FALSE])
  /\ parsed' = [parsed EXCEPT ![a] = @ + 1]
add_result(a, o, text) == results' = [results EXCEPT ![<<a, o>>] = Append(@, text)]
move_to_missing(a, classifier, text) ==
  missing' = [missing EXCEPT ![a] = Append(@, <<classifier, text>>)]

(* What a flag is given: the value that came with its name, if any.        *)
get_flag_value(value) == IF value = "" THEN "true" ELSE value

processing == <<todo, variables, ran>>
running    == <<phase, outcome>>

positional_mark ==
  /\ Classifier = "POSITIONAL_MARK"
  /\ args' = Tail(args)
  /\ IF count_remaining_positionals(Top) = 0 /\ Top # MAIN
       THEN Return /\ UNCHANGED missing
       ELSE /\ frames' = [frames EXCEPT ![Len(frames)].positional_only = TRUE]
            /\ move_to_missing(Top, "POSITIONAL_MARK", Arg)
  /\ UNCHANGED <<results, parsed, parsed_subcommands, running>>

subcommand_terminator ==
  /\ Classifier = "SUBCOMMAND_TERMINATOR"
  /\ args' = Tail(args) /\ Return
  /\ UNCHANGED <<results, parsed, parsed_subcommands, missing, running>>

(* _parse_positional: the first option that lacks its item, a subcommand   *)
(* that was used before, and the parent if it has one like it.             *)
parse_positional ==
  /\ Classifier = "NONE" \/ (Classifier = "SUBCOMMAND" /\ count_remaining_positionals(Top) > 0)
  /\ \/ /\ count_remaining_positionals(Top) > 0
        /\ add_result(Top, Unfilled(Top)[1], Arg) /\ args' = Tail(args)
        /\ UNCHANGED <<frames, parsed, missing>>
     \/ /\ count_remaining_positionals(Top) = 0
        /\ IF find_subcommand(Top, Arg, FALSE)
             THEN args' = Tail(args) /\ Call(Arg) /\ UNCHANGED missing
             ELSE IF find_subcommand(MAIN, Arg, FALSE)
             THEN Return /\ UNCHANGED <<args, parsed, missing>>
             ELSE /\ move_to_missing(Top, "NONE", Arg) /\ args' = Tail(args)
                  /\ UNCHANGED <<frames, parsed>>
        /\ UNCHANGED results
  /\ UNCHANGED <<parsed_subcommands, running>>

(* Mutant: the required positionals do not come first.                     *)
SubcommandsFirst ==
  /\ Classifier = "SUBCOMMAND"
  /\ IF find_subcommand(Top, Arg, TRUE)
       THEN /\ args' = Tail(args) /\ parsed_subcommands' = Append(parsed_subcommands, Arg)
            /\ Call(Arg)
       ELSE Return /\ UNCHANGED <<args, parsed, parsed_subcommands>>
  /\ UNCHANGED <<results, missing, running>>

(* _parse_subcommand when all positionals are there.                       *)
parse_subcommand ==
  /\ Classifier = "SUBCOMMAND" /\ count_remaining_positionals(Top) = 0
  /\ IF find_subcommand(Top, Arg, TRUE)
       THEN /\ args' = Tail(args) /\ parsed_subcommands' = Append(parsed_subcommands, Arg)
            /\ Call(Arg)
       ELSE Return /\ UNCHANGED <<args, parsed, parsed_subcommands>>
  /\ UNCHANGED <<results, missing, running>>

(* _parse_arg: a flag takes nothing and leaves the rest to be looked at    *)
(* again; -d takes the rest, or whatever comes next.                       *)
parse_arg ==
  LET long  == Classifier = "LONG"
      name  == split(Arg, long)[1]
      rest  == split(Arg, long)[2]
      o     == Named(Top, name, long)
      found == o # NONE
  IN
  /\ Classifier \in {"LONG", "SHORT"}
  /\ \/ /\ ~found /\ args' = Tail(args)
        /\ move_to_missing(Top, Classifier, Arg) /\ UNCHANGED <<results, running>>
     \/ /\ found /\ o = HELP
        /\ add_result(Top, o, get_flag_value(IF long THEN rest ELSE ""))
        /\ args' = (IF ~long /\ rest # "" THEN <<Dash[rest]>> ELSE <<>>) \o Tail(args)
        /\ UNCHANGED <<missing, running>>
     \/ /\ found /\ o = DEVICE /\ rest # ""
        /\ add_result(Top, o, rest) /\ args' = Tail(args)
        /\ UNCHANGED <<missing, running>>
     \/ /\ found /\ o = DEVICE /\ rest = "" /\ Len(args) > 1
        /\ add_result(Top, o, args[2]) /\ args' = Tail(Tail(args))
        /\ UNCHANGED <<missing, running>>
     \/ /\ found /\ o = DEVICE /\ rest = "" /\ Len(args) = 1
        /\ Exit("ArgumentMismatch") /\ UNCHANGED <<args, results, missing>>
  /\ UNCHANGED <<frames, parsed, parsed_subcommands>>

parse_single ==
  /\ phase = "parse" /\ args # <<>>
  /\ \/ positional_mark \/ subcommand_terminator \/ parse_positional \/ parse_subcommand \/ parse_arg
  /\ UNCHANGED <<line, processing>>

parse_end ==
  /\ phase = "parse" /\ args = <<>>
  /\ Return
  /\ IF Len(frames) > 1 THEN UNCHANGED <<phase, todo>>
       ELSE phase' = "callbacks" /\ todo' = SelectSeq(InOrder, LAMBDA o : results[o] # <<>>)
  /\ UNCHANGED <<line, args, results, parsed, parsed_subcommands, missing, variables, ran, outcome>>
-----------------------------------------------------------------------------
(* A positional or -d may have one item, as _reduce_results throws for     *)
(* more; a number must be one.                                             *)
reduce_results(items) == Len(items) <= 1
lexical_cast(o, item) == o = "age" => item \in Unsigned

(* Option::run_callback of an option that was given; -d opens the device.  *)
process_callbacks ==
  LET a == todo[1][1]
      o == todo[1][2]
      items == results[<<a, o>>]
  IN
  /\ phase = "callbacks" /\ todo # <<>>
  /\ todo' = Tail(todo)
  /\ \/ o = HELP /\ UNCHANGED <<variables, running>>
     \/ /\ o # HELP /\ ~reduce_results(items)
        /\ Exit("ArgumentMismatch") /\ UNCHANGED variables
     \/ /\ o = DEVICE /\ reduce_results(items) /\ UNCHANGED variables
        /\ UNCHANGED running \/ Exit("CError")
     \/ /\ o \in Variables /\ reduce_results(items)
        /\ IF ~lexical_cast(o, items[1])
             THEN Exit("ConversionError") /\ UNCHANGED variables
             ELSE variables' = [variables EXCEPT ![o] = items[1]] /\ UNCHANGED running
  /\ UNCHANGED <<line, args, frames, results, parsed, parsed_subcommands, missing, ran>>

AsksForHelp ==
  \/ Count(MAIN, HELP) > 0
  \/ \E n \in ToSet(parsed_subcommands) : Count(n, HELP) > 0

MeetsRequirements ==
  /\ HasDevice => Count(MAIN, DEVICE) > 0
  /\ parsed_subcommands # <<>>
  /\ \A n \in Names : parsed[n] > 0 => count_remaining_positionals(n) = 0

remaining_size(a) == Len(SelectSeq(missing[a], LAMBDA m : m[1] # "POSITIONAL_MARK"))

process_extras == \A a \in Apps : parsed[a] > 0 => remaining_size(a) = 0

(* The rest of _process, and _process_extras.                              *)
process ==
  /\ phase = "callbacks" /\ todo = <<>>
  /\ CASE AsksForHelp -> Exit("CallForHelp")
       [] ~AsksForHelp /\ ~MeetsRequirements -> Exit("RequiredError")
       [] ~AsksForHelp /\ MeetsRequirements /\ ~process_extras ->
            Exit("ExtrasError")
       [] OTHER -> phase' = "run" /\ UNCHANGED outcome
  /\ UNCHANGED <<line, args, frames, results, parsed, parsed_subcommands, missing, processing>>

(* App::run_callback: the final callback of each subcommand in turn.  One  *)
(* that throws is not caught.                                              *)
run_callback ==
  LET n == parsed_subcommands[Len(ran) + 1] IN
  /\ phase = "run"
  /\ \/ /\ Len(ran) < Len(parsed_subcommands)
        /\ ran' = Append(ran, [name |-> n, values |-> [i \in DOMAIN Positionals(n) |-> variables[Positionals(n)[i]]]])
        /\ UNCHANGED running \/ Exit("CError")
     \/ /\ Len(ran) = Len(parsed_subcommands)
        /\ Exit("Success") /\ UNCHANGED ran
  /\ UNCHANGED <<line, args, frames, results, parsed, parsed_subcommands, missing, todo, variables>>

Next == parse_single \/ parse_end \/ process_callbacks \/ process \/ run_callback

Spec == Init /\ [][Next]_vars /\ WF_vars(Next)
-----------------------------------------------------------------------------
(* What a subcommand was given.                                            *)
Given(n) == [i \in DOMAIN Positionals(n) |-> results[<<n, Positionals(n)[i]>>][1]]

DevicePart(s) == IF ~HasDevice THEN s = <<>>
                 ELSE \/ Len(s) = 1 /\ s[1] \in DOMAIN SplitShort /\ SplitShort[s[1]][1] = "d" /\ SplitShort[s[1]][2] # ""
                      \/ Len(s) = 2 /\ s[1] = "-d"

(* The plain form of a command: the device if there is to be one, a        *)
(* subcommand and its arguments, none of them like an option, names of     *)
(* subcommands among them.                                                 *)
Plain ==
  \E k \in 0..Len(line) :
    /\ DevicePart(SubSeq(line, 1, k)) /\ k < Len(line) /\ line[k + 1] \in Names
    /\ LET n == line[k + 1] IN
         /\ Len(line) = k + 1 + Len(Positionals(n))
         /\ \A i \in DOMAIN Positionals(n) :
              /\ recognize(MAIN, line[k + 1 + i]) \in {"NONE", "SUBCOMMAND"}
              /\ line[k + 1 + i] \notin {"++", "--"} \cup DOMAIN SplitLong
              /\ Positionals(n)[i] = "age" => line[k + 1 + i] \in Unsigned

Refused == outcome # "CError" /\ ExitCodes[outcome] # 0

(* The parser comes to an end, and then: a command line that is refused    *)
(* has run nothing, and one that has run nothing is refused unless it asks *)
(* for help; one that is taken has run each subcommand once, in the order  *)
(* of the line; a single one was given what stands in the line, all of     *)
(* which was used; and a plain command is taken.                           *)
AsMeant ==
  /\ phase = "exit"
  /\ Refused => ran = <<>>
  /\ ran = <<>> => Refused \/ AsksForHelp \/ outcome = "CError"
  /\ outcome = "Success" =>
       /\ [i \in DOMAIN ran |-> ran[i].name] = parsed_subcommands
       /\ IsInjective(parsed_subcommands)
       /\ Len(ran) = 1 => ran[1].values = Given(ran[1].name)
       /\ (\A i \in DOMAIN line : line[i] \notin {"--", "++"}) /\ (\A n \in Names : parsed[n] <= 1) =>
            \E k \in 0..Len(line) :
              /\ DevicePart(SubSeq(line, 1, k))
              /\ SubSeq(line, k + 1, Len(line)) =
                   FlattenSeq([i \in DOMAIN ran |-> <<ran[i].name>> \o Given(ran[i].name)])
  /\ Plain => outcome \in {"Success", "CError"}

EndsAsMeant == <>[]AsMeant
=============================================================================
