-------------------------------- MODULE Config --------------------------------
(***************************************************************************)
(* k3yab::bawns::Config (BawConfig.cpp): the command line.  Arguments are   *)
(* the switches, numbers that atoi() reads, and other words; the default    *)
(* path of the state file is a word as well.                                *)
(***************************************************************************)
EXTENDS Integers, SequencesExt

CONSTANTS
    Numbers,        \* words that atoi() takes for a number, with its value
    OtherWords,     \* other words without a dash in front
    OtherSwitches,  \* unknown switches
    DefaultPath     \* default_state_path

Switches == {"-h", "-j", "-f"} \cup OtherSwitches
Words == DOMAIN Numbers \cup OtherWords
Args == Switches \cup Words

ASSUME WordsAssumption ==
    /\ Switches \cap Words = {} /\ {"-h", "-j", "-f"} \cap OtherSwitches = {}
    /\ DefaultPath \notin Switches
    /\ Numbers \in [DOMAIN Numbers -> Int]
    /\ "1" \in DOMAIN Numbers /\ Numbers["1"] = 1

\* A value no command line has given.
Unset == "unset"

\* atoi() gives 0 for what is no number.
GetInt(arg) == IF arg \in DOMAIN Numbers THEN Numbers[arg] ELSE 0

\* `next' is what process_switches expects: a switch or the local address, the
\* argument of one, nothing more; "error" after a ConfigError.
Defaults == [next |-> "switch", threads |-> 1, path |-> DefaultPath, local |-> Unset]

Fails(conf) == [conf EXCEPT !.next = "error"]

\* Mutant: a count is not checked.
AnyCount(conf, arg) == [conf EXCEPT !.threads = GetInt(arg), !.next = "switch"]

Count(conf, arg) ==
    IF GetInt(arg) < 1 THEN Fails(conf)
    ELSE [conf EXCEPT !.threads = GetInt(arg), !.next = "switch"]

Path(conf, arg) == [conf EXCEPT !.path = arg, !.next = "switch"]

\* One argument.  -h prints the usage and goes on.
Argument(conf, arg) ==
    CASE conf.next = "count" -> Count(conf, arg)
      [] conf.next = "path" -> Path(conf, arg)
      [] conf.next = "nothing" -> Fails(conf)
      [] conf.next = "switch" /\ arg \in Words ->
            [conf EXCEPT !.local = arg, !.next = "nothing"]
      [] conf.next = "switch" /\ arg = "-h" -> conf
      [] conf.next = "switch" /\ arg = "-j" -> [conf EXCEPT !.next = "count"]
      [] conf.next = "switch" /\ arg = "-f" -> [conf EXCEPT !.next = "path"]
      [] OTHER -> Fails(conf)

\* Config::Config: without a local address, or an argument of the last switch,
\* it throws as well.
Parse(args) ==
    LET conf == FoldLeft(Argument, Defaults, args)
    IN IF conf.next = "nothing" THEN conf ELSE Fails(conf)

-----------------------------------------------------------------------------
(* The usage text, as a way to read a command line: switches at some places,  *)
(* each followed by its argument if it takes one, and the local address last. *)
TakingArguments == {"-j", "-f"}

Reads(args, switches) ==
    LET options == 1 .. (Len(args) - 1) IN
    /\ args # <<>> /\ args[Len(args)] \in Words
    /\ \A i \in switches : args[i] \in {"-h", "-j", "-f"}
    /\ \A i \in options : i - 1 \in switches /\ args[i - 1] \in TakingArguments
                            <=> i \notin switches
    /\ \A i \in switches : args[i] \in TakingArguments => i + 1 \in options
    /\ \A i \in switches : args[i] = "-j" => GetInt(args[i + 1]) >= 1

\* Of a switch given twice the last one counts.
Given(args, switches, switch, default) ==
    LET at == {i \in switches : args[i] = switch}
    IN IF at = {} THEN default ELSE args[1 + CHOOSE i \in at : \A j \in at : j <= i]

\* A configuration is what the usage text says of a command line, and fails if it
\* says nothing of it.
AsUsage(conf, args) ==
    IF \E switches \in SUBSET (1 .. (Len(args) - 1)) : Reads(args, switches)
    THEN \A switches \in SUBSET (1 .. (Len(args) - 1)) : Reads(args, switches) =>
            /\ conf.next # "error" /\ conf.local = args[Len(args)]
            /\ conf.path = Given(args, switches, "-f", DefaultPath)
            /\ conf.threads = GetInt(Given(args, switches, "-j", "1"))
    ELSE conf.next = "error"
=============================================================================
