-------------------------------- MODULE Args --------------------------------
(***************************************************************************)
(* The loop over the command line: parse_args (src/main.rs) and main of    *)
(* the benchmark client (bench/run_bench.rs), which differ in the options  *)
(* they know.  Words are strings; a configuration is a record.             *)
(***************************************************************************)
EXTENDS Naturals, Sequences, FiniteSetsExt

CONSTANTS
    Option,         \* words that take the next word as their value
    Switch,         \* words that stand alone
    Help,           \* words that print the help and end the program
    Field(_),       \* the field an option or a switch sets
    Value(_, _)     \* the value it sets the field to, given the next word

(* One turn of the while loop; state is [i, config, help].                 *)
Turn_KeepsValue(args, state) ==     \* mutant: the value is read as a word again
    LET word == args[state.i] IN
    CASE word \in Help -> [state EXCEPT !.help = TRUE]
      [] word \in Option /\ state.i < Len(args) ->
           [state EXCEPT !.i = @ + 1, !.config[Field(word)] = Value(word, args[state.i + 1])]
      [] word \in Switch -> [state EXCEPT !.i = @ + 1, !.config[Field(word)] = Value(word, "")]
      [] OTHER -> [state EXCEPT !.i = @ + 1]

Turn(args, state) ==
    LET word == args[state.i] IN
    CASE word \in Help -> [state EXCEPT !.help = TRUE]
      [] word \in Option /\ state.i < Len(args) ->
           [state EXCEPT !.i = @ + 2, !.config[Field(word)] = Value(word, args[state.i + 1])]
      [] word \in Switch -> [state EXCEPT !.i = @ + 1, !.config[Field(word)] = Value(word, "")]
      [] OTHER -> [state EXCEPT !.i = @ + 1]

(* The loop as far as it goes: it ends at the end of the line or at --help. *)
Loop(args, state) ==
    IF state.help \/ state.i > Len(args) THEN state ELSE Turn(args, state)

Start(default) == [i |-> 1, config |-> default, help |-> FALSE]

Parse(args, default) ==
    LET after[k \in 0..Len(args)] ==
          IF k = 0 THEN Start(default) ELSE Loop(args, after[k - 1])
    IN  after[Len(args)]

-----------------------------------------------------------------------------
(* What the help text leads a user to expect, without the loop: the word   *)
(* after an option is its value, and the last setting of a field counts.   *)

Named(args) ==
    LET named[j \in DOMAIN args] == ~(j > 1 /\ args[j - 1] \in Option /\ named[j - 1])
    IN  {j \in DOMAIN args : named[j]}

Setting(args, f) ==
    {j \in Named(args) : /\ args[j] \in Switch \cup Option
                         /\ args[j] \in Option => j < Len(args)
                         /\ Field(args[j]) = f}

Reference(args, default) ==
    [f \in DOMAIN default |->
        IF Setting(args, f) = {} THEN default[f]
        ELSE LET j == Max(Setting(args, f))
             IN  Value(args[j], IF args[j] \in Option THEN args[j + 1] ELSE "")]

AsDocumented(args, default) ==
    LET parsed == Parse(args, default) IN
    /\ parsed.help = (\E j \in Named(args) : args[j] \in Help)
    /\ ~parsed.help => parsed.config = Reference(args, default)
=============================================================================
