----------------------------- MODULE ConfigArgs -----------------------------
(***************************************************************************)
(* How the command line and the configuration file become one set of       *)
(* options (config.rs, main.rs). The file's lines are turned into argument *)
(* tokens, tokens the command line overrides are cut out again, and the    *)
(* rest is put in front of the command line for clap, which refuses an     *)
(* option it meets twice.                                                  *)
(*                                                                         *)
(* A value never begins with a dash: clap would refuse it.                 *)
(***************************************************************************)
EXTENDS Integers, SequencesExt

CONSTANTS
    Single,      \* options with one value
    Switch,      \* options without a value
    Repeat,      \* options that may be given many times (--auth)
    Value,       \* their values
    Unknown,     \* a key that is no option
    None,        \* no value
    MaxArgs,     \* bound: options on the command line
    MaxOptions   \* bound: lines of the file and options together

VARIABLES
    file,        \* the lines of the configuration file
    where,       \* its path: the default one, or another
    args         \* the options on the command line, as the user means them

configVars == <<file, where, args>>

-----------------------------------------------------------------------------
(* Tokens: --key, --key=value, -s or -c, and a bare word. *)
Long(k) == [kind |-> "long", key |-> k, value |-> None]
Inline(k, v) == [kind |-> "inline", key |-> k, value |-> v]
Short(m) == [kind |-> "short", key |-> "mode", value |-> m]
Word(v) == [kind |-> "word", key |-> None, value |-> v]
Dashed(t) == t.kind # "word"

(* clap_option_tables *)
longs == Single \cup Switch \cup Repeat \cup {"mode"}

(* remove_earlier_option: --key goes with the word behind it. *)
remove_earlier_option(out, k) ==
    LET step(acc, t) ==
          IF t = Long(k) THEN [kept |-> acc.kept, eat |-> TRUE]
          ELSE IF (acc.eat /\ ~Dashed(t)) \/ (t.kind = "inline" /\ t.key = k)
          THEN [kept |-> acc.kept, eat |-> FALSE]
          ELSE [kept |-> Append(acc.kept, t), eat |-> FALSE]
    IN FoldLeft(step, [kept |-> <<>>, eat |-> FALSE], out).kept

(* One line of parse_config_file: is it refused, and the tokens it adds. *)
ValidLine(l) ==
    /\ l.key \in longs
    /\ l.key = "mode" => l.value \in {"server", "client"}
    /\ l.key \in Switch => l.value \in {None, "true"}
    /\ l.key \in Single \cup Repeat => l.value # None
LineTokens(l) ==
    IF l.key = "mode" THEN <<Short(l.value)>>
    ELSE IF l.key \in Switch THEN <<Long(l.key)>>
    ELSE <<Long(l.key), Word(l.value)>>

parse_config_file(lines) ==
    LET step(out, l) ==
          (IF l.key \in Repeat THEN out ELSE remove_earlier_option(out, l.key)) \o LineTokens(l)
    IN IF \A i \in DOMAIN lines : ValidLine(lines[i])
       THEN [ok |-> TRUE, out |-> FoldLeft(step, <<>>, lines)]
       ELSE [ok |-> FALSE, out |-> <<>>]

-----------------------------------------------------------------------------
(* extract_config_arg: the path of the file, and the arguments without it. *)
extract_config_arg(argv) ==
    LET step(acc, t) ==
          IF acc.want
          THEN [acc EXCEPT !.want = FALSE, !.path = t.value]
          ELSE IF t.kind \in {"long", "inline"} /\ t.key = "config"
          THEN [acc EXCEPT !.ok = @ /\ acc.path = None,
                           !.want = (t.kind = "long"),
                           !.path = IF t.kind = "long" THEN @ ELSE t.value]
          ELSE [acc EXCEPT !.rest = Append(@, t)]
        end == FoldLeft(step, [ok |-> TRUE, want |-> FALSE, path |-> None, rest |-> <<>>], argv)
    IN [end EXCEPT !.ok = @ /\ ~end.want]

(* file_args: a path that was given must be there, the default may not be. *)
file_args(path) ==
    IF path = where \/ (path = None /\ where = "default") THEN parse_config_file(file)
    ELSE [ok |-> path = None, out |-> <<>>]

(* strip_cli_overridden: the single-value options and switches the command *)
(* line names are cut from the file's tokens, and so is a mode.            *)
Overridden(cli) ==
    {cli[i].key : i \in {j \in DOMAIN cli : cli[j].kind \in {"long", "inline"}}}
        \cap (longs \ Repeat)
HasMode(cli) == \E i \in DOMAIN cli : cli[i].kind = "short"
\* mutant: the file's mode is kept
strip_cli_overridden_KeepsMode(out, cli) ==
    FoldLeft(remove_earlier_option, out, SetToSeq(Overridden(cli)))

strip_cli_overridden(out, cli) ==
    LET cut == FoldLeft(remove_earlier_option, out, SetToSeq(Overridden(cli)))
    IN IF HasMode(cli) THEN SelectSeq(cut, LAMBDA t : t.kind # "short") ELSE cut

-----------------------------------------------------------------------------
(* What a parse yields: the options' values, or a refusal. *)
Error == [ok |-> FALSE, value |-> <<>>, on |-> {}, list |-> <<>>, mode |-> {}]
Nothing == [ok |-> TRUE, value |-> [k \in Single |-> None], on |-> {}, list |-> <<>>, mode |-> {}]

(* clap: one option after the other; a value follows its option, and only  *)
(* the repeatable one may come twice.                                      *)
Assign(p, k, v) ==
    CASE k \in Single -> [p EXCEPT !.ok = @ /\ p.value[k] = None, !.value[k] = v]
      [] k \in Repeat -> [p EXCEPT !.list = Append(@, v)]
      [] OTHER -> [p EXCEPT !.ok = FALSE]
try_parse_from(tokens) ==
    LET step(acc, t) ==
          IF acc.key # None
          THEN IF Dashed(t) THEN [key |-> None, p |-> Error]
               ELSE [key |-> None, p |-> Assign(acc.p, acc.key, t.value)]
          ELSE CASE t.kind = "long" /\ t.key \in Switch ->
                      [key |-> None, p |-> [acc.p EXCEPT !.ok = @ /\ t.key \notin acc.p.on,
                                                         !.on = @ \cup {t.key}]]
                 [] t.kind = "long" /\ t.key \in Single \cup Repeat -> [acc EXCEPT !.key = t.key]
                 [] t.kind = "inline" -> [key |-> None, p |-> Assign(acc.p, t.key, t.value)]
                 [] t.kind = "short" ->
                      [key |-> None, p |-> [acc.p EXCEPT !.ok = @ /\ t.value \notin acc.p.mode,
                                                         !.mode = @ \cup {t.value}]]
                 [] OTHER -> [key |-> None, p |-> Error]
        end == FoldLeft(step, [key |-> None, p |-> Nothing], tokens)
    IN IF end.key = None /\ end.p.ok THEN end.p ELSE Error

(* Cli::validate: exactly one mode, and credentials. *)
validate(p) == IF p.ok /\ Cardinality(p.mode) = 1 /\ p.list # <<>> THEN p ELSE Error

(* main, up to the options it runs with. *)
main(argv) ==
    LET got == extract_config_arg(argv)
        from == file_args(got.path)
    IN IF ~got.ok \/ ~from.ok THEN Error
       ELSE validate(try_parse_from(strip_cli_overridden(from.out, got.rest) \o got.rest))

-----------------------------------------------------------------------------
(* What the user means: options with a value, spelled either way. *)
Spelling(a) ==
    IF a.key = "mode" THEN <<Short(a.value)>>
    ELSE IF a.key \in Switch THEN <<Long(a.key)>>
    ELSE IF a.inline THEN <<Inline(a.key, a.value)>> ELSE <<Long(a.key), Word(a.value)>>
Argv == FlattenSeq([i \in DOMAIN args |-> Spelling(args[i])])

Of(opts, k) == LET mine == SelectSeq(opts, LAMBDA o : o.key = k)
               IN [i \in DOMAIN mine |-> mine[i].value]
Final(vals) == IF vals = <<>> THEN None ELSE Last(vals)

(* The file that counts: the one named, else the default one. *)
Named == Of(args, "config")
Missing == Named # <<>> /\ Named[1] # where
Lines == IF Named # <<>> \/ where = "default" THEN file ELSE <<>>
Contradictory ==
    \/ Missing \/ \E i \in DOMAIN Lines : ~ValidLine(Lines[i])
    \/ \E k \in Single \cup Switch \cup {"config"} : Len(Of(args, k)) > 1

(* An option has its value from the command line, else from its last line  *)
(* in the file; repeatable ones add up; a mode on the command line wins.   *)
Meant ==
    IF Contradictory THEN Error ELSE
    LET either(k) == IF Of(args, k) # <<>> THEN Of(args, k) ELSE Of(Lines, k)
        list == FlattenSeq([i \in 1 .. 2 |->
                   LET o == IF i = 1 THEN Lines ELSE args
                   IN SelectSeq(o, LAMBDA x : x.key \in Repeat)])
    IN IF Len(either("mode")) # 1 \/ list = <<>> THEN Error
       ELSE [ok |-> TRUE,
             value |-> [k \in Single |-> Final(either(k))],
             on |-> {k \in Switch : either(k) # <<>>},
             list |-> [i \in DOMAIN list |-> list[i].value],
             mode |-> {either("mode")[1]}]

-----------------------------------------------------------------------------
(* Every file and command line within the bounds. *)
Line(k, v) == [key |-> k, value |-> v]
GoodLine ==
    {Line(k, v) : k \in Single \cup Repeat, v \in Value}
        \cup {Line(k, None) : k \in Switch} \cup {Line("mode", m) : m \in {"server", "client"}}
BadLine ==
    {Line(k, None) : k \in Single \cup Repeat \cup {Unknown, "mode"}}
        \cup {Line(k, v) : k \in Switch \cup {"mode"}, v \in Value}
Arg(k, v, inline) == [key |-> k, value |-> v, inline |-> inline]
Argument ==
    {Arg(k, v, i) : k \in Single \cup Repeat, v \in Value, i \in BOOLEAN}
        \cup {Arg(k, None, FALSE) : k \in Switch}
        \cup {Arg("mode", m, FALSE) : m \in {"server", "client"}}
        \cup {Arg("config", p, i) : p \in {"default", "other"}, i \in BOOLEAN}

ConfigInit == file = <<>> /\ args = <<>> /\ where \in {"default", "other"}

AddLine(l) ==
    /\ args = <<>> /\ Len(file) < MaxOptions
    /\ \A i \in DOMAIN file : ValidLine(file[i])
    /\ file' = Append(file, l)
    /\ UNCHANGED <<where, args>>
AddArg(a) ==
    /\ Len(args) < MaxArgs /\ Len(file) + Len(args) < MaxOptions
    /\ args' = Append(args, a)
    /\ UNCHANGED <<file, where>>

ConfigNext == (\E l \in GoodLine \cup BadLine : AddLine(l)) \/ (\E a \in Argument : AddArg(a))
ConfigSpec == ConfigInit /\ [][ConfigNext]_configVars

(* The token machinery gives the options the user means, for every file    *)
(* that names the mode at most once and every command line: the command    *)
(* line wins over the file, the last line of the file over the earlier     *)
(* ones, credentials add up in order, both spellings are the same, and     *)
(* clap refuses only what the user contradicts.                            *)
MergeExact == Len(Of(file, "mode")) <= 1 => main(Argv) = Meant
=============================================================================
