---------------------------- MODULE MCCliParser ----------------------------
(* lltest with two of its subcommands, add cut down to two arguments.      *)
EXTENDS CliParser

MCSubcommands == <<[name |-> "add",  positionals |-> <<"surname", "age">>],
                   [name |-> "find", positionals |-> <<"surname">>]>>
MCLong  == "--help" :> <<"help", "">> @@ "--help=5" :> <<"help", "5">> @@ "--x" :> <<"x", "">>
MCShort == "-d" :> <<"d", "">> @@ "-d5" :> <<"d", "5">> @@ "-h" :> <<"h", "">>
           @@ "-hd" :> <<"h", "d">> @@ "-5" :> <<"5", "">> @@ "-x" :> <<"x", "">>
MCDash  == "d" :> "-d"

(* Short lines of everything, and longer ones of what makes up a command,   *)
(* the longest with a device to begin with.                                 *)
Short  == UNION {[1..n -> {"add", "find", "5", "--", "++", "w"} \cup DOMAIN MCLong \cup DOMAIN MCShort] : n \in 0..3}
Longer == UNION {[1..n -> {"add", "find", "w", "5", "--", "-d5"}] : n \in 4..5}
MCLines == Short \cup Longer \cup {<<"-d5">> \o l : l \in Longer}
=============================================================================
