------------------------------- MODULE Settings -------------------------------
(***************************************************************************)
(* The Settings portal.  The configuration is read once, when the daemon   *)
(* starts, and never changes afterwards, so every operation is a function  *)
(* of the file's lines.                                                    *)
(*                                                                         *)
(* A line is a record [key, value] or Noise (blank, comment, or without    *)
(* "=").  A number that does not parse is Bad; an accent colour is the     *)
(* sequence of its comma-separated parts, in units of 1 / One.  A name is  *)
(* a sequence of tokens, so that a prefix may end inside a section.        *)
(***************************************************************************)
EXTENDS Integers, Sequences, SequencesExt

CONSTANTS
  One,     \* 1.0
  Bad,     \* what does not parse, a file that cannot be read
  Unset    \* no accent colour

Appearance == <<"org", ".", "freedesktop", ".", "app", "earance">>
Noise == [key |-> "noise", value |-> Bad]
Numbers == {"color-scheme", "contrast", "reduced-motion"}
Keys == Numbers \cup {"accent-color"}

Lines ==
  [key : STRING \ {"accent-color"}, value : Nat \cup {Bad}]
  \cup [key : {"accent-color"}, value : Seq(Int \cup {Bad})]

-----------------------------------------------------------------------------
(* parse_config, load_config *)

Default == [k \in Keys |-> IF k = "accent-color" THEN Unset ELSE 0]

\* Three of the parts are numbers, from 0 to 1; parts that are none are skipped.
Accent(parts) ==
  LET rgb == SelectSeq(parts, LAMBDA p : p # Bad) IN
  IF Len(rgb) = 3 /\ \A i \in 1 .. 3 : rgb[i] \in 0 .. One
    THEN <<rgb[1], rgb[2], rgb[3]>> ELSE Unset

\* Mutant: a number that does not parse keeps the earlier one.
WithLineKeeping(config, line) ==
  IF line.key \in Numbers /\ line.value # Bad THEN [config EXCEPT ![line.key] = line.value]
  ELSE IF line.key = "accent-color" /\ Accent(line.value) # Unset
    THEN [config EXCEPT !["accent-color"] = Accent(line.value)]
  ELSE config

\* A later line replaces an earlier one; a bad number is 0, a bad colour nothing.
WithLine(config, line) ==
  IF line.key \in Numbers
    THEN [config EXCEPT ![line.key] = IF line.value = Bad THEN 0 ELSE line.value]
  ELSE IF line.key = "accent-color" /\ Accent(line.value) # Unset
    THEN [config EXCEPT !["accent-color"] = Accent(line.value)]
  ELSE config

ParseConfig(lines) == FoldLeft(WithLine, Default, lines)

\* The first of the candidate files that can be read, Bad if it cannot.
LoadConfig(files) ==
  LET readable == {i \in DOMAIN files : files[i] # Bad} IN
  IF readable = {} THEN Default ELSE ParseConfig(files[Min(readable)])

-----------------------------------------------------------------------------
(* Read, ReadAll *)

Fallback == <<10 * One, 10 * One, 10 * One>>

\* Mutant: an unset colour is black here.
AppearanceMapBlack(config) ==
  [config EXCEPT !["accent-color"] = IF @ = Unset THEN <<0, 0, 0>> ELSE @]

AppearanceMap(config) ==
  [config EXCEPT !["accent-color"] = IF @ = Unset THEN Fallback ELSE @]

\* No pattern, an empty one, the name itself, or a prefix followed by ".*"; the
\* prefix may end inside a section.
Matches(name, patterns) ==
  patterns = {} \/ \E p \in patterns :
    \/ p = <<>> \/ p = name
    \/ IsSuffix(<<".", "*">>, p) /\ IsPrefix(SubSeq(p, 1, Len(p) - 2), name)

\* The answer to ReadAll: per namespace its values.
ReadAll(config, patterns) ==
  [n \in {m \in {Appearance} : Matches(m, patterns)} |-> AppearanceMap(config)]

\* The answer to Read: one value, or none (an error) for an unknown namespace or key.
Read(config, namespace, key) ==
  IF namespace # Appearance \/ key \notin Keys THEN <<>>
  ELSE IF key = "accent-color" /\ config[key] = Unset THEN <<Fallback>> ELSE <<config[key]>>
================================================================================
