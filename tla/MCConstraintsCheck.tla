-------------------------- MODULE MCConstraintsCheck --------------------------
(***************************************************************************)
(* All chains of up to MaxStatements statements about two hosts of one     *)
(* domain, for ConstraintsCheck.                                           *)
(***************************************************************************)
EXTENDS ConstraintsCheck, TLC

CONSTANTS
  east, west,                   \* entities
  org, e, w,                    \* labels
  MaxStatements,                \* bound: length of a chain
  Permits, Excludes,            \* the lists a superior may have
  PathLengths                   \* the values of max_path_length

Hosts == east :> <<org, e>> @@ west :> <<org, w>>
Domain == <<org, Blank>>        \* .org
East == <<org, e>>
West == <<org, w>>

\* A list is absent, or one of these; the empty list is there to tell them apart.
SomePermits == {{Domain}, {East}}
SomeExcludes == {{}, {Domain}, {West}}

\* A signed number: below zero is what the loop refuses.
Negative == {-1}

Opt(field, values) == {<<>>} \cup {field :> v : v \in values}
Naming == {p @@ x : p \in Opt("permitted", Permits), x \in Opt("excluded", Excludes)}
SomeConstraints ==
  {m @@ n : m \in Opt("max_path_length", PathLengths), n \in Opt("naming_constraints", Naming)}
Superiors == {"sub" :> s @@ c : s \in Subjects, c \in Opt("constraints", SomeConstraints)}
Leaves == {"sub" :> s : s \in Subjects}

AllChains ==
  UNION {{Append(c, l) : c \in [1..n -> Superiors], l \in Leaves} : n \in 0..(MaxStatements - 1)}
=============================================================================
