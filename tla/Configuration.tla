---------------------------- MODULE Configuration ----------------------------
(***************************************************************************)
(* What config.Validate (pkg/config/config.go) requires of the components  *)
(* and services of a configuration, and its search for circular            *)
(* dependencies.  A configuration gives each name the list it depends on;  *)
(* the form of names, and the fields nothing else depends on, are left     *)
(* out: validateName and the required fields look at one entry at a time.  *)
(***************************************************************************)
EXTENDS Naturals, Sequences, FiniteSets, SequencesExt

\* depends: [the names configured -> the sequence of names in depends_on].  A name
\* that is not configured has no dependencies.
DependenciesOf(depends, n) == IF n \in DOMAIN depends THEN depends[n] ELSE <<>>

Known(depends) == \A n \in DOMAIN depends : ToSet(depends[n]) \subseteq DOMAIN depends

Names(depends) == DOMAIN depends \union UNION {ToSet(depends[n]) : n \in DOMAIN depends}
-----------------------------------------------------------------------------
(* checkCircularDependencies, one turn of a loop per step.  The calls of   *)
(* visit that have not returned are those for the names of path, gray.     *)

\* color: gray on the path, black behind it; at: how many of its dependencies the loop
\* in a name's visit has looked at; root: how many names the last loop has.
Begin(depends) ==
  [path |-> <<>>, color |-> [n \in Names(depends) |-> "white"],
   at |-> [n \in Names(depends) |-> 0], root |-> 0, cycle |-> FALSE]

\* The visit of the last name of the path looks at one more dependency, or returns.
Visit(depends, s) ==
  LET n    == Last(s.path)
      i    == s.at[n] + 1
      list == DependenciesOf(depends, n)
  IN  IF i > Len(list)
      THEN [path |-> Front(s.path), color |-> [s.color EXCEPT ![n] = "black"],
            at |-> s.at, root |-> s.root, cycle |-> FALSE]
      ELSE LET white == s.color[list[i]] = "white" IN
           [path  |-> IF white THEN Append(s.path, list[i]) ELSE s.path,
            color |-> IF white THEN [s.color EXCEPT ![list[i]] = "gray"] ELSE s.color,
            at    |-> [s.at EXCEPT ![n] = i],
            root  |-> s.root,
            cycle |-> s.color[list[i]] = "gray"]

\* The last loop visits its next name if that is still white.
Root(s, n) ==
  LET white == s.color[n] = "white" IN
  [path  |-> IF white THEN <<n>> ELSE <<>>,
   color |-> IF white THEN [s.color EXCEPT ![n] = "gray"] ELSE s.color,
   at    |-> s.at, root |-> s.root + 1, cycle |-> FALSE]

\* An error ends it, or the last loop, which ranges over a map: roots, in any order.
Search(depends, roots, s) ==
  IF s.cycle \/ (s.path = <<>> /\ s.root = Len(roots)) THEN s
  ELSE IF s.path = <<>> THEN Root(s, roots[s.root + 1]) ELSE Visit(depends, s)

\* A name is finished once, and looks at each of its dependencies once.
Turns(depends) == UNION {{n} \X (0 .. Len(DependenciesOf(depends, n))) : n \in Names(depends)}

Searched(depends, roots) ==
  LET step[n \in 0 .. Len(roots) + Cardinality(Turns(depends))] ==
        IF n = 0 THEN Begin(depends) ELSE Search(depends, roots, step[n - 1])
  IN  step

Circular(depends, roots) ==
  Searched(depends, roots)[Len(roots) + Cardinality(Turns(depends))].cycle

\* Validate, as far as dependencies go, with the order in which the map is ranged over.
Valid(depends, roots) == Known(depends) /\ ~Circular(depends, roots)
=============================================================================
