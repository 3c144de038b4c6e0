---------------------------- MODULE MCTemplates ----------------------------
(* Six templates out of a handful of bodies: chains, cycles, calls in       *)
(* arguments and in defaults, references that are bound, defaulted or not.   *)
EXTENDS Templates

MCName == {"A", "B", "C", "D", "E", "F"}

One == Arg("1", <<Text("x")>>)

Plain == <<Text("p")>>

Bare == <<Ref("1", Nil)>>

Defaulted == <<Text("p"), Ref("1", <<Text("d")>>)>>

ByDefault == <<Ref("1", <<Call("C", <<One>>)>>)>>

Passes(n) == <<Call(n, <<Arg("1", <<Ref("1", <<Text("e")>>)>>)>>)>>

Nests(n, m) == <<Call(n, <<Arg("1", <<Call(m, <<One>>)>>)>>)>>

MCBodies ==
  {Plain, Bare, Defaulted, ByDefault, Passes("B"), Passes("C"),
   Nests("B", "C"), Nests("A", "A")}

MCPages ==
  {<<Ref("1", Nil), Call("A", <<One>>)>>,
   Nests("A", "B"),
   <<Call("A", <<Arg("1", <<Call("B", <<One>>), Ref("1", <<Text("f")>>)>>)>>), Call("C", <<One>>)>>}

Chosen(a, b, c) ==
  [n \in MCName |-> CASE n = "A" -> a [] n = "B" -> b [] n = "C" -> c [] OTHER -> Nil]

\* A chain by way of D, E and F as long as the walk.
Chained(a, b, c, last) ==
  [Chosen(a, b, c) EXCEPT !["D"] = Passes("E"), !["E"] = Passes("F"), !["F"] = Passes(last)]

\* What is called at the end of the chain is reached in the last pass.  It may
\* be expanded at a lesser depth: through a default, or because the template
\* that calls it was not there at first.
Short == <<Call("D", <<One>>), Ref("2", <<Call("C", <<One>>)>>)>>

Twice == <<Call("A", <<One>>), Call("B", <<One>>)>>

Once == <<Call("A", <<One>>)>>

\* Every call gives an argument, so no reference is left unbound.
MCPrograms ==
  [page : MCPages, store : {Chosen(a, b, c) : a, b, c \in MCBodies \cup {Nil}}]
    \cup {[page |-> Once, store |-> Chained(Short, Plain, Passes("B"), "C")],
          [page |-> Twice, store |-> Chained(Passes("D"), Nil, Plain, "B")],
          [page |-> Once, store |-> Chained(Passes("D"), Plain, Plain, "B")]}

\* A call that gives none.
Unbound == <<Call("A", <<>>)>>

MCUnbound == [page : {Unbound}, store : {Chosen(a, b, c) : a, b, c \in MCBodies}]

MCRewrites == {Plain, Passes("C")}

RECURSIVE Inside(_)
Inside(b) == {b} \cup UNION {Inside(c) : c \in ArgTexts(b) \cup Defaults(b)}

MCBody ==
  UNION {Inside(b) : b \in MCBodies \cup MCPages
    \cup {Short, Twice, Once, Unbound} \cup {Passes(n) : n \in {"D", "E", "F"}}}

RECURSIVE Height(_)
Height(b) == Max({0} \cup {1 + Height(c) : c \in ArgTexts(b)})

MCSize == [b \in MCBody |-> Height(b)]

=============================================================================
