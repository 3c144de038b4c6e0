-------------------------- MODULE Templates_proofs --------------------------
(* The theorems about the rendering of templates.  First what the recursive  *)
(* definition of Scanned amounts to, whatever texts there are: induction     *)
(* over texts, as the least counterexample.  Then the walk, which reaches    *)
(* every template at some level; then the stack of the expansion; last, what *)
(* every call on the stack is meant to say.                                  *)
EXTENDS Templates, WellFoundedInduction, SequenceTheorems, TLAPS

-----------------------------------------------------------------------------
(* Texts.                                                                    *)

\* A set of numbers has a least one.
LEMMA Least ==
  ASSUME NEW T, T \subseteq Nat, T # {}
  PROVE  \E n \in T : \A m \in T : n <= m
  <1>1. PICK n \in T : \A m \in T : <<m, n>> \notin OpToRel(<, Nat)
    BY WFMin, NatLessThanWellFounded, Zenon
  <1>2. ASSUME NEW m \in T PROVE n <= m
    <2>1. ~(m < n)
      BY <1>1, Zenon DEF OpToRel
    <2>2. QED
      BY <2>1
  <1>3. QED
    BY <1>2

\* What is in a sequence of S is in S.
LEMMA Element ==
  ASSUME NEW S, NEW s \in Seq(S), NEW i \in DOMAIN s
  PROVE  s[i] \in S
  OBVIOUS

\* In what is written a call has a name and arguments, and a reference a
\* default or none.
LEMMA WrittenParts ==
  ASSUME NEW x \in Written
  PROVE  /\ x.t \in {"text", "ref", "call"}
         /\ x.t = "call" => x.name \in Name /\ x.args \in Seq([name : STRING, body : Body])
         /\ x.t = "ref" => x.default \in Body \cup {Nil}
  <1>1. CASE x \in [t : {"text"}, name : STRING]
    BY <1>1
  <1>2. CASE x \in [t : {"ref"}, name : STRING, default : Body \cup {Nil}]
    BY <1>2
  <1>3. CASE x \in [t : {"call"}, name : Name, args : Seq([name : STRING, body : Body])]
    BY <1>3
  <1>4. QED
    BY <1>1, <1>2, <1>3, Zenon DEF Written

\* The argument of a text is a text.
LEMMA ArgTextsAreTexts ==
  ASSUME NEW b \in Body
  PROVE  ArgTexts(b) \subseteq Body
  <1>1. ASSUME NEW x \in Calls(b), NEW i \in DOMAIN x.args
        PROVE  x.args[i].body \in Body
    <2>1. x \in Written /\ x.t = "call"
      BY TextsAssumption DEF Calls, ToSet
    <2>2. x.args \in Seq([name : STRING, body : Body])
      BY <2>1, WrittenParts
    <2>3. x.args[i] \in [name : STRING, body : Body]
      BY <2>2, Element, Zenon
    <2>4. QED
      BY <2>3
  <1>2. ASSUME NEW c \in ArgTexts(b) PROVE c \in Body
    <2>1. PICK x \in Calls(b) : \E a \in ToSet(x.args) : c = a.body
      BY Zenon DEF ArgTexts
    <2>2. PICK i \in DOMAIN x.args : c = x.args[i].body
      BY <2>1, Zenon DEF ToSet
    <2>3. QED
      BY <1>1, <2>1, <2>2
  <1>3. QED
    BY <1>2

Below(n) == {b \in Body : Size[b] < n}

\* The equation of Scanned for f at b.
ScansAt(f, b) == f[b] = {b} \cup UNION {f[c] : c \in ArgTexts(b)}

Scans(f, n) == DOMAIN f = Below(n) /\ \A b \in Below(n) : ScansAt(f, b)

\* ... and a shorter one.
LEMMA ArgTextsBelow ==
  ASSUME NEW n \in Nat, NEW b \in Below(n), NEW c \in ArgTexts(b)
  PROVE  /\ b \in Body /\ c \in Body /\ Size[b] \in Nat /\ Size[c] \in Nat
         /\ Size[c] < Size[b] /\ c \in Below(n)
  BY ArgTextsAreTexts, TextsAssumption DEF Below

\* There is only one solution of the equation, as far as it is defined.
LEMMA ScansOnce ==
  ASSUME NEW n \in Nat, NEW f, NEW g,
         \A b \in Below(n) : ScansAt(f, b), \A b \in Below(n) : ScansAt(g, b)
  PROVE  \A b \in Below(n) : f[b] = g[b]
  <1> DEFINE D == {b \in Below(n) : f[b] # g[b]}
             T == {Size[b] : b \in D}
  <1>1. SUFFICES ASSUME D # {} PROVE FALSE
    OBVIOUS
  <1>2. T \subseteq Nat /\ T # {}
    BY <1>1, TextsAssumption DEF Below
  <1>3. PICK m \in T : \A k \in T : m <= k
    BY <1>2, Least
  <1>4. PICK b \in D : m = Size[b]
    OBVIOUS
  <1>5. ASSUME NEW c \in ArgTexts(b) PROVE f[c] = g[c]
    <2>1. c \in Below(n) /\ Size[c] < Size[b] /\ Size[b] \in Nat /\ Size[c] \in Nat
      BY ArgTextsBelow
    <2>2. ASSUME c \in D PROVE FALSE
      <3>1. Size[c] \in T
        BY <2>2
      <3>2. QED
        BY <3>1, <1>3, <1>4, <2>1
    <2>3. QED
      BY <2>1, <2>2
  <1>6. {f[c] : c \in ArgTexts(b)} = {g[c] : c \in ArgTexts(b)}
    BY <1>5
  <1>7. f[b] = g[b]
    BY <1>6 DEF ScansAt
  <1>8. QED
    BY <1>7

\* There is one for every bound on the length of the texts.
LEMMA ScansSome ==
  \A n \in Nat : \E f : Scans(f, n)
  <1> DEFINE T == {n \in Nat : ~ \E f : Scans(f, n)}
  <1>1. SUFFICES ASSUME T # {} PROVE FALSE
    OBVIOUS
  <1>2. PICK n \in T : \A m \in T : n <= m
    BY <1>1, Least
  <1>3. CASE n = 0
    <2>1. Below(0) = {}
      BY TextsAssumption DEF Below
    <2>2. Scans([b \in {} |-> {}], 0)
      BY <2>1 DEF Scans
    <2>3. QED
      BY <1>3, <2>2
  <1>4. CASE n # 0
    <2>1. n - 1 \in Nat /\ ~(n <= n - 1)
      BY <1>4
    <2>2. PICK f : Scans(f, n - 1)
      BY <2>1, <1>2
    <2> DEFINE up(b) == {b} \cup UNION {f[c] : c \in ArgTexts(b)}
               g == [b \in Below(n) |-> up(b)]
    <2>3. ASSUME NEW b \in Below(n - 1) PROVE b \in Below(n) /\ f[b] = up(b)
      BY <2>2, TextsAssumption, <2>1 DEF Scans, ScansAt, Below
    <2>4. ASSUME NEW b \in Below(n) PROVE ScansAt(g, b)
      <3>1. ASSUME NEW c \in ArgTexts(b) PROVE g[c] = f[c]
        <4>1. Size[c] < Size[b] /\ Size[b] < n /\ c \in Body /\ Size[c] \in Nat /\ Size[b] \in Nat
          BY ArgTextsBelow DEF Below
        <4>2. c \in Below(n - 1)
          BY <4>1 DEF Below
        <4>3. QED
          BY <2>3, <4>2
      <3>2. {g[c] : c \in ArgTexts(b)} = {f[c] : c \in ArgTexts(b)}
        BY <3>1
      <3>3. g[b] = up(b)
        OBVIOUS
      <3>4. QED
        BY <3>2, <3>3, Zenon DEF ScansAt
    <2>5. Scans(g, n)
      BY <2>4 DEF Scans
    <2>6. QED
      BY <2>5
  <1>5. QED
    BY <1>3, <1>4

\* So the recursion of Scanned comes to an end on every text: the definition
\* is what it says.
LEMMA ScannedUnfolds ==
  \A b \in Body : ScansAt(Scanned, b)
  <1> DEFINE upto(b) == CHOOSE f : Scans(f, Size[b] + 1)
             F == [b \in Body |-> upto(b)[b]]
             E(f) == [b \in Body |-> {b} \cup UNION {f[c] : c \in ArgTexts(b)}]
  <1>1. ASSUME NEW b \in Body
        PROVE  Size[b] \in Nat /\ Size[b] + 1 \in Nat /\ b \in Below(Size[b] + 1)
               /\ Scans(upto(b), Size[b] + 1)
    <2>1. Size[b] \in Nat
      BY TextsAssumption
    <2>2. \E f : Scans(f, Size[b] + 1)
      BY <2>1, ScansSome
    <2>3. Scans(upto(b), Size[b] + 1)
      BY <2>2, Zenon
    <2>4. QED
      BY <2>1, <2>3 DEF Below
  <1> HIDE DEF upto
  <1>2. ASSUME NEW b \in Body, NEW c \in ArgTexts(b) PROVE F[c] = upto(b)[c]
    <2>1. c \in Body /\ Size[c] < Size[b] /\ c \in Below(Size[c] + 1)
      BY <1>1, ArgTextsBelow
    <2>2. Size[c] + 1 \in Nat /\ Below(Size[c] + 1) \subseteq Below(Size[b] + 1)
      BY <1>1, <2>1, TextsAssumption DEF Below
    <2>3. /\ \A a \in Below(Size[c] + 1) : ScansAt(upto(c), a)
          /\ \A a \in Below(Size[c] + 1) : ScansAt(upto(b), a)
      BY <1>1, <2>1, <2>2, Zenon DEF Scans
    <2>4. \A a \in Below(Size[c] + 1) : upto(c)[a] = upto(b)[a]
      <3>1. PICK n, f, g : n = Size[c] + 1 /\ f = upto(c) /\ g = upto(b)
        OBVIOUS
      <3>2. /\ n \in Nat
            /\ \A a \in Below(n) : ScansAt(f, a)
            /\ \A a \in Below(n) : ScansAt(g, a)
        BY <2>2, <2>3, <3>1, Zenon
      <3>3. \A a \in Below(n) : f[a] = g[a]
        BY <3>2, ScansOnce, Zenon
      <3>4. QED
        BY <3>1, <3>3, Zenon
    <2>5. QED
      BY <2>1, <2>4
  <1>3. ASSUME NEW b \in Body PROVE ScansAt(F, b)
    <2>1. {F[c] : c \in ArgTexts(b)} = {upto(b)[c] : c \in ArgTexts(b)}
      BY <1>2
    <2>2. upto(b)[b] = {b} \cup UNION {upto(b)[c] : c \in ArgTexts(b)}
      BY <1>1, Zenon DEF Scans, ScansAt
    <2>3. F[b] = upto(b)[b]
      OBVIOUS
    <2>4. QED
      BY <2>1, <2>2, <2>3, Zenon DEF ScansAt
  <1> HIDE DEF F
  <1>4. F = E(F)
    <2>1. DOMAIN F = Body /\ F = [b \in Body |-> F[b]]
      BY DEF F
    <2>2. QED
      BY <1>3, <2>1 DEF ScansAt
  <1>5. Scanned = CHOOSE f : f = E(f)
    BY Zenon DEF Scanned
  <1> HIDE DEF E
  <1>6. Scanned = E(Scanned)
    BY <1>4, <1>5, Zenon
  <1>7. QED
    BY <1>6 DEF ScansAt, E

\* The scan stays inside texts, by induction over their length.
LEMMA ScannedAreTexts ==
  \A b \in Body : Scanned[b] \subseteq Body
  <1> DEFINE D == {b \in Body : ~(Scanned[b] \subseteq Body)}
             T == {Size[b] : b \in D}
  <1>1. SUFFICES ASSUME D # {} PROVE FALSE
    OBVIOUS
  <1>2. T \subseteq Nat /\ T # {}
    BY <1>1, TextsAssumption
  <1>3. PICK m \in T : \A k \in T : m <= k
    BY <1>2, Least
  <1>4. PICK b \in D : m = Size[b]
    OBVIOUS
  <1>5. ASSUME NEW c \in ArgTexts(b) PROVE Scanned[c] \subseteq Body
    <2>1. c \in Body /\ Size[c] < Size[b] /\ Size[b] \in Nat /\ Size[c] \in Nat
      BY ArgTextsAreTexts, TextsAssumption
    <2>2. ASSUME c \in D PROVE FALSE
      <3>1. Size[c] \in T
        BY <2>2
      <3>2. QED
        BY <3>1, <1>3, <1>4, <2>1
    <2>3. QED
      BY <2>1, <2>2
  <1>6. Scanned[b] = {b} \cup UNION {Scanned[c] : c \in ArgTexts(b)}
    BY ScannedUnfolds DEF ScansAt
  <1>7. QED
    BY <1>5, <1>6

LEMMA ScannedWithin ==
  ASSUME NEW b \in Body
  PROVE  /\ b \in Scanned[b]
         /\ \A c \in ArgTexts(b) : Scanned[c] \subseteq Scanned[b]
  <1>1. Scanned[b] = {b} \cup UNION {Scanned[c] : c \in ArgTexts(b)}
    BY ScannedUnfolds DEF ScansAt
  <1>2. QED
    BY <1>1

LEMMA DefaultsAreTexts ==
  ASSUME NEW b \in Body
  PROVE  Defaults(b) \subseteq Body
  <1>1. ASSUME NEW x \in Refs(b) PROVE x.default \in Body \cup {Nil}
    <2>1. x \in Written /\ x.t = "ref"
      BY TextsAssumption DEF Refs, ToSet
    <2>2. QED
      BY <2>1, WrittenParts
  <1>2. QED
    BY <1>1 DEF Defaults

LEMMA CallsAreNames ==
  ASSUME NEW b \in Body
  PROVE  /\ Called(b) \subseteq Name
         /\ CalledByDefault(b) \subseteq Name
  <1>1. ASSUME NEW c \in Body PROVE Called(c) \subseteq Name
    <2>1. ASSUME NEW d \in Scanned[c], NEW x \in Calls(d) PROVE x.name \in Name
      <3>1. d \in Body
        BY ScannedAreTexts
      <3>2. x \in Written /\ x.t = "call"
        BY <3>1, TextsAssumption DEF Calls, ToSet
      <3>3. QED
        BY <3>2, WrittenParts
    <2>2. QED
      BY <2>1, Zenon DEF Called
  <1>2. ASSUME NEW c \in Scanned[b], NEW d \in Defaults(c) PROVE Called(d) \subseteq Name
    BY <1>1, ScannedAreTexts, DefaultsAreTexts
  <1>3. CalledByDefault(b) \subseteq Name
    BY <1>2, Zenon DEF CalledByDefault
  <1>4. QED
    BY <1>1, <1>3

\* Inside a default nothing is called by default.
LEMMA NoDefaultInDefault ==
  ASSUME NEW b \in Body, NEW d \in Defaults(b)
  PROVE  d \in Body /\ CalledByDefault(d) = {}
  <1>1. d \in Body
    BY DefaultsAreTexts
  <1>2. \A c \in Scanned[d] : Defaults(c) = {}
    BY DefaultsAssumption DEF Defaults
  <1>3. QED
    BY <1>1, <1>2 DEF CalledByDefault

\* What is called in a part, and what in the defaults of its references.
PartCalls(x) ==
  IF x.t = "call" THEN {x.name} \cup UNION {Called(a.body) : a \in ToSet(x.args)}
  ELSE {}

PartDefaults(x) ==
  CASE x.t = "ref" -> IF x.default = Nil THEN {}
                    ELSE Called(x.default) \cup CalledByDefault(x.default)
    [] x.t = "call" -> UNION {CalledByDefault(a.body) : a \in ToSet(x.args)}
    [] OTHER -> {}

\* What an argument calls, the text that gives it calls.
LEMMA CalledWithin ==
  ASSUME NEW b \in Body, NEW c \in ArgTexts(b)
  PROVE  Called(c) \subseteq Called(b) /\ CalledByDefault(c) \subseteq CalledByDefault(b)
  <1>1. Scanned[c] \subseteq Scanned[b]
    BY ScannedWithin
  <1>2. QED
    BY <1>1, Zenon DEF Called, CalledByDefault

\* A part of a text calls no more than the text.
LEMMA PartsOfText ==
  ASSUME NEW b \in Body, NEW x \in ToSet(b)
  PROVE  /\ x \in Written
         /\ PartCalls(x) \subseteq Called(b)
         /\ PartDefaults(x) \subseteq CalledByDefault(b)
  <1>1. x \in Written
    BY TextsAssumption DEF ToSet
  <1>2. x.t \in {"text", "ref", "call"}
    BY <1>1, WrittenParts
  <1>3. b \in Scanned[b]
    BY ScannedWithin
  <1>4. CASE x.t = "call"
    <2>1. x \in Calls(b)
      BY <1>4 DEF Calls
    <2>2. \A a \in ToSet(x.args) : a.body \in ArgTexts(b)
      BY <2>1, Zenon DEF ArgTexts
    <2>3. x.name \in Called(b)
      BY <2>1, <1>3, Zenon DEF Called
    <2>4. PartCalls(x) \subseteq Called(b)
      BY <1>4, <2>2, <2>3, CalledWithin, Zenon DEF PartCalls
    <2>5. PartDefaults(x) = UNION {CalledByDefault(a.body) : a \in ToSet(x.args)}
      BY <1>4 DEF PartDefaults
    <2>6. PartDefaults(x) \subseteq CalledByDefault(b)
      BY <2>2, <2>5, CalledWithin, Zenon
    <2>7. QED
      BY <1>1, <2>4, <2>6
  <1>5. CASE x.t = "ref"
    <2>1. x \in Refs(b)
      BY <1>5 DEF Refs
    <2>2. x.default # Nil => x.default \in Defaults(b)
      BY <2>1 DEF Defaults
    <2>3. x.default # Nil => Called(x.default) \subseteq CalledByDefault(b)
      BY <2>2, <1>3, Zenon DEF CalledByDefault
    <2>4. x.default # Nil => CalledByDefault(x.default) = {}
      BY <2>2, NoDefaultInDefault
    <2>5. PartDefaults(x) = IF x.default = Nil THEN {}
                            ELSE Called(x.default) \cup CalledByDefault(x.default)
      BY <1>5 DEF PartDefaults
    <2>6. QED
      BY <1>1, <1>5, <2>3, <2>4, <2>5 DEF PartCalls
  <1>6. CASE x.t = "text"
    BY <1>1, <1>6 DEF PartCalls, PartDefaults
  <1>7. QED
    BY <1>2, <1>4, <1>5, <1>6

-----------------------------------------------------------------------------
(* The inductive invariant.                                                  *)

\* What the walk may have fetched.
Fetchable == [Name -> Body \cup {Nil}]

WalkTypes ==
  /\ page \in Body
  /\ store \in [Name -> Body \cup {Nil}] /\ sources \in [Name -> Body \cup {Nil}]
  /\ rewritten \in Name \cup {Nil}
  /\ wanted \subseteq Name /\ later \subseteq Name
  /\ passes \in 0 .. MaxDepth + 1

\* Nothing is deleted, and a pass that is over leaves nothing for the next.
WalkShape ==
  /\ \A n \in Name : store[n] = Nil => sources[n] = Nil
  /\ wanted = {} => later = {}
  /\ frames # <<>> => ~PassLeft

\* What has become of a call n in a text of level d: its template was fetched,
\* in time if it was there from the start, or was not there, or is waited for.
Accounted(lev, n, d) ==
  \/ sources[n] # Nil /\ lev[n] <= d + 1
  \/ store[n] = Nil
  \/ rewritten = n
  \/ n \in wanted /\ passes <= d
  \/ n \in later /\ passes < d

\* lev is the level at which the walk came to a template: one more than the
\* passes before it.
Levels(lev) ==
  /\ lev \in [Name -> 0 .. MaxDepth + 1]
  /\ \A n \in Name : sources[n] # Nil => lev[n] <= passes + 1
  /\ \A n \in Called(page) : Accounted(lev, n, 0)
  /\ \A m \in Name : sources[m] # Nil =>
       \A n \in Called(sources[m]) : Accounted(lev, n, lev[m])

FrameType ==
  [kind : {"page", "arg", "param", "body"}, name : Name \cup {Nil}, given : Seq(AnyPart),
   body : Seq(AnyPart), args : Seq(Binding), depth : 0 .. MaxDepth, bound : Seq(Binding),
   out : Seq(AnyPart)]

\* The frame below that of an argument is at the call that gives it, which was
\* found neither cyclic nor too deep.
Waits(fs, i, src) ==
  LET f == fs[i]
      c == Head(f.body)
  IN /\ f.body # <<>> /\ c.t = "call"
     /\ Len(f.bound) < Len(c.args)
     /\ src[c.name] # Nil
     /\ f.depth + 1 <= MaxDepth
     /\ \A k \in 1 .. i : fs[k].name # c.name

Stack(fs, src) ==
  /\ fs \in Seq(FrameType)
  /\ \A i \in 1 .. Len(fs) :
       /\ fs[i].kind = "page" <=> i = 1
       /\ fs[i].kind = "body" <=> fs[i].name \in Name
       /\ fs[i].kind = "arg" => Waits(fs, i - 1, src)
  /\ \A i, j \in 1 .. Len(fs) : fs[i].name \in Name /\ fs[i].name = fs[j].name => i = j

\* What the walk has seen, for the expansion: the calls that a text at a depth
\* may hold, those that were passed over, and the templates of which "not
\* found" may be said.
Seen(lev) ==
  [known |-> [d \in 0 .. MaxDepth |->
                PassedOver \cup Called(page) \cup
                  UNION {Called(sources[m]) : m \in {n \in Name : sources[n] # Nil /\ lev[n] <= d}}],
   over |-> PassedOver,
   absent |-> {n \in Name : store[n] = Nil} \cup PassedOver]

PartKnown(x, d, w) ==
  /\ PartCalls(x) \subseteq w.known[d]
  /\ PartDefaults(x) \subseteq w.over
  /\ x.t = "not found" => x.name \in w.absent

TextKnown(s, d, w) == \A i \in 1 .. Len(s) : PartKnown(s[i], d, w)

\* A text that has been put out: nothing is called in it any more.
OutKnown(s, w) == \A i \in 1 .. Len(s) : s[i].t # "call" /\ PartKnown(s[i], 0, w)

ArgsKnown(args, w) == \A i \in 1 .. Len(args) : OutKnown(args[i].value, w)

FrameKnown(f, w) ==
  /\ TextKnown(f.body, f.depth, w)
  /\ ArgsKnown(f.args, w) /\ ArgsKnown(f.bound, w)
  /\ OutKnown(f.out, w)

AllKnown(fs, w) == \A i \in 1 .. Len(fs) : FrameKnown(fs[i], w)

ResultTrue(r, absent) ==
  r \in {Nil, Failure} \/ \A x \in ToSet(r) : x.t = "not found" => x.name \in absent

\* What is known of the expansion, as the walk has seen it.
Told(lev) ==
  /\ Levels(lev)
  /\ AllKnown(frames, Seen(lev))
  /\ ResultTrue(result, Seen(lev).absent)

IInv ==
  /\ WalkTypes /\ WalkShape /\ Stack(frames, sources)
  /\ \E lev \in [Name -> 0 .. MaxDepth + 1] : Told(lev)

-----------------------------------------------------------------------------
(* The walk.                                                                 *)

\* What is passed over is closed under what makes it grow.
LEMMA PassedOverClosed ==
  ASSUME WalkTypes
  PROVE  PassedOver \subseteq Name /\ ClosedOver(PassedOver)
  <1>1. Bodies \subseteq Body
    BY DEF WalkTypes, Bodies
  <1>2. \A b \in Bodies : CalledByDefault(b) \subseteq PassedOver
    <2>1. SUFFICES ASSUME NEW b \in Bodies, NEW n \in CalledByDefault(b)
                   PROVE  n \in PassedOver
      OBVIOUS
    <2>2. n \in Name
      BY <1>1, CallsAreNames
    <2>3. \A S \in SUBSET Name : ClosedOver(S) => n \in S
      BY Zenon DEF ClosedOver
    <2>4. QED
      BY <2>2, <2>3, Zenon DEF PassedOver
  <1>3. rewritten \in PassedOver \cup {Nil}
    <2>1. SUFFICES ASSUME rewritten # Nil PROVE rewritten \in PassedOver
      BY Zenon
    <2>2. rewritten \in Name
      BY <2>1 DEF WalkTypes
    <2>3. \A S \in SUBSET Name : ClosedOver(S) => rewritten \in S
      BY <2>1 DEF ClosedOver
    <2>4. QED
      BY <2>2, <2>3, Zenon DEF PassedOver
  <1>4. \A n \in PassedOver : sources[n] # Nil => Called(sources[n]) \subseteq PassedOver
    <2>1. SUFFICES ASSUME NEW n \in PassedOver, sources[n] # Nil, NEW k \in Called(sources[n])
                   PROVE  k \in PassedOver
      OBVIOUS
    <2>2. n \in Name /\ \A S \in SUBSET Name : ClosedOver(S) => n \in S
      BY Zenon DEF PassedOver
    <2>3. k \in Name
      <3>1. sources[n] \in Body
        BY <2>1, <2>2 DEF WalkTypes
      <3>2. QED
        BY <3>1, CallsAreNames
    <2>4. \A S \in SUBSET Name : ClosedOver(S) => k \in S
      BY <2>1, <2>2, Zenon DEF ClosedOver
    <2>5. QED
      BY <2>3, <2>4, Zenon DEF PassedOver
  <1>5. QED
    BY <1>2, <1>3, <1>4, Zenon DEF ClosedOver, PassedOver

\* The first texts.
LEMMA InitWalk ==
  ASSUME Init
  PROVE  /\ WalkTypes /\ WalkShape
         /\ Levels([n \in Name |-> 0])
  <1>1. PICK p \in Programs : page = p.page /\ store = p.store
    BY DEF Init
  <1>2. page \in Body /\ store \in [Name -> Body \cup {Nil}]
    BY <1>1, ConstantsAssumption
  <1>3. Called(page) \subseteq Name
    BY <1>2, CallsAreNames
  <1>4. sources = [n \in Name |-> Nil] /\ wanted = Called(page) /\ later = {} /\ passes = 0
        /\ rewritten = Nil /\ frames = <<>>
    BY DEF Init
  <1>5. 0 \in 0 .. MaxDepth + 1
    BY ConstantsAssumption
  <1>6. WalkTypes
    BY <1>2, <1>3, <1>4, <1>5 DEF WalkTypes
  <1>7. WalkShape
    BY <1>4 DEF WalkShape
  <1>8. \A n \in Called(page) : Accounted([m \in Name |-> 0], n, 0)
    BY <1>4 DEF Accounted
  <1>9. Levels([n \in Name |-> 0])
    BY <1>4, <1>5, <1>8 DEF Levels
  <1>10. QED
    BY <1>6, <1>7, <1>9

\* What one lookup changes, by cases.
Fetched(n) ==
  /\ n \in wanted /\ passes <= MaxDepth
  /\ \/ sources[n] = Nil /\ store[n] # Nil /\ sources' = [sources EXCEPT ![n] = store[n]]
     \/ (sources[n] # Nil \/ store[n] = Nil) /\ sources' = sources

LEMMA FetchTypes ==
  ASSUME WalkTypes, WalkShape, NEW n \in Name, Fetch(n)
  PROVE  WalkTypes' /\ WalkShape' /\ Fetched(n) /\ page' = page /\ store' = store
         /\ rewritten' = rewritten /\ frames' = <<>> /\ result' = Nil
  <1> DEFINE fresh == sources[n] = Nil /\ store[n] # Nil
             more == IF fresh THEN later \cup {c \in Called(store[n]) : sources[c] = Nil} ELSE later
             over == wanted = {n}
  <1>1. /\ frames = <<>> /\ result = Nil /\ n \in wanted /\ passes <= MaxDepth
        /\ sources' = IF fresh THEN [sources EXCEPT ![n] = store[n]] ELSE sources
        /\ wanted' = IF over THEN more ELSE wanted \ {n}
        /\ later' = IF over THEN {} ELSE more
        /\ passes' = IF over THEN passes + 1 ELSE passes
        /\ UNCHANGED <<page, store, rewritten, frames, result>>
    BY DEF Fetch, Walking, PassLeft
  <1>2. fresh => store[n] \in Body
    BY DEF WalkTypes
  <1>3. more \subseteq Name
    BY <1>2, CallsAreNames DEF WalkTypes
  <1>4. sources' \in [Name -> Body \cup {Nil}]
    BY <1>1, <1>2 DEF WalkTypes
  <1>5. passes' \in 0 .. MaxDepth + 1
    BY <1>1, ConstantsAssumption DEF WalkTypes
  <1> HIDE DEF more
  <1>6. WalkTypes'
    BY <1>1, <1>3, <1>4, <1>5 DEF WalkTypes
  <1>7. \A m \in Name : store'[m] = Nil => sources'[m] = Nil
    BY <1>1 DEF WalkShape, WalkTypes
  <1>8. wanted' = {} => later' = {}
    BY <1>1
  <1>9. WalkShape'
    BY <1>1, <1>7, <1>8 DEF WalkShape
  <1>10. Fetched(n)
    BY <1>1 DEF Fetched
  <1>11. QED
    BY <1>1, <1>6, <1>9, <1>10

\* A call that is accounted for stays so: fetched in this pass, its template is
\* at the level after it.
LEMMA FetchAccounts ==
  ASSUME WalkTypes, WalkShape, NEW n \in Name, Fetch(n), NEW lev, Levels(lev),
         NEW lev2, NEW k \in Name, NEW d \in 0 .. MaxDepth + 1, Accounted(lev, k, d),
         lev2 = IF sources[n] = Nil /\ store[n] # Nil
                THEN [lev EXCEPT ![n] = passes + 1] ELSE lev
  PROVE  Accounted(lev2, k, d)'
  <1>1. /\ n \in wanted
        /\ wanted # {n} => wanted' = wanted \ {n} /\ later \subseteq later' /\ passes' = passes
        /\ wanted = {n} => later \subseteq wanted' /\ passes' = passes + 1
        /\ store' = store /\ rewritten' = rewritten
    BY DEF Fetch
  <1>2. passes \in Nat /\ d \in Nat /\ lev[k] \in Nat
    BY ConstantsAssumption DEF WalkTypes, Levels
  <1>3. CASE store[k] = Nil \/ rewritten = k
    BY <1>1, <1>3 DEF Accounted
  <1>4. CASE k = n /\ ~(store[k] = Nil \/ rewritten = k)
    <2>1. sources'[n] # Nil
      BY <1>4 DEF Fetch, WalkTypes
    <2>2. lev2[n] <= d + 1
      <3>1. CASE sources[n] = Nil
        <4>1. lev2[n] = passes + 1
          BY <1>4, <3>1 DEF Levels
        <4>2. passes <= d
          BY <1>2, <1>4, <3>1 DEF Accounted
        <4>3. QED
          BY <4>1, <4>2, <1>2
      <3>2. CASE sources[n] # Nil
        <4>1. lev2[n] = lev[n] /\ lev[n] <= passes + 1
          BY <3>2 DEF Levels
        <4>2. lev[n] <= d + 1 \/ passes <= d
          BY <1>2, <1>4 DEF Accounted
        <4>3. QED
          BY <4>1, <4>2, <1>2, <1>4
      <3>3. QED
        BY <3>1, <3>2
    <2>3. QED
      BY <1>4, <2>1, <2>2 DEF Accounted
  <1>5. CASE k # n /\ ~(store[k] = Nil \/ rewritten = k)
    <2>1. sources'[k] = sources[k]
      BY <1>5 DEF Fetch, WalkTypes
    <2>2. lev2[k] = lev[k]
      BY <1>5 DEF Levels
    <2>3. CASE sources[k] # Nil /\ lev[k] <= d + 1
      BY <2>1, <2>2, <2>3 DEF Accounted
    <2>4. CASE k \in wanted /\ passes <= d
      <3>1. wanted # {n} /\ k \in wanted' /\ passes' = passes
        BY <1>1, <1>5, <2>4
      <3>2. QED
        BY <2>4, <3>1 DEF Accounted
    <2>5. CASE k \in later /\ passes < d
      <3>1. \/ k \in later' /\ passes' < d
            \/ k \in wanted' /\ passes' <= d
        BY <1>1, <1>2, <2>5
      <3>2. QED
        BY <3>1 DEF Accounted
    <2>6. QED
      BY <1>5, <2>3, <2>4, <2>5 DEF Accounted
  <1>6. QED
    BY <1>3, <1>4, <1>5

\* The calls of a text that is fetched are accounted for one level down.
LEMMA FetchedAccounts ==
  ASSUME WalkTypes, WalkShape, NEW n \in Name, Fetch(n), NEW lev, Levels(lev),
         sources[n] = Nil, store[n] # Nil,
         NEW lev2, lev2 = [lev EXCEPT ![n] = passes + 1], NEW k \in Called(store[n]),
         NEW d, d = passes + 1
  PROVE  Accounted(lev2, k, d)'
  <1>1. passes \in Nat /\ store[n] \in Body /\ k \in Name
    BY CallsAreNames DEF WalkTypes
  <1>2. CASE sources[k] = Nil
    <2>1. k \in later \cup {c \in Called(store[n]) : sources[c] = Nil}
      BY <1>2
    <2>2. \/ k \in later' /\ passes' = passes
          \/ k \in wanted' /\ passes' = passes + 1
      BY <2>1 DEF Fetch
    <2>3. QED
      BY <1>1, <2>2 DEF Accounted
  <1>3. CASE sources[k] # Nil
    <2>1. k # n
      BY <1>3
    <2>2. lev2[k] = lev[k] /\ lev[k] <= passes + 1 /\ lev[k] \in Nat
      BY <1>1, <1>3, <2>1 DEF Levels
    <2>3. sources'[k] = sources[k]
      BY <1>1, <2>1 DEF Fetch, WalkTypes
    <2>4. QED
      BY <1>1, <1>3, <2>2, <2>3 DEF Accounted
  <1>4. QED
    BY <1>2, <1>3

\* A template that is fetched now is one level below the last.
LEMMA FetchLevels ==
  ASSUME WalkTypes, WalkShape, NEW n \in Name, Fetch(n), NEW lev, Levels(lev),
         NEW lev2,
         lev2 = IF sources[n] = Nil /\ store[n] # Nil
                THEN [lev EXCEPT ![n] = passes + 1] ELSE lev
  PROVE  Levels(lev2)'
  <1>1. /\ page' = page /\ store' = store
        /\ passes' \in {passes, passes + 1} /\ passes <= MaxDepth /\ passes \in Nat
        /\ sources' = IF sources[n] = Nil /\ store[n] # Nil
                      THEN [sources EXCEPT ![n] = store[n]] ELSE sources
    BY ConstantsAssumption DEF Fetch, WalkTypes, PassLeft
  <1>2. lev \in [Name -> 0 .. MaxDepth + 1] /\ passes + 1 \in 0 .. MaxDepth + 1
    BY <1>1, ConstantsAssumption DEF Levels
  <1>3. lev2 \in [Name -> 0 .. MaxDepth + 1]
    BY <1>2
  <1>4. ASSUME NEW m \in Name, sources'[m] # Nil PROVE lev2[m] <= passes' + 1
    <2>1. CASE m = n /\ sources[n] = Nil /\ store[n] # Nil
      <3>1. lev2[m] = passes + 1
        BY <1>2, <2>1
      <3>2. QED
        BY <1>1, <3>1
    <2>2. CASE ~(m = n /\ sources[n] = Nil /\ store[n] # Nil)
      <3>1. sources'[m] = sources[m] /\ lev2[m] = lev[m]
        BY <1>1, <1>2, <2>2 DEF WalkTypes
      <3>2. lev[m] <= passes + 1 /\ lev[m] \in Nat
        BY <1>2, <1>4, <3>1 DEF Levels
      <3>3. QED
        BY <1>1, <3>1, <3>2
    <2>3. QED
      BY <2>1, <2>2
  <1>5. ASSUME NEW k \in Called(page) PROVE Accounted(lev2, k, 0)'
    <2>1. k \in Name /\ 0 \in 0 .. MaxDepth + 1 /\ Accounted(lev, k, 0)
      BY CallsAreNames, ConstantsAssumption DEF WalkTypes, Levels
    <2>2. QED
      BY <2>1, FetchAccounts
  <1>6. ASSUME NEW m \in Name, sources'[m] # Nil, NEW k \in Called(sources'[m])
        PROVE  Accounted(lev2, k, lev2[m])'
    <2>1. CASE m = n /\ sources[n] = Nil /\ store[n] # Nil
      <3>1. sources'[m] = store[n] /\ lev2[m] = passes + 1
        BY <1>1, <1>2, <2>1 DEF WalkTypes
      <3>2. k \in Called(store[n])
        BY <1>6, <3>1, Zenon
      <3>3. Accounted(lev2, k, lev2[m])'
        BY <2>1, <3>1, <3>2, FetchedAccounts
      <3>4. QED
        BY <3>3
    <2>2. CASE ~(m = n /\ sources[n] = Nil /\ store[n] # Nil)
      <3>1. sources'[m] = sources[m] /\ lev2[m] = lev[m]
        BY <1>1, <1>2, <2>2 DEF WalkTypes
      <3>2. k \in Called(sources[m]) /\ sources[m] # Nil
        BY <1>6, <3>1, Zenon
      <3>3. k \in Name
        BY <3>2, CallsAreNames DEF WalkTypes
      <3>4. PICK d \in 0 .. MaxDepth + 1 : d = lev[m]
        BY <1>2
      <3>5. Accounted(lev, k, lev[m])
        BY <3>2, Zenon DEF Levels
      <3>6. Accounted(lev, k, d)
        BY <3>4, <3>5, Zenon
      <3>7. Accounted(lev2, k, d)'
        BY <3>3, <3>6, FetchAccounts
      <3>8. QED
        BY <3>1, <3>4, <3>7 DEF Accounted
    <2>3. QED
      BY <2>1, <2>2
  <1>7. \A k \in Called(page') : Accounted(lev2, k, 0)'
    BY <1>1, <1>5, Zenon
  <1>8. QED
    BY <1>3, <1>4, <1>6, <1>7 DEF Levels

\* A template that another request stores is accounted for as rewritten.
LEMMA RewriteWalk ==
  ASSUME WalkTypes, WalkShape, NEW n \in Name, Rewrite(n), NEW lev, Levels(lev)
  PROVE  WalkTypes' /\ WalkShape' /\ Levels(lev)' /\ frames' = <<>> /\ result' = Nil
  <1>1. PICK b \in Rewrites : store' = [store EXCEPT ![n] = b]
    BY DEF Rewrite
  <1>2. b \in Body /\ b # Nil
    BY ConstantsAssumption
  <1>3. /\ frames = <<>> /\ result = Nil /\ rewritten = Nil /\ rewritten' = n
        /\ page' = page /\ frames' = frames /\ result' = result
        /\ wanted' = wanted /\ later' = later /\ passes' = passes /\ sources' = sources
    BY DEF Rewrite, Walking, walk
  <1>4. WalkTypes'
    BY <1>1, <1>2, <1>3 DEF WalkTypes
  <1>5. WalkShape'
    BY <1>1, <1>2, <1>3 DEF WalkShape, WalkTypes
  <1>6. ASSUME NEW k \in Name, NEW d, Accounted(lev, k, d) PROVE Accounted(lev, k, d)'
    <2>1. k = n \/ store'[k] = store[k]
      BY <1>1 DEF WalkTypes
    <2>2. rewritten # k
      BY <1>3, ConstantsAssumption
    <2>3. QED
      BY <1>3, <1>6, <2>1, <2>2 DEF Accounted
  <1>7. \A k \in Called(page') : Accounted(lev, k, 0)'
    <2>1. ASSUME NEW k \in Called(page) PROVE Accounted(lev, k, 0)'
      BY <1>6, CallsAreNames DEF Levels, WalkTypes
    <2>2. QED
      BY <2>1, <1>3, Zenon
  <1>8. ASSUME NEW m \in Name, sources'[m] # Nil, NEW k \in Called(sources'[m])
        PROVE  Accounted(lev, k, lev[m])'
    <2>1. k \in Called(sources[m]) /\ sources[m] # Nil
      BY <1>3, <1>8, Zenon
    <2>2. k \in Name
      BY <2>1, CallsAreNames DEF WalkTypes
    <2>3. Accounted(lev, k, lev[m])
      BY <2>1, Zenon DEF Levels
    <2>4. QED
      BY <1>6, <2>2, <2>3
  <1>9. \A m \in Name : sources'[m] # Nil => lev[m] <= passes' + 1
    BY <1>3 DEF Levels
  <1>10. lev \in [Name -> 0 .. MaxDepth + 1]
    BY DEF Levels
  <1>11. Levels(lev)'
    BY <1>7, <1>8, <1>9, <1>10 DEF Levels
  <1>12. QED
    BY <1>3, <1>4, <1>5, <1>11

-----------------------------------------------------------------------------
(* What the expansion may rely on, once the walk is over.                    *)

WalkSays(w) ==
  /\ w.over \subseteq w.absent
  /\ Called(page) \subseteq w.known[0] /\ CalledByDefault(page) \subseteq w.over
  /\ \A d \in 0 .. MaxDepth : w.over \subseteq w.known[d] /\ w.known[d] \subseteq Name
  /\ \A d \in 0 .. MaxDepth : d + 1 <= MaxDepth => w.known[d] \subseteq w.known[d + 1]
  /\ \A d \in 0 .. MaxDepth : \A n \in w.known[d] :
       /\ sources[n] = Nil => n \in w.absent
       /\ sources[n] # Nil /\ d + 1 <= MaxDepth => Called(sources[n]) \subseteq w.known[d + 1]
  /\ \A n \in Name : sources[n] # Nil => CalledByDefault(sources[n]) \subseteq w.over

\* The calls that a text at depth d may hold.
KnownAt(lev, d) ==
  PassedOver \cup Called(page) \cup
    UNION {Called(sources[m]) : m \in {n \in Name : sources[n] # Nil /\ lev[n] <= d}}

LEMMA SeenIs ==
  ASSUME NEW lev
  PROVE  /\ \A d \in 0 .. MaxDepth : Seen(lev).known[d] = KnownAt(lev, d)
         /\ Seen(lev).over = PassedOver
         /\ Seen(lev).absent = {n \in Name : store[n] = Nil} \cup PassedOver
  BY DEF Seen, KnownAt

\* Once the walk is over, a call in a text of a level within the limit has been
\* settled: nothing that is still waited for is called there.
LEMMA SettledCalls ==
  ASSUME WalkTypes, WalkShape, ~PassLeft, NEW lev, Levels(lev),
         NEW n \in Name, NEW d \in 0 .. MaxDepth, Accounted(lev, n, d), n \notin PassedOver
  PROVE  \/ sources[n] # Nil /\ lev[n] <= d + 1
         \/ store[n] = Nil
  <1>1. rewritten # n
    BY PassedOverClosed, ConstantsAssumption DEF ClosedOver
  <1>2. passes \in Nat /\ MaxDepth \in Nat /\ d \in Nat /\ d <= MaxDepth
    BY ConstantsAssumption DEF WalkTypes
  <1>3. wanted = {} \/ passes > MaxDepth
    BY <1>2 DEF PassLeft
  <1>4. ~(n \in wanted /\ passes <= d)
    BY <1>2, <1>3
  <1>5. ~(n \in later /\ passes < d)
    BY <1>2, <1>3 DEF WalkShape
  <1>6. QED
    BY <1>1, <1>4, <1>5 DEF Accounted

\* What is called in a template known at a depth is known one deeper.
LEMMA KnownCalls ==
  ASSUME WalkTypes, WalkShape, ~PassLeft, NEW lev, Levels(lev),
         NEW d \in 0 .. MaxDepth, NEW n \in KnownAt(lev, d)
  PROVE  /\ n \in Name
         /\ sources[n] = Nil => store[n] = Nil \/ n \in PassedOver
         /\ sources[n] # Nil => Called(sources[n]) \subseteq KnownAt(lev, d + 1)
  <1>1. d \in Nat /\ 0 \in 0 .. MaxDepth /\ lev \in [Name -> 0 .. MaxDepth + 1] /\ MaxDepth \in Nat
    BY ConstantsAssumption DEF Levels
  <1>2. CASE n \in PassedOver
    <2>1. n \in Name
      BY <1>2, PassedOverClosed
    <2>2. sources[n] # Nil => Called(sources[n]) \subseteq PassedOver
      BY <1>2, PassedOverClosed, Zenon DEF ClosedOver
    <2>3. QED
      BY <1>2, <2>1, <2>2, Zenon DEF KnownAt
  <1>3. ASSUME NEW e \in 0 .. MaxDepth, e <= d, n \in Name, Accounted(lev, n, e), n \notin PassedOver
        PROVE  /\ sources[n] = Nil => store[n] = Nil
               /\ sources[n] # Nil => Called(sources[n]) \subseteq KnownAt(lev, d + 1)
    <2>1. \/ sources[n] # Nil /\ lev[n] <= e + 1
          \/ store[n] = Nil
      BY <1>3, SettledCalls
    <2>2. store[n] = Nil => sources[n] = Nil
      BY <1>3 DEF WalkShape
    <2>3. ASSUME sources[n] # Nil PROVE lev[n] <= d + 1
      <3>1. lev[n] \in Nat /\ e \in Nat
        BY <1>1, <1>3
      <3>2. QED
        BY <1>1, <1>3, <2>1, <2>2, <2>3, <3>1
    <2>4. ASSUME sources[n] # Nil PROVE Called(sources[n]) \subseteq KnownAt(lev, d + 1)
      <3>1. n \in {m \in Name : sources[m] # Nil /\ lev[m] <= d + 1}
        BY <1>3, <2>3, <2>4
      <3>2. QED
        BY <3>1, Zenon DEF KnownAt
    <2>5. QED
      BY <2>1, <2>4
  <1>4. CASE n \in Called(page) /\ n \notin PassedOver
    <2>1. n \in Name
      BY <1>4, CallsAreNames DEF WalkTypes
    <2>2. Accounted(lev, n, 0) /\ 0 <= d
      BY <1>1, <1>4 DEF Levels
    <2>3. QED
      BY <1>1, <1>3, <1>4, <2>1, <2>2
  <1>5. CASE n \notin PassedOver /\ n \notin Called(page)
    <2>1. PICK m \in Name : sources[m] # Nil /\ lev[m] <= d /\ n \in Called(sources[m])
      BY <1>5, Zenon DEF KnownAt
    <2>2. n \in Name
      BY <2>1, CallsAreNames DEF WalkTypes
    <2>3. PICK e \in 0 .. MaxDepth + 1 : e = lev[m]
      BY <1>1
    <2>4. Accounted(lev, n, e)
      BY <2>1, <2>3, Zenon DEF Levels
    <2>5. e \in 0 .. MaxDepth /\ e <= d
      BY <1>1, <2>1, <2>3
    <2>6. QED
      BY <1>3, <1>5, <2>2, <2>4, <2>5
  <1>6. QED
    BY <1>2, <1>4, <1>5

\* What the walk owes to the expansion, once it is over.
LEMMA SeenSays ==
  ASSUME WalkTypes, WalkShape, ~PassLeft, NEW lev, Levels(lev)
  PROVE  WalkSays(Seen(lev))
  <1> DEFINE w == Seen(lev)
  <1>1. /\ \A d \in 0 .. MaxDepth : w.known[d] = KnownAt(lev, d)
        /\ w.over = PassedOver
        /\ w.absent = {n \in Name : store[n] = Nil} \cup PassedOver
    BY SeenIs
  <1> HIDE DEF w
  <1>2. MaxDepth \in Nat /\ 0 \in 0 .. MaxDepth /\ lev \in [Name -> 0 .. MaxDepth + 1]
    BY ConstantsAssumption DEF Levels
  <1>3. w.over \subseteq w.absent
    BY <1>1
  <1>4. Called(page) \subseteq w.known[0]
    BY <1>1, <1>2 DEF KnownAt
  <1>5. CalledByDefault(page) \subseteq w.over
    BY <1>1, PassedOverClosed DEF ClosedOver, Bodies
  <1>6. \A n \in Name : sources[n] # Nil => CalledByDefault(sources[n]) \subseteq w.over
    BY <1>1, PassedOverClosed DEF ClosedOver, Bodies
  <1>7. \A d \in 0 .. MaxDepth : w.over \subseteq w.known[d] /\ w.known[d] \subseteq Name
    BY <1>1, KnownCalls DEF KnownAt
  <1>8. ASSUME NEW d \in 0 .. MaxDepth, d + 1 <= MaxDepth
        PROVE  w.known[d] \subseteq w.known[d + 1] /\ d + 1 \in 0 .. MaxDepth
    <2>1. d + 1 \in 0 .. MaxDepth
      BY <1>2, <1>8
    <2>2. \A n \in Name : lev[n] <= d => lev[n] <= d + 1
      BY <1>2
    <2>3. KnownAt(lev, d) \subseteq KnownAt(lev, d + 1)
      BY <2>2 DEF KnownAt
    <2>4. QED
      BY <1>1, <2>1, <2>3
  <1>9. ASSUME NEW d \in 0 .. MaxDepth, NEW n \in w.known[d]
        PROVE  /\ sources[n] = Nil => n \in w.absent
               /\ sources[n] # Nil /\ d + 1 <= MaxDepth => Called(sources[n]) \subseteq w.known[d + 1]
    <2>1. n \in KnownAt(lev, d)
      BY <1>1
    <2>2. /\ n \in Name
          /\ sources[n] = Nil => store[n] = Nil \/ n \in PassedOver
          /\ sources[n] # Nil => Called(sources[n]) \subseteq KnownAt(lev, d + 1)
      BY <2>1, KnownCalls
    <2>3. d + 1 <= MaxDepth => w.known[d + 1] = KnownAt(lev, d + 1)
      BY <1>1, <1>8
    <2>4. QED
      BY <1>1, <2>2, <2>3
  <1>10. WalkSays(w)
    BY <1>3, <1>4, <1>5, <1>6, <1>7, <1>8, <1>9 DEF WalkSays
  <1>11. QED
    BY <1>10 DEF w

\* The expansion leaves all this alone.
LEMMA WalkKept ==
  ASSUME WalkTypes, NEW lev, Levels(lev), UNCHANGED <<page, store, rewritten, walk>>
  PROVE  WalkTypes' /\ Levels(lev)' /\ Seen(lev)' = Seen(lev)
  <1>1. /\ page' = page /\ store' = store /\ rewritten' = rewritten /\ sources' = sources
        /\ wanted' = wanted /\ later' = later /\ passes' = passes
    BY DEF walk
  <1>2. WalkTypes'
    BY <1>1 DEF WalkTypes
  <1>3. Bodies' = Bodies
    BY <1>1 DEF Bodies
  <1>4. \A S : ClosedOver(S)' <=> ClosedOver(S)
    BY <1>1, <1>3 DEF ClosedOver
  <1>5. PassedOver' = PassedOver
    BY <1>4 DEF PassedOver
  <1>6. Seen(lev)' = Seen(lev)
    BY <1>1, <1>5 DEF Seen
  <1>7. \A n, d : Accounted(lev, n, d)' <=> Accounted(lev, n, d)
    BY <1>1 DEF Accounted
  <1>8. Levels(lev)'
    BY <1>1, <1>7 DEF Levels
  <1>9. QED
    BY <1>2, <1>6, <1>8

-----------------------------------------------------------------------------
(* Parts and frames.                                                         *)

LEMMA PartTypes ==
  ASSUME NEW x \in AnyPart
  PROVE  /\ x.t \in {"text", "ref", "call"} \cup Errors
         /\ x.t = "call" => x.name \in Name /\ x.args \in Seq([name : STRING, body : Body])
         /\ x.t = "ref" => x.default \in Body \cup {Nil}
  <1>1. CASE x \in Written
    BY <1>1, WrittenParts
  <1>2. CASE x \in [t : Errors, name : Name]
    BY <1>2 DEF Errors
  <1>3. QED
    BY <1>1, <1>2, Zenon DEF AnyPart

LEMMA TextsAreParts ==
  ASSUME NEW b \in Body
  PROVE  b \in Seq(AnyPart)
  <1>1. b \in Seq(Written) /\ Written \subseteq AnyPart
    BY TextsAssumption DEF AnyPart
  <1>2. QED
    BY <1>1

LEMMA ErrorIsPart ==
  ASSUME NEW kind \in Errors, NEW n \in Name
  PROVE  Error(kind, n) \in AnyPart /\ Error(kind, n).t = kind /\ Error(kind, n).name = n
  BY DEF Error, AnyPart

\* The set of the elements of a sequence, by position.
LEMMA Positions ==
  ASSUME NEW S, NEW s \in Seq(S)
  PROVE  /\ DOMAIN s = 1 .. Len(s)
         /\ \A x \in ToSet(s) : \E i \in 1 .. Len(s) : x = s[i]
         /\ \A i \in 1 .. Len(s) : s[i] \in ToSet(s) /\ s[i] \in S
  BY DEF ToSet

LEMMA HeadTail ==
  ASSUME NEW S, NEW s \in Seq(S), s # <<>>
  PROVE  /\ Len(s) \in Nat /\ 1 \in 1 .. Len(s) /\ Head(s) = s[1] /\ Head(s) \in S
         /\ Tail(s) \in Seq(S)
         /\ \A i \in 1 .. Len(Tail(s)) : i + 1 \in 1 .. Len(s) /\ Tail(s)[i] = s[i + 1]
  OBVIOUS

LEMMA AppendOne ==
  ASSUME NEW S, NEW s \in Seq(S), NEW x \in S
  PROVE  /\ Append(s, x) \in Seq(S) /\ Len(s) \in Nat /\ Len(Append(s, x)) = Len(s) + 1
         /\ \A i \in 1 .. Len(s) : Append(s, x)[i] = s[i]
         /\ Append(s, x)[Len(s) + 1] = x
         /\ 1 .. Len(Append(s, x)) = 1 .. Len(s) \cup {Len(s) + 1}
  OBVIOUS

LEMMA FrontLast ==
  ASSUME NEW S, NEW s \in Seq(S), s # <<>>
  PROVE  /\ Front(s) \in Seq(S) /\ Len(s) \in Nat /\ Len(s) \in 1 .. Len(s)
         /\ Len(Front(s)) = Len(s) - 1
         /\ 1 .. Len(s) = 1 .. Len(s) - 1 \cup {Len(s)}
         /\ \A i \in 1 .. Len(s) - 1 : Front(s)[i] = s[i] /\ i \in 1 .. Len(s)
         /\ Last(s) = s[Len(s)] /\ Last(s) \in S
  <1>1. Len(s) \in Nat /\ Len(s) # 0 /\ DOMAIN s = 1 .. Len(s)
    OBVIOUS
  <1>2. Front(s) = SubSeq(s, 1, Len(s) - 1) /\ Last(s) = s[Len(s)]
    BY DEF Front, Last
  <1>3. /\ Front(s) \in Seq(S) /\ Len(Front(s)) = Len(s) - 1
        /\ \A i \in 1 .. Len(s) - 1 : Front(s)[i] = s[i]
    BY <1>1, <1>2
  <1>4. \A i \in 1 .. Len(s) : s[i] \in S
    OBVIOUS
  <1>5. QED
    BY <1>1, <1>2, <1>3, <1>4

\* The fields of a frame.
FrameFields(f) ==
  /\ f.kind \in {"page", "arg", "param", "body"} /\ f.name \in Name \cup {Nil}
  /\ f.given \in Seq(AnyPart) /\ f.body \in Seq(AnyPart) /\ f.args \in Seq(Binding)
  /\ f.depth \in 0 .. MaxDepth /\ f.bound \in Seq(Binding) /\ f.out \in Seq(AnyPart)

\* A frame is its fields.
LEMMA FramesHaveFields ==
  ASSUME NEW f \in FrameType
  PROVE  /\ FrameFields(f)
         /\ f = [kind |-> f.kind, name |-> f.name, given |-> f.given, body |-> f.body,
                 args |-> f.args, depth |-> f.depth, bound |-> f.bound, out |-> f.out]
  BY DEF FrameType, FrameFields

-----------------------------------------------------------------------------
(* The stack: its last frame is replaced, taken off, or another put on it.   *)

Good(fs, src, w) == Stack(fs, src) /\ AllKnown(fs, w)

\* Waits speaks of the frames up to i only.
LEMMA WaitsKept ==
  ASSUME NEW fs, NEW gs, NEW src, NEW i \in Nat, \A k \in 1 .. i : gs[k] = fs[k], i >= 1,
         Waits(fs, i, src)
  PROVE  Waits(gs, i, src)
  <1>1. gs[i] = fs[i]
    OBVIOUS
  <1>2. QED
    BY <1>1 DEF Waits

\* Two stacks that have the frames below n in common, up to the kind and the
\* name of frame n.
LEMMA StackKept ==
  ASSUME NEW fs, NEW gs \in Seq(FrameType), NEW src, Stack(fs, src),
         NEW n \in Nat, Len(gs) = n, n <= Len(fs),
         \A k \in 1 .. n - 1 : gs[k] = fs[k],
         n >= 1 => gs[n].kind = fs[n].kind /\ gs[n].name = fs[n].name
  PROVE  Stack(gs, src)
  <1>1. \A k \in 1 .. n : k \in 1 .. Len(fs) /\ gs[k].kind = fs[k].kind /\ gs[k].name = fs[k].name
    <2>1. Len(fs) \in Nat
      BY DEF Stack
    <2>2. QED
      BY <2>1
  <1>2. ASSUME NEW i \in 1 .. n, gs[i].kind = "arg" PROVE Waits(gs, i - 1, src)
    <2>1. fs[i].kind = "arg" /\ i \in 1 .. Len(fs)
      BY <1>1, <1>2
    <2>2. Waits(fs, i - 1, src) /\ i # 1
      BY <2>1 DEF Stack
    <2>3. i - 1 \in Nat /\ i - 1 >= 1 /\ \A k \in 1 .. i - 1 : gs[k] = fs[k]
      BY <2>2
    <2>4. QED
      BY <2>2, <2>3, WaitsKept
  <1>3. ASSUME NEW i \in 1 .. n
        PROVE  /\ gs[i].kind = "page" <=> i = 1
               /\ gs[i].kind = "body" <=> gs[i].name \in Name
    BY <1>1 DEF Stack
  <1>4. ASSUME NEW i \in 1 .. n, NEW j \in 1 .. n, gs[i].name \in Name, gs[i].name = gs[j].name
        PROVE  i = j
    BY <1>1, <1>4 DEF Stack
  <1>5. QED
    BY <1>2, <1>3, <1>4, Zenon DEF Stack

\* A good stack is good without its top,
LEMMA Pop ==
  ASSUME NEW fs, NEW src, NEW w, Good(fs, src, w), Len(fs) > 1
  PROVE  /\ Good(Front(fs), src, w) /\ Front(fs) # <<>>
         /\ Len(Front(fs)) = Len(fs) - 1
         /\ Last(Front(fs)) = fs[Len(fs) - 1]
  <1>1. fs \in Seq(FrameType) /\ fs # <<>>
    BY DEF Good, Stack
  <1>2. /\ Front(fs) \in Seq(FrameType) /\ Len(fs) \in Nat /\ Len(Front(fs)) = Len(fs) - 1
        /\ \A i \in 1 .. Len(fs) - 1 : Front(fs)[i] = fs[i] /\ i \in 1 .. Len(fs)
    BY <1>1, FrontLast
  <1>3. PICK gs, n : gs = Front(fs) /\ n = Len(fs) - 1
    OBVIOUS
  <1>4. /\ gs \in Seq(FrameType) /\ n \in Nat /\ n >= 1 /\ Len(gs) = n /\ n <= Len(fs)
        /\ \A i \in 1 .. n : gs[i] = fs[i] /\ i \in 1 .. Len(fs)
    BY <1>2, <1>3
  <1>5. Stack(gs, src)
    <2>1. /\ \A k \in 1 .. n - 1 : gs[k] = fs[k]
          /\ gs[n].kind = fs[n].kind /\ gs[n].name = fs[n].name
      BY <1>4
    <2>2. Stack(fs, src)
      BY DEF Good
    <2>3. QED
      BY <1>4, <2>1, <2>2, StackKept
  <1>6. AllKnown(gs, w)
    BY <1>4 DEF Good, AllKnown
  <1>7. gs # <<>> /\ Last(gs) = fs[n]
    BY <1>4 DEF Last
  <1>8. QED
    BY <1>3, <1>4, <1>5, <1>6, <1>7, Zenon DEF Good

\* with its top advanced,
LEMMA Replace ==
  ASSUME NEW fs, NEW src, NEW w, Good(fs, src, w), fs # <<>>, NEW f \in FrameType,
         FrameKnown(f, w), f.kind = Last(fs).kind, f.name = Last(fs).name,
         NEW gs, gs = Append(Front(fs), f)
  PROVE  Good(gs, src, w) /\ Len(gs) = Len(fs) /\ gs # <<>> /\ Last(gs) = f /\ Front(gs) = Front(fs)
  <1>1. fs \in Seq(FrameType)
    BY DEF Good, Stack
  <1>2. /\ Front(fs) \in Seq(FrameType) /\ Len(fs) \in Nat /\ Len(fs) \in 1 .. Len(fs)
        /\ Len(Front(fs)) = Len(fs) - 1
        /\ \A i \in 1 .. Len(fs) - 1 : Front(fs)[i] = fs[i] /\ i \in 1 .. Len(fs)
        /\ Last(fs) = fs[Len(fs)]
    BY <1>1, FrontLast
  <1>3. PICK base, n : base = Front(fs) /\ n = Len(fs)
    OBVIOUS
  <1>4. /\ base \in Seq(FrameType) /\ n \in Nat /\ n >= 1 /\ Len(base) = n - 1
        /\ \A i \in 1 .. n - 1 : base[i] = fs[i] /\ i \in 1 .. Len(fs)
        /\ gs = Append(base, f)
    BY <1>2, <1>3
  <1>5. /\ gs \in Seq(FrameType) /\ Len(gs) = n
        /\ \A i \in 1 .. n - 1 : gs[i] = fs[i] /\ i \in 1 .. Len(fs)
        /\ gs[n] = f
    BY <1>4
  <1>6. Stack(gs, src)
    <2>1. Stack(fs, src) /\ n <= Len(fs) /\ gs[n].kind = fs[n].kind /\ gs[n].name = fs[n].name
      BY <1>2, <1>3, <1>5 DEF Good
    <2>2. QED
      BY <1>4, <1>5, <2>1, StackKept
  <1>7. AllKnown(gs, w)
    <2>1. \A i \in 1 .. n : i \in 1 .. n - 1 \/ i = n
      BY <1>4
    <2>2. QED
      BY <1>5, <2>1 DEF Good, AllKnown
  <1>8. gs # <<>> /\ Last(gs) = f /\ Front(gs) = base
    <2>1. gs # <<>> /\ Last(gs) = f
      BY <1>4, <1>5 DEF Last
    <2>2. SubSeq(gs, 1, n - 1) = base
      BY <1>4, <1>5
    <2>3. QED
      BY <1>5, <2>1, <2>2 DEF Front
  <1>9. QED
    BY <1>3, <1>5, <1>6, <1>7, <1>8, Zenon DEF Good

\* and with a frame above that no other frame of the stack is for.
LEMMA Push ==
  ASSUME NEW fs, NEW src, NEW w, Good(fs, src, w), fs # <<>>, NEW f \in FrameType,
         FrameKnown(f, w), f.kind # "page", f.kind = "body" <=> f.name \in Name,
         f.kind = "arg" => Waits(fs, Len(fs), src),
         f.name \in Name => \A k \in 1 .. Len(fs) : fs[k].name # f.name,
         NEW gs, gs = Append(fs, f)
  PROVE  Good(gs, src, w)
  <1>1. fs \in Seq(FrameType)
    BY DEF Good, Stack
  <1>2. PICK n : n = Len(fs)
    OBVIOUS
  <1>3. /\ n \in Nat /\ n >= 1 /\ gs \in Seq(FrameType) /\ Len(gs) = n + 1
        /\ \A i \in 1 .. n : gs[i] = fs[i]
        /\ gs[n + 1] = f
        /\ \A i \in 1 .. n + 1 : i \in 1 .. n \/ i = n + 1
    BY <1>1, <1>2
  <1>4. ASSUME NEW i \in 1 .. n
        PROVE  /\ gs[i].kind = "page" <=> i = 1
               /\ gs[i].kind = "body" <=> gs[i].name \in Name
               /\ gs[i].kind = "arg" => Waits(gs, i - 1, src)
    <2>1. gs[i] = fs[i]
      BY <1>3
    <2>2. /\ fs[i].kind = "page" <=> i = 1
          /\ fs[i].kind = "body" <=> fs[i].name \in Name
          /\ fs[i].kind = "arg" => Waits(fs, i - 1, src)
      BY <1>2 DEF Good, Stack
    <2>3. ASSUME fs[i].kind = "arg" PROVE Waits(gs, i - 1, src)
      <3>1. i - 1 \in Nat /\ i - 1 >= 1 /\ \A k \in 1 .. i - 1 : gs[k] = fs[k]
        BY <1>3, <2>2, <2>3
      <3>2. QED
        BY <2>2, <2>3, <3>1, WaitsKept
    <2>4. QED
      BY <2>1, <2>2, <2>3
  <1>5. /\ gs[n + 1].kind # "page"
        /\ gs[n + 1].kind = "body" <=> gs[n + 1].name \in Name
        /\ gs[n + 1].kind = "arg" => Waits(gs, n, src)
    <2>1. Waits(fs, n, src) => Waits(gs, n, src)
      BY <1>3, WaitsKept
    <2>2. QED
      BY <1>2, <1>3, <2>1
  <1>6. ASSUME NEW i \in 1 .. n + 1, NEW j \in 1 .. n + 1,
               gs[i].name \in Name, gs[i].name = gs[j].name
        PROVE  i = j
    <2>1. \A k \in 1 .. n : f.name \in Name => gs[k].name # f.name
      BY <1>2, <1>3
    <2>2. \A k, l \in 1 .. n : gs[k].name \in Name /\ gs[k].name = gs[l].name => k = l
      BY <1>2, <1>3 DEF Good, Stack
    <2>3. QED
      BY <1>3, <1>6, <2>1, <2>2
  <1>7. Stack(gs, src)
    <2>1. ASSUME NEW i \in 1 .. n + 1
          PROVE  /\ gs[i].kind = "page" <=> i = 1
                 /\ gs[i].kind = "body" <=> gs[i].name \in Name
                 /\ gs[i].kind = "arg" => Waits(gs, i - 1, src)
      <3>1. CASE i \in 1 .. n
        BY <1>4, <3>1
      <3>2. CASE i = n + 1
        <4>1. i - 1 = n /\ i # 1
          BY <1>3, <3>2
        <4>2. QED
          BY <1>5, <3>2, <4>1
      <3>3. QED
        BY <1>3, <3>1, <3>2
    <2>2. QED
      BY <1>3, <1>6, <2>1 DEF Stack
  <1>8. AllKnown(gs, w)
    BY <1>2, <1>3 DEF Good, AllKnown
  <1>9. QED
    BY <1>7, <1>8 DEF Good

-----------------------------------------------------------------------------
(* What the expansion comes to is known to the walk.                         *)

\* A text of which the calls are known is known, part by part.
LEMMA TextOfBody ==
  ASSUME NEW w, NEW d, NEW b \in Body,
         Called(b) \subseteq w.known[d], CalledByDefault(b) \subseteq w.over
  PROVE  TextKnown(b, d, w)
  <1>1. b \in Seq(AnyPart)
    BY TextsAreParts
  <1>2. ASSUME NEW i \in 1 .. Len(b) PROVE PartKnown(b[i], d, w)
    <2>1. b[i] \in ToSet(b)
      BY <1>1, Positions
    <2>2. /\ b[i] \in Written
          /\ PartCalls(b[i]) \subseteq Called(b)
          /\ PartDefaults(b[i]) \subseteq CalledByDefault(b)
      BY <2>1, PartsOfText
    <2>3. b[i].t # "not found"
      BY <2>2, WrittenParts
    <2>4. QED
      BY <2>2, <2>3, Zenon DEF PartKnown
  <1>3. QED
    BY <1>2 DEF TextKnown

\* The argument of a call.
LEMMA ArgOfCall ==
  ASSUME NEW c \in AnyPart, c.t = "call", NEW i \in 1 .. Len(c.args)
  PROVE  /\ c.args[i].name \in STRING /\ c.args[i].body \in Body
         /\ Called(c.args[i].body) \subseteq PartCalls(c)
         /\ CalledByDefault(c.args[i].body) \subseteq PartDefaults(c)
  <1>1. c.args \in Seq([name : STRING, body : Body])
    BY PartTypes
  <1>2. c.args[i] \in ToSet(c.args) /\ c.args[i] \in [name : STRING, body : Body]
    BY <1>1, Positions
  <1>3. PICK a : a = c.args[i]
    OBVIOUS
  <1>4. a.name \in STRING /\ a.body \in Body
    BY <1>2, <1>3
  <1>5. /\ PartCalls(c) = {c.name} \cup UNION {Called(x.body) : x \in ToSet(c.args)}
        /\ PartDefaults(c) = UNION {CalledByDefault(x.body) : x \in ToSet(c.args)}
    BY DEF PartCalls, PartDefaults
  <1>6. Called(a.body) \subseteq PartCalls(c) /\ CalledByDefault(a.body) \subseteq PartDefaults(c)
    BY <1>2, <1>3, <1>5, Zenon
  <1>7. QED
    BY <1>3, <1>4, <1>6, Zenon

\* The output of a call of the expansion may be put anywhere.
LEMMA OutIsText ==
  ASSUME NEW w, NEW s, OutKnown(s, w), NEW d
  PROVE  TextKnown(s, d, w)
  <1>1. ASSUME NEW i \in 1 .. Len(s) PROVE PartKnown(s[i], d, w)
    <2>1. s[i].t # "call" /\ PartKnown(s[i], 0, w)
      BY DEF OutKnown
    <2>2. PartCalls(s[i]) = {}
      BY <2>1 DEF PartCalls
    <2>3. QED
      BY <2>1, <2>2 DEF PartKnown
  <1>2. QED
    BY <1>1 DEF TextKnown

\* What is not there calls nothing unknown.
LEMMA NothingKnown ==
  ASSUME NEW w
  PROVE  OutKnown(<<>>, w) /\ ArgsKnown(<<>>, w)
  BY DEF OutKnown, ArgsKnown

\* The rest of a text.
LEMMA RestKnown ==
  ASSUME NEW w, NEW d, NEW s \in Seq(AnyPart), s # <<>>, TextKnown(s, d, w)
  PROVE  TextKnown(Tail(s), d, w) /\ PartKnown(Head(s), d, w)
  <1>1. /\ 1 \in 1 .. Len(s) /\ Head(s) = s[1]
        /\ \A i \in 1 .. Len(Tail(s)) : i + 1 \in 1 .. Len(s) /\ Tail(s)[i] = s[i + 1]
    BY HeadTail
  <1>2. PartKnown(Head(s), d, w)
    BY <1>1 DEF TextKnown
  <1>3. ASSUME NEW i \in 1 .. Len(Tail(s)) PROVE PartKnown(Tail(s)[i], d, w)
    BY <1>1 DEF TextKnown
  <1>4. QED
    BY <1>2, <1>3 DEF TextKnown

\* A frame that goes on with the rest of its text.
Resumed(e, f) ==
  /\ e \in FrameType /\ e.kind = f.kind /\ e.name = f.name /\ e.args = f.args
  /\ e.depth = f.depth /\ e.body = Tail(f.body) /\ e.bound = <<>> /\ e.out = f.out

\* A new frame.
Begun(t, kind, name, body, args, depth) ==
  /\ t \in FrameType /\ t.kind = kind /\ t.name = name /\ t.body = body
  /\ t.args = args /\ t.depth = depth /\ t.bound = <<>> /\ t.out = <<>>

LEMMA FrameBegins ==
  ASSUME NEW kind \in {"page", "arg", "param", "body"}, NEW name \in Name \cup {Nil},
         NEW body \in Seq(AnyPart), NEW args \in Seq(Binding), NEW depth \in 0 .. MaxDepth,
         NEW t, t = Frame(kind, name, body, args, depth)
  PROVE  Begun(t, kind, name, body, args, depth)
  <1>1. t = [kind |-> kind, name |-> name, given |-> body, body |-> body, args |-> args,
             depth |-> depth, bound |-> <<>>, out |-> <<>>]
    BY DEF Frame
  <1>2. t \in FrameType
    BY <1>1 DEF FrameType
  <1>3. QED
    BY <1>1, <1>2 DEF Begun

\* s is the stack fs with the call c at its top gone on.
Descended(s, fs, f, c, d) ==
  /\ Len(f.bound) < Len(c.args) =>
       /\ Len(f.bound) + 1 \in 1 .. Len(c.args)
       /\ \E t : /\ Begun(t, "arg", Nil, c.args[Len(f.bound) + 1].body, f.args, d)
                 /\ s = Append(fs, t)
  /\ ~(Len(f.bound) < Len(c.args)) =>
       \E e, t : /\ Resumed(e, f) /\ Begun(t, "body", c.name, sources[c.name], f.bound, d)
                 /\ s = Append(Append(Front(fs), e), t)

LEMMA Descends ==
  ASSUME sources \in Fetchable, NEW fs \in Seq(FrameType), fs # <<>>,
         NEW base, base = Front(fs), NEW f, f = Last(fs),
         f.body # <<>>, NEW c, c = Head(f.body), c.t = "call", sources[c.name] # Nil,
         NEW d \in 0 .. MaxDepth, d = f.depth + 1
  PROVE  Descended(Descend(base, f), fs, f, c, d)
  <1>1. /\ base \in Seq(FrameType) /\ Len(fs) \in 1 .. Len(fs) /\ f = fs[Len(fs)] /\ f \in FrameType
        /\ Len(fs) \in Nat
    BY FrontLast
  <1>2. FrameFields(f)
    BY <1>1, FramesHaveFields
  <1>3. c \in AnyPart /\ Tail(f.body) \in Seq(AnyPart)
    BY <1>2, HeadTail DEF FrameFields
  <1>4. c.name \in Name /\ c.args \in Seq([name : STRING, body : Body])
    BY <1>3, PartTypes
  <1>5. CASE Len(f.bound) < Len(c.args)
    <2>1. Len(f.bound) + 1 \in 1 .. Len(c.args)
      BY <1>2, <1>4, <1>5 DEF FrameFields
    <2>2. PICK b : b = c.args[Len(f.bound) + 1].body
      OBVIOUS
    <2>3. b \in Body
      BY <1>3, <2>1, <2>2, ArgOfCall
    <2>4. PICK t : t = Frame("arg", Nil, b, f.args, d)
      OBVIOUS
    <2>5. Begun(t, "arg", Nil, b, f.args, d)
      <3>1. b \in Seq(AnyPart) /\ f.args \in Seq(Binding) /\ Nil \in Name \cup {Nil}
        BY <1>2, <2>3, TextsAreParts DEF FrameFields
      <3>2. QED
        BY <2>4, <3>1, FrameBegins
    <2>6. Descend(base, f) = base \o <<f, t>>
      BY <1>5, <2>2, <2>4 DEF Descend
    <2>7. Append(base, f) = fs
      <3>1. Len(fs) # 0
        OBVIOUS
      <3>2. QED
        BY <1>1, <3>1 DEF Front
    <2>8. Descend(base, f) = Append(fs, t)
      <3>1. t \in FrameType
        BY <2>5 DEF Begun
      <3>2. base \o <<f, t>> = Append(Append(base, f), t)
        BY <1>1, <3>1
      <3>3. QED
        BY <2>6, <2>7, <3>2, Zenon
    <2>9. QED
      BY <1>5, <2>1, <2>2, <2>5, <2>8, Zenon DEF Descended
  <1>6. CASE ~(Len(f.bound) < Len(c.args))
    <2>1. PICK v, e : v = Tail(f.body) /\ e = [f EXCEPT !.body = v]
      OBVIOUS
    <2>2. /\ e \in FrameType /\ e.kind = f.kind /\ e.name = f.name /\ e.args = f.args
          /\ e.depth = f.depth /\ e.body = Tail(f.body) /\ e.bound = f.bound /\ e.out = f.out
      <3>1. v \in Seq(AnyPart)
        BY <1>3, <2>1
      <3>2. /\ e \in FrameType /\ e.kind = f.kind /\ e.name = f.name /\ e.args = f.args
            /\ e.depth = f.depth /\ e.body = v /\ e.bound = f.bound /\ e.out = f.out
        BY <1>1, <2>1, <3>1 DEF FrameType
      <3>3. QED
        BY <2>1, <3>2
    <2>3. PICK u, h : u = <<>> /\ h = [e EXCEPT !.bound = u]
      OBVIOUS
    <2>4. Resumed(h, f)
      <3>1. u \in Seq(Binding)
        BY <2>3
      <3>2. /\ h \in FrameType /\ h.kind = e.kind /\ h.name = e.name /\ h.args = e.args
            /\ h.depth = e.depth /\ h.body = e.body /\ h.bound = u /\ h.out = e.out
        BY <2>2, <2>3, <3>1 DEF FrameType
      <3>3. QED
        BY <2>2, <2>3, <3>2 DEF Resumed
    <2>5. PICK b, t : b = sources[c.name] /\ t = Frame("body", c.name, b, f.bound, d)
      OBVIOUS
    <2>6. Begun(t, "body", c.name, b, f.bound, d)
      <3>1. b \in Body
        BY <1>4, <2>5 DEF Fetchable
      <3>2. b \in Seq(AnyPart) /\ f.bound \in Seq(Binding) /\ c.name \in Name \cup {Nil}
        BY <1>2, <1>4, <3>1, TextsAreParts DEF FrameFields
      <3>3. QED
        BY <2>5, <3>2, FrameBegins
    <2>7. Descend(base, f) = base \o <<h, t>>
      <3>1. h = [f EXCEPT !.body = Tail(f.body), !.bound = <<>>]
        BY <1>1, <2>1, <2>3 DEF FrameType
      <3>2. QED
        BY <1>6, <2>5, <3>1 DEF Descend
    <2>8. Descend(base, f) = Append(Append(base, h), t)
      <3>1. h \in FrameType /\ t \in FrameType
        BY <2>4, <2>6 DEF Resumed, Begun
      <3>2. base \o <<h, t>> = Append(Append(base, h), t)
        BY <1>1, <3>1
      <3>3. QED
        BY <2>7, <3>2, Zenon
    <2>9. QED
      BY <1>6, <2>4, <2>5, <2>6, <2>8, Zenon DEF Descended
  <1>7. QED
    BY <1>5, <1>6

\* A call that is found neither missing, nor cyclic, nor too deep goes on.
LEMMA DescendGood ==
  ASSUME WalkTypes, NEW w, WalkSays(w), NEW fs, Good(fs, sources, w), fs # <<>>,
         NEW base, base = Front(fs), NEW f, f = Last(fs), NEW c, c = Head(f.body),
         f.body # <<>>, c.t = "call", sources[c.name] # Nil, f.depth + 1 <= MaxDepth,
         \A k \in 1 .. Len(fs) : fs[k].name # c.name
  PROVE  Good(Descend(base, f), sources, w) /\ Descend(base, f) # <<>>
  <1>1. fs \in Seq(FrameType) /\ sources \in Fetchable
    BY DEF Good, Stack, WalkTypes, Fetchable
  <1>2. /\ base \in Seq(FrameType) /\ Len(fs) \in 1 .. Len(fs) /\ f = fs[Len(fs)] /\ f \in FrameType
        /\ Len(fs) \in Nat
    BY <1>1, FrontLast
  <1>3. FrameFields(f) /\ FrameKnown(f, w)
    BY <1>2, FramesHaveFields DEF Good, AllKnown
  <1>4. c \in AnyPart /\ Tail(f.body) \in Seq(AnyPart)
    BY <1>3, HeadTail DEF FrameFields
  <1>5. c.name \in Name
    BY <1>4, PartTypes
  <1>6. PartKnown(c, f.depth, w) /\ TextKnown(Tail(f.body), f.depth, w)
    BY <1>3, RestKnown DEF FrameKnown, FrameFields
  <1>7. PICK d, e : d = f.depth /\ e = f.depth + 1
    OBVIOUS
  <1>8. d \in 0 .. MaxDepth /\ e \in 0 .. MaxDepth /\ e = d + 1 /\ e <= MaxDepth
    BY <1>3, <1>7, ConstantsAssumption DEF FrameFields
  <1>9. w.known[d] \subseteq w.known[e]
    BY <1>8 DEF WalkSays
  <1>10. PartCalls(c) \subseteq w.known[d] /\ PartDefaults(c) \subseteq w.over
    BY <1>6, <1>7, Zenon DEF PartKnown
  <1>11. Descended(Descend(base, f), fs, f, c, e)
    BY <1>1, <1>7, <1>8, Descends
  <1>12. CASE Len(f.bound) < Len(c.args)
    <2>1. PICK t : /\ Begun(t, "arg", Nil, c.args[Len(f.bound) + 1].body, f.args, e)
                   /\ Descend(base, f) = Append(fs, t)
      BY <1>11, <1>12, Zenon DEF Descended
    <2>2. PICK b : b = c.args[Len(f.bound) + 1].body
      OBVIOUS
    <2>3. b \in Body /\ Called(b) \subseteq PartCalls(c) /\ CalledByDefault(b) \subseteq PartDefaults(c)
      BY <1>4, <1>11, <1>12, <2>2, ArgOfCall DEF Descended
    <2>4. /\ t \in FrameType /\ t.kind = "arg" /\ t.name = Nil /\ t.body = b /\ t.args = f.args
          /\ t.depth = e /\ t.bound = <<>> /\ t.out = <<>>
      BY <2>1, <2>2 DEF Begun
    <2>5. TextKnown(b, e, w)
      BY <1>9, <1>10, <2>3, TextOfBody
    <2>6. FrameKnown(t, w)
      BY <1>3, <2>4, <2>5, NothingKnown DEF FrameKnown
    <2>7. Waits(fs, Len(fs), sources)
      BY <1>2, <1>12 DEF Waits
    <2>8. Nil \notin Name
      BY ConstantsAssumption
    <2>9. Good(Append(fs, t), sources, w)
      BY <2>4, <2>6, <2>7, <2>8, Push
    <2>10. QED
      BY <1>1, <2>1, <2>4, <2>9
  <1>13. CASE ~(Len(f.bound) < Len(c.args))
    <2>1. PICK h, t : /\ Resumed(h, f) /\ Begun(t, "body", c.name, sources[c.name], f.bound, e)
                      /\ Descend(base, f) = Append(Append(base, h), t)
      BY <1>11, <1>13, Zenon DEF Descended
    <2>2. /\ h \in FrameType /\ h.kind = f.kind /\ h.name = f.name /\ h.args = f.args
          /\ h.depth = f.depth /\ h.body = Tail(f.body) /\ h.bound = <<>> /\ h.out = f.out
      BY <2>1 DEF Resumed
    <2>3. FrameKnown(h, w)
      BY <1>3, <1>6, <2>2, NothingKnown DEF FrameKnown
    <2>4. PICK b : b = sources[c.name]
      OBVIOUS
    <2>5. b \in Body
      BY <1>1, <1>5, <2>4 DEF Fetchable
    <2>6. /\ t \in FrameType /\ t.kind = "body" /\ t.name = c.name /\ t.body = b
          /\ t.args = f.bound /\ t.depth = e /\ t.bound = <<>> /\ t.out = <<>>
      BY <2>1, <2>4 DEF Begun
    <2>7. c.name \in w.known[d]
      BY <1>10 DEF PartCalls
    <2>8. Called(b) \subseteq w.known[e] /\ CalledByDefault(b) \subseteq w.over
      BY <1>5, <1>8, <2>4, <2>7 DEF WalkSays
    <2>9. FrameKnown(t, w)
      BY <1>3, <2>5, <2>6, <2>8, TextOfBody, NothingKnown DEF FrameKnown
    <2>10. PICK gs : gs = Append(base, h)
      OBVIOUS
    <2>11. Good(gs, sources, w) /\ gs # <<>> /\ Len(gs) = Len(fs) /\ Last(gs) = h
      BY <2>2, <2>3, <2>10, Replace
    <2>12. \A k \in 1 .. Len(gs) : gs[k].name # c.name
      <3>1. \A k \in 1 .. Len(fs) - 1 : gs[k] = fs[k]
        <4>1. Len(base) = Len(fs) - 1 /\ \A k \in 1 .. Len(fs) - 1 : base[k] = fs[k]
          BY <1>1, FrontLast
        <4>2. QED
          BY <1>2, <2>2, <2>10, <4>1
      <3>2. gs[Len(fs)] = h
        BY <2>11 DEF Last
      <3>3. QED
        BY <1>2, <2>2, <2>11, <3>1, <3>2
    <2>13. Good(Append(gs, t), sources, w)
      BY <1>5, <2>6, <2>9, <2>11, <2>12, Push
    <2>14. Descend(base, f) = Append(gs, t) /\ gs \in Seq(FrameType)
      BY <2>1, <2>10, <2>11 DEF Good, Stack
    <2>15. QED
      BY <2>6, <2>13, <2>14
  <1>14. QED
    BY <1>12, <1>13

-----------------------------------------------------------------------------
(* One step of the expansion.                                                *)

\* The first argument of a name is one.
LEMMA FirstGiven ==
  ASSUME NEW args \in Seq(Binding), NEW x, Given(x, args) # {}
  PROVE  Min(Given(x, args)) \in 1 .. Len(args)
  <1>1. PICK G : G = Given(x, args)
    OBVIOUS
  <1>2. G \subseteq 1 .. Len(args) /\ G \subseteq Nat /\ G # {}
    BY <1>1 DEF Given
  <1>3. \E n \in G : \A m \in G : n <= m
    BY <1>2, Least
  <1>4. Min(G) \in G
    BY <1>3, Zenon DEF Min
  <1>5. QED
    BY <1>1, <1>2, <1>4

LEMMA ValueTypes ==
  ASSUME NEW x \in AnyPart, x.t = "ref", NEW args \in Seq(Binding)
  PROVE  Value(x, args) \in Seq(AnyPart)
  <1>1. CASE Given(x, args) # {}
    <2>1. PICK i \in 1 .. Len(args) : i = Min(Given(x, args))
      BY <1>1, FirstGiven
    <2>2. Value(x, args) = args[i].value /\ args[i] \in Binding
      BY <1>1, <2>1 DEF Value
    <2>3. QED
      BY <2>2 DEF Binding
  <1>2. CASE Given(x, args) = {} /\ x.default # Nil
    BY <1>2, PartTypes, TextsAreParts DEF Value
  <1>3. CASE Given(x, args) = {} /\ x.default = Nil
    BY <1>3 DEF Value
  <1>4. QED
    BY <1>1, <1>2, <1>3

\* What a reference stands for calls nothing that it may not.
LEMMA ValueKnown ==
  ASSUME NEW x \in AnyPart, x.t = "ref", NEW args \in Seq(Binding), NEW w, NEW d,
         ArgsKnown(args, w), PartKnown(x, d, w), w.over \subseteq w.known[d]
  PROVE  Value(x, args) \in Seq(AnyPart) /\ TextKnown(Value(x, args), d, w)
  <1>1. CASE Given(x, args) # {}
    <2>1. PICK i \in 1 .. Len(args) : i = Min(Given(x, args))
      BY <1>1, FirstGiven
    <2>2. Value(x, args) = args[i].value
      BY <1>1, <2>1 DEF Value
    <2>3. args[i] \in Binding
      OBVIOUS
    <2>4. args[i].value \in Seq(AnyPart)
      BY <2>3 DEF Binding
    <2>5. OutKnown(args[i].value, w)
      BY DEF ArgsKnown
    <2>6. TextKnown(args[i].value, d, w)
      BY <2>5, OutIsText
    <2>7. QED
      BY <2>2, <2>4, <2>6, Zenon
  <1>2. CASE Given(x, args) = {} /\ x.default # Nil
    <2>1. PICK b : b = x.default
      OBVIOUS
    <2>2. Value(x, args) = b /\ b \in Body
      BY <1>2, <2>1, PartTypes DEF Value
    <2>3. PartDefaults(x) = Called(b) \cup CalledByDefault(b)
      BY <1>2, <2>1 DEF PartDefaults
    <2>4. Called(b) \subseteq w.known[d] /\ CalledByDefault(b) \subseteq w.over
      BY <2>3, Zenon DEF PartKnown
    <2>5. QED
      BY <2>2, <2>4, TextsAreParts, TextOfBody, Zenon
  <1>3. CASE Given(x, args) = {} /\ x.default = Nil
    <2>1. PICK s : s = <<x>>
      OBVIOUS
    <2>2. Value(x, args) = s
      BY <1>3, <2>1 DEF Value
    <2>3. s \in Seq(AnyPart) /\ Len(s) = 1 /\ s[1] = x
      BY <2>1
    <2>4. TextKnown(s, d, w)
      BY <2>3 DEF TextKnown
    <2>5. QED
      BY <2>2, <2>3, <2>4, Zenon
  <1>4. QED
    BY <1>1, <1>2, <1>3

\* One more part is put out.
LEMMA EmitGood ==
  ASSUME NEW src, NEW w, NEW fs, Good(fs, src, w), fs # <<>>,
         NEW f, f = Last(fs), f.body # <<>>,
         NEW x \in AnyPart, x.t # "call", PartKnown(x, 0, w)
  PROVE  Good(Append(Front(fs), [f EXCEPT !.body = Tail(@), !.out = Append(@, x)]), src, w)
  <1>1. fs \in Seq(FrameType)
    BY DEF Good, Stack
  <1>2. f \in FrameType /\ FrameKnown(f, w)
    BY <1>1, FrontLast DEF Good, AllKnown
  <1>3. FrameFields(f)
    BY <1>2, FramesHaveFields
  <1>4. PICK b, o : b = Tail(f.body) /\ o = Append(f.out, x)
    OBVIOUS
  <1>5. b \in Seq(AnyPart) /\ o \in Seq(AnyPart)
    BY <1>3, <1>4, HeadTail DEF FrameFields
  <1>6. TextKnown(b, f.depth, w)
    BY <1>2, <1>3, <1>4, RestKnown DEF FrameKnown, FrameFields
  <1>7. OutKnown(o, w)
    <2>1. /\ \A i \in 1 .. Len(f.out) : o[i] = f.out[i]
          /\ o[Len(f.out) + 1] = x
          /\ 1 .. Len(o) = 1 .. Len(f.out) \cup {Len(f.out) + 1}
      BY <1>3, <1>4, AppendOne DEF FrameFields
    <2>2. \A i \in 1 .. Len(f.out) : f.out[i].t # "call" /\ PartKnown(f.out[i], 0, w)
      BY <1>2 DEF FrameKnown, OutKnown
    <2>3. QED
      BY <2>1, <2>2 DEF OutKnown
  <1>8. PICK g : g = [f EXCEPT !.body = b, !.out = o]
    OBVIOUS
  <1>9. /\ g \in FrameType /\ g.kind = f.kind /\ g.name = f.name /\ g.args = f.args
        /\ g.depth = f.depth /\ g.body = b /\ g.bound = f.bound /\ g.out = o
    BY <1>2, <1>5, <1>8 DEF FrameType
  <1>10. FrameKnown(g, w)
    BY <1>2, <1>6, <1>7, <1>9 DEF FrameKnown
  <1>11. [f EXCEPT !.body = Tail(@), !.out = Append(@, x)] = g
    BY <1>2, <1>4, <1>8 DEF FrameType
  <1>12. PICK gs : gs = Append(Front(fs), g)
    OBVIOUS
  <1>13. Good(gs, src, w)
    BY <1>9, <1>10, <1>12, Replace
  <1>14. QED
    BY <1>11, <1>12, <1>13, Zenon

\* The innermost call, as far as the invariant tells.
LEMMA TopKnown ==
  ASSUME NEW src, NEW w, NEW fs, Good(fs, src, w), fs # <<>>, NEW f, f = Last(fs)
  PROVE  /\ fs \in Seq(FrameType) /\ Len(fs) \in 1 .. Len(fs) /\ f = fs[Len(fs)]
         /\ f \in FrameType /\ FrameFields(f) /\ FrameKnown(f, w)
         /\ f.body # <<>> => Head(f.body) \in AnyPart /\ PartKnown(Head(f.body), f.depth, w)
  <1>1. fs \in Seq(FrameType)
    BY DEF Good, Stack
  <1>2. Len(fs) \in 1 .. Len(fs) /\ f = fs[Len(fs)] /\ f \in FrameType
    BY <1>1, FrontLast
  <1>3. FrameKnown(f, w)
    BY <1>2 DEF Good, AllKnown
  <1>4. FrameFields(f)
    BY <1>2, FramesHaveFields
  <1>5. f.body # <<>> => Head(f.body) \in AnyPart /\ PartKnown(Head(f.body), f.depth, w)
    BY <1>3, <1>4, HeadTail, RestKnown DEF FrameFields, FrameKnown
  <1>6. QED
    BY <1>1, <1>2, <1>3, <1>4, <1>5

LEMMA StartGood ==
  ASSUME WalkTypes, NEW w, WalkSays(w)
  PROVE  Good(<<Frame("page", Nil, page, <<>>, 0)>>, sources, w)
  <1>1. PICK g, fs : g = Frame("page", Nil, page, <<>>, 0) /\ fs = <<g>>
    OBVIOUS
  <1>2. 0 \in 0 .. MaxDepth /\ Nil \notin Name
    BY ConstantsAssumption
  <1>3. page \in Body /\ page \in Seq(AnyPart)
    BY TextsAreParts DEF WalkTypes
  <1>4. /\ g \in FrameType /\ g.kind = "page" /\ g.name = Nil /\ g.body = page
        /\ g.args = <<>> /\ g.depth = 0 /\ g.bound = <<>> /\ g.out = <<>>
    <2>1. <<>> \in Seq(Binding) /\ Nil \in Name \cup {Nil}
      OBVIOUS
    <2>2. Begun(g, "page", Nil, page, <<>>, 0)
      BY <1>1, <1>2, <1>3, <2>1, FrameBegins
    <2>3. QED
      BY <2>2 DEF Begun
  <1>5. TextKnown(page, 0, w)
    BY <1>3, TextOfBody DEF WalkSays
  <1>6. FrameKnown(g, w)
    BY <1>4, <1>5, NothingKnown DEF FrameKnown
  <1>7. fs \in Seq(FrameType) /\ Len(fs) = 1 /\ fs[1] = g /\ \A i \in 1 .. Len(fs) : i = 1
    BY <1>1, <1>4
  <1>8. Stack(fs, sources)
    BY <1>2, <1>4, <1>7 DEF Stack
  <1>9. AllKnown(fs, w)
    BY <1>6, <1>7 DEF AllKnown
  <1>10. QED
    BY <1>1, <1>8, <1>9, Zenon DEF Good

LEMMA CopyGood ==
  ASSUME NEW w, Good(frames, sources, w), Copy
  PROVE  Good(frames', sources, w)
  <1>1. /\ frames # <<>> /\ Top.body # <<>> /\ Part.t \in {"text", "ref"} \cup Errors
        /\ frames' = Append(Front(frames), [Top EXCEPT !.body = Tail(@), !.out = Append(@, Part)])
    BY DEF Copy, Awaits, Emit
  <1>2. PICK fs, f, x : fs = frames /\ f = Last(fs) /\ x = Head(f.body)
    OBVIOUS
  <1>3. /\ fs # <<>> /\ f.body # <<>> /\ x.t # "call" /\ Good(fs, sources, w)
        /\ frames' = Append(Front(fs), [f EXCEPT !.body = Tail(@), !.out = Append(@, x)])
    BY <1>1, <1>2 DEF Top, Part, Errors
  <1>4. x \in AnyPart /\ PartKnown(x, f.depth, w)
    BY <1>2, <1>3, TopKnown
  <1>5. PartKnown(x, 0, w)
    <2>1. PartCalls(x) = {}
      BY <1>3 DEF PartCalls
    <2>2. QED
      BY <1>4, <2>1 DEF PartKnown
  <1>6. Good(Append(Front(fs), [f EXCEPT !.body = Tail(@), !.out = Append(@, x)]), sources, w)
    BY <1>2, <1>3, <1>4, <1>5, EmitGood
  <1>7. QED
    BY <1>3, <1>6, Zenon

LEMMA RefuseGood ==
  ASSUME NEW w, WalkSays(w), Good(frames, sources, w), Refuse
  PROVE  Good(frames', sources, w)
  <1>1. PICK fs, f, c, k : /\ fs = frames /\ f = Last(fs) /\ c = Head(f.body)
                           /\ k = Refusal(c.name, f.depth)
    OBVIOUS
  <1>2. PICK x : x = Error(k, c.name)
    OBVIOUS
  <1>3. /\ fs # <<>> /\ f.body # <<>> /\ c.t = "call" /\ k # Nil /\ Good(fs, sources, w)
        /\ frames' = Append(Front(fs), [f EXCEPT !.body = Tail(@), !.out = Append(@, x)])
    BY <1>1, <1>2 DEF Refuse, Emit, Awaits, Top, Part
  <1>4. /\ c \in AnyPart /\ PartKnown(c, f.depth, w) /\ f.depth \in 0 .. MaxDepth
    BY <1>1, <1>3, TopKnown DEF FrameFields
  <1>5. c.name \in Name /\ c.name \in w.known[f.depth]
    BY <1>3, <1>4, PartTypes DEF PartKnown, PartCalls
  <1>6. k \in Errors /\ (k = "not found" => sources[c.name] = Nil)
    BY <1>1, <1>3 DEF Refusal, Errors
  <1>7. k = "not found" => c.name \in w.absent
    BY <1>4, <1>5, <1>6, Zenon DEF WalkSays
  <1>8. x \in AnyPart /\ x.t = k /\ x.name = c.name
    BY <1>2, <1>5, <1>6, ErrorIsPart
  <1>9. x.t # "call" /\ x.t # "ref"
    BY <1>6, <1>8 DEF Errors
  <1>10. PartKnown(x, 0, w)
    <2>1. PartCalls(x) = {} /\ PartDefaults(x) = {}
      BY <1>9 DEF PartCalls, PartDefaults
    <2>2. QED
      BY <1>7, <1>8, <2>1 DEF PartKnown
  <1>11. Good(Append(Front(fs), [f EXCEPT !.body = Tail(@), !.out = Append(@, x)]), sources, w)
    BY <1>1, <1>3, <1>8, <1>9, <1>10, EmitGood
  <1>12. QED
    BY <1>3, <1>11, Zenon

LEMMA ReferGood ==
  ASSUME NEW w, WalkSays(w), Good(frames, sources, w), Refer
  PROVE  Good(frames', sources, w)
  <1>1. PICK fs, f, x, v : /\ fs = frames /\ f = Last(fs) /\ x = Head(f.body)
                           /\ v = Value(x, f.args)
    OBVIOUS
  <1>2. PICK b, h, g : /\ b = Tail(f.body) /\ h = [f EXCEPT !.body = b]
                       /\ g = Frame("param", Nil, v, f.args, f.depth)
    OBVIOUS
  <1>3. /\ fs # <<>> /\ f.body # <<>> /\ x.t = "ref" /\ Good(fs, sources, w)
        /\ frames' = Append(Append(Front(fs), [f EXCEPT !.body = Tail(@)]), g)
    BY <1>1, <1>2 DEF Refer, Awaits, Top, Part
  <1>4. /\ f \in FrameType /\ FrameFields(f) /\ FrameKnown(f, w)
        /\ x \in AnyPart /\ PartKnown(x, f.depth, w)
    BY <1>1, <1>3, TopKnown
  <1>5. b \in Seq(AnyPart) /\ TextKnown(b, f.depth, w)
    BY <1>2, <1>3, <1>4, HeadTail, RestKnown DEF FrameFields, FrameKnown
  <1>6. /\ h \in FrameType /\ h.kind = f.kind /\ h.name = f.name /\ h.args = f.args
        /\ h.depth = f.depth /\ h.body = b /\ h.bound = f.bound /\ h.out = f.out
        /\ h = [f EXCEPT !.body = Tail(@)]
    BY <1>2, <1>4, <1>5 DEF FrameType
  <1>7. FrameKnown(h, w)
    BY <1>4, <1>5, <1>6 DEF FrameKnown
  <1>8. PICK gs : gs = Append(Front(fs), h)
    OBVIOUS
  <1>9. Good(gs, sources, w) /\ gs # <<>>
    <2>1. h \in FrameType /\ h.kind = Last(fs).kind /\ h.name = Last(fs).name
      BY <1>1, <1>6, Zenon
    <2>2. fs # <<>> /\ Good(fs, sources, w)
      BY <1>3
    <2>3. QED
      BY <1>7, <1>8, <2>1, <2>2, Replace
  <1>10. f.depth \in 0 .. MaxDepth /\ w.over \subseteq w.known[f.depth]
    BY <1>4 DEF FrameFields, WalkSays
  <1>11. v \in Seq(AnyPart) /\ TextKnown(v, f.depth, w)
    BY <1>1, <1>3, <1>4, <1>10, ValueKnown DEF FrameFields, FrameKnown
  <1>12. /\ g \in FrameType /\ g.kind = "param" /\ g.name = Nil /\ g.body = v
         /\ g.args = f.args /\ g.depth = f.depth /\ g.bound = <<>> /\ g.out = <<>>
    BY <1>2, <1>4, <1>11 DEF Frame, FrameType, FrameFields
  <1>13. FrameKnown(g, w)
    BY <1>4, <1>11, <1>12, NothingKnown DEF FrameKnown
  <1>14. Nil \notin Name
    BY ConstantsAssumption
  <1>15. Good(Append(gs, g), sources, w)
    BY <1>9, <1>12, <1>13, <1>14, Push
  <1>16. QED
    BY <1>3, <1>6, <1>8, <1>15, Zenon

\* When a call is not refused.
LEMMA NotRefused ==
  ASSUME NEW n, NEW d \in 0 .. MaxDepth, Refusal(n, d) = Nil
  PROVE  sources[n] # Nil /\ n \notin Active /\ d + 1 <= MaxDepth
  <1>1. Nil \notin Errors /\ MaxDepth \in Nat
    BY ConstantsAssumption
  <1>2. sources[n] # Nil
    BY <1>1 DEF Refusal, Errors
  <1>3. n \notin Active
    BY <1>1, <1>2 DEF Refusal, Errors
  <1>4. ~(d + 1 > MaxDepth)
    BY <1>1, <1>2, <1>3 DEF Refusal, Errors
  <1>5. QED
    BY <1>1, <1>2, <1>3, <1>4

LEMMA TranscludeGood ==
  ASSUME WalkTypes, NEW w, WalkSays(w), Good(frames, sources, w), Transclude
  PROVE  Good(frames', sources, w) /\ frames' # <<>>
  <1>1. PICK fs, f, c, base : /\ fs = frames /\ f = Last(fs) /\ c = Head(f.body)
                              /\ base = Front(fs)
    OBVIOUS
  <1>2. /\ fs # <<>> /\ f.body # <<>> /\ c.t = "call" /\ Good(fs, sources, w)
        /\ Refusal(c.name, f.depth) = Nil
        /\ frames' = Descend(base, f)
    BY <1>1 DEF Transclude, Awaits, Top, Part
  <1>3. c \in AnyPart /\ f.depth \in 0 .. MaxDepth /\ fs \in Seq(FrameType)
    BY <1>1, <1>2, TopKnown DEF FrameFields
  <1>4. c.name \in Name /\ c.name # Nil /\ MaxDepth \in Nat
    BY <1>2, <1>3, PartTypes, ConstantsAssumption
  <1>5. sources[c.name] # Nil /\ c.name \notin Active /\ f.depth + 1 <= MaxDepth
    BY <1>2, <1>3, NotRefused
  <1>6. \A k \in 1 .. Len(fs) : fs[k].name # c.name
    BY <1>1, <1>3, <1>4, <1>5 DEF Active
  <1>7. Good(Descend(base, f), sources, w) /\ Descend(base, f) # <<>>
    BY <1>1, <1>2, <1>5, <1>6, DescendGood
  <1>8. QED
    BY <1>2, <1>7, Zenon

\* The call below an argument was at the call that gives it.
LEMMA BelowArgument ==
  ASSUME NEW src, NEW w, NEW fs, Good(fs, src, w), Len(fs) > 1, Last(fs).kind = "arg"
  PROVE  Waits(fs, Len(fs) - 1, src)
  <1>1. fs \in Seq(FrameType) /\ fs # <<>>
    BY DEF Good, Stack
  <1>2. Len(fs) \in 1 .. Len(fs) /\ Last(fs) = fs[Len(fs)]
    BY <1>1, FrontLast
  <1>3. QED
    BY <1>2 DEF Good, Stack

\* An argument is through: its output is bound, and the call goes on.
LEMMA BindGood ==
  ASSUME WalkTypes, NEW w, WalkSays(w), NEW fs, Good(fs, sources, w), Len(fs) > 1,
         NEW t, t = Last(fs), t.kind = "arg",
         NEW f, f = Last(Front(fs)), NEW v,
         v = [name |-> Head(f.body).args[Len(f.bound) + 1].name, value |-> t.out]
  PROVE  /\ Good(Descend(Front(Front(fs)), [f EXCEPT !.bound = Append(@, v)]), sources, w)
         /\ Descend(Front(Front(fs)), [f EXCEPT !.bound = Append(@, v)]) # <<>>
  <1>1. fs # <<>> /\ Len(fs) \in Nat
    BY DEF Good, Stack
  <1>2. PICK ps, c, n : ps = Front(fs) /\ c = Head(f.body) /\ n = Len(fs) - 1
    OBVIOUS
  <1>3. /\ Good(ps, sources, w) /\ ps # <<>> /\ Len(ps) = n /\ f = fs[n] /\ f = Last(ps)
        /\ n \in Nat /\ n >= 1
    <2>1. n \in Nat /\ n >= 1
      BY <1>1, <1>2
    <2>2. /\ Good(Front(fs), sources, w) /\ Front(fs) # <<>> /\ Len(Front(fs)) = Len(fs) - 1
          /\ Last(Front(fs)) = fs[Len(fs) - 1]
      BY Pop
    <2>3. QED
      BY <1>2, <2>1, <2>2, Zenon
  <1>4. t.out \in Seq(AnyPart) /\ OutKnown(t.out, w)
    BY <1>1, TopKnown DEF FrameFields, FrameKnown
  <1>5. /\ f.body # <<>> /\ c.t = "call" /\ Len(f.bound) < Len(c.args)
        /\ sources[c.name] # Nil /\ f.depth + 1 <= MaxDepth
        /\ \A k \in 1 .. n : fs[k].name # c.name
    <2>1. Waits(fs, n, sources)
      BY <1>2, BelowArgument
    <2>2. QED
      BY <1>2, <1>3, <2>1 DEF Waits
  <1>6. /\ f \in FrameType /\ FrameFields(f) /\ FrameKnown(f, w) /\ c \in AnyPart
    BY <1>2, <1>3, <1>5, TopKnown
  <1>7. v \in Binding /\ v.value = t.out
    <2>1. c.args \in Seq([name : STRING, body : Body])
      BY <1>5, <1>6, PartTypes
    <2>2. Len(f.bound) + 1 \in 1 .. Len(c.args)
      BY <1>5, <1>6, <2>1 DEF FrameFields
    <2>3. c.args[Len(f.bound) + 1].name \in STRING
      BY <1>5, <1>6, <2>2, ArgOfCall
    <2>4. QED
      BY <1>2, <1>4, <2>3 DEF Binding
  <1>8. PICK u : u = Append(f.bound, v)
    OBVIOUS
  <1>9. u \in Seq(Binding) /\ ArgsKnown(u, w)
    <2>1. /\ u \in Seq(Binding)
          /\ \A i \in 1 .. Len(f.bound) : u[i] = f.bound[i]
          /\ u[Len(f.bound) + 1] = v
          /\ 1 .. Len(u) = 1 .. Len(f.bound) \cup {Len(f.bound) + 1}
      BY <1>6, <1>7, <1>8, AppendOne DEF FrameFields
    <2>2. \A i \in 1 .. Len(f.bound) : OutKnown(f.bound[i].value, w)
      BY <1>6 DEF FrameKnown, ArgsKnown
    <2>3. OutKnown(v.value, w)
      BY <1>4, <1>7, Zenon
    <2>4. QED
      BY <2>1, <2>2, <2>3 DEF ArgsKnown
  <1>10. PICK g : g = [f EXCEPT !.bound = u]
    OBVIOUS
  <1>11. /\ g \in FrameType /\ g.kind = f.kind /\ g.name = f.name /\ g.args = f.args
         /\ g.depth = f.depth /\ g.body = f.body /\ g.bound = u /\ g.out = f.out
    BY <1>6, <1>9, <1>10 DEF FrameType
  <1>12. FrameKnown(g, w)
    BY <1>6, <1>9, <1>11 DEF FrameKnown
  <1>13. PICK qs, base : base = Front(ps) /\ qs = Append(base, g)
    OBVIOUS
  <1>14. /\ Good(qs, sources, w) /\ Len(qs) = n /\ qs # <<>> /\ Last(qs) = g /\ Front(qs) = base
    <2>1. g.kind = Last(ps).kind /\ g.name = Last(ps).name
      BY <1>3, <1>11, Zenon
    <2>2. Good(ps, sources, w) /\ ps # <<>> /\ g \in FrameType
      BY <1>3, <1>11
    <2>3. qs = Append(Front(ps), g)
      BY <1>13
    <2>4. /\ Good(qs, sources, w) /\ Len(qs) = Len(ps) /\ qs # <<>> /\ Last(qs) = g
          /\ Front(qs) = Front(ps)
      BY <1>12, <2>1, <2>2, <2>3, Replace
    <2>5. QED
      BY <1>3, <1>13, <2>4, Zenon
  <1>15. \A k \in 1 .. Len(qs) : qs[k].name # c.name
    <2>1. /\ Len(base) = n - 1 /\ base \in Seq(FrameType)
          /\ \A k \in 1 .. n - 1 : base[k] = fs[k]
      <3>1. fs \in Seq(FrameType) /\ ps \in Seq(FrameType)
        BY <1>3 DEF Good, Stack
      <3>2. \A k \in 1 .. n : ps[k] = fs[k]
        BY <1>1, <1>2, <3>1, FrontLast
      <3>3. Len(base) = n - 1 /\ base \in Seq(FrameType) /\ \A k \in 1 .. n - 1 : base[k] = ps[k]
        BY <1>3, <1>13, <3>1, FrontLast
      <3>4. QED
        BY <1>3, <3>2, <3>3
    <2>2. \A k \in 1 .. n - 1 : qs[k] = fs[k]
      <3>1. g \in FrameType
        BY <1>11
      <3>2. \A k \in 1 .. Len(base) : Append(base, g)[k] = base[k]
        BY <2>1, <3>1, AppendOne
      <3>3. QED
        BY <1>13, <2>1, <3>2
    <2>3. qs[n] = g
      BY <1>14 DEF Last
    <2>4. g.name # c.name
      <3>1. n \in 1 .. n
        BY <1>3
      <3>2. fs[n].name # c.name
        BY <1>5, <3>1, Zenon
      <3>3. QED
        BY <1>3, <1>11, <3>2, Zenon
    <2>5. QED
      BY <1>3, <1>5, <1>14, <2>2, <2>3, <2>4
  <1>16. c = Head(g.body)
    BY <1>2, <1>11, Zenon
  <1>17. Good(Descend(base, g), sources, w) /\ Descend(base, g) # <<>>
    <2>1. g.body # <<>> /\ g.depth + 1 <= MaxDepth
      BY <1>5, <1>11, Zenon
    <2>2. base = Front(qs) /\ g = Last(qs)
      BY <1>14
    <2>3. QED
      BY <1>5, <1>14, <1>15, <1>16, <2>1, <2>2, DescendGood
  <1>18. [f EXCEPT !.bound = Append(@, v)] = g
    BY <1>6, <1>8, <1>10 DEF FrameType
  <1>19. QED
    BY <1>2, <1>13, <1>17, <1>18, Zenon

\* A value or a body is through: the caller puts out its output.
LEMMA PutOutGood ==
  ASSUME NEW src, NEW w, NEW fs, Good(fs, src, w), Len(fs) > 1,
         NEW t, t = Last(fs), NEW f, f = Last(Front(fs))
  PROVE  /\ Good(Append(Front(Front(fs)), [f EXCEPT !.out = @ \o t.out]), src, w)
         /\ Append(Front(Front(fs)), [f EXCEPT !.out = @ \o t.out]) # <<>>
  <1>1. fs # <<>> /\ Len(fs) \in Nat
    BY DEF Good, Stack
  <1>2. PICK ps, o : ps = Front(fs) /\ o = f.out \o t.out
    OBVIOUS
  <1>3. Good(ps, src, w) /\ ps # <<>> /\ f = Last(ps)
    BY <1>2, Pop
  <1>4. t.out \in Seq(AnyPart) /\ OutKnown(t.out, w)
    BY <1>1, TopKnown DEF FrameFields, FrameKnown
  <1>5. f \in FrameType /\ FrameFields(f) /\ FrameKnown(f, w)
    BY <1>3, TopKnown
  <1>6. o \in Seq(AnyPart) /\ OutKnown(o, w)
    <2>1. f.out \in Seq(AnyPart) /\ OutKnown(f.out, w)
      BY <1>5 DEF FrameFields, FrameKnown
    <2>2. PICK x, y : x = f.out /\ y = t.out
      OBVIOUS
    <2>3. x \in Seq(AnyPart) /\ y \in Seq(AnyPart) /\ o = x \o y /\ OutKnown(x, w) /\ OutKnown(y, w)
      BY <1>2, <1>4, <2>1, <2>2
    <2>4. /\ o \in Seq(AnyPart) /\ Len(o) = Len(x) + Len(y) /\ Len(x) \in Nat /\ Len(y) \in Nat
          /\ \A i \in 1 .. Len(o) : o[i] = IF i <= Len(x) THEN x[i] ELSE y[i - Len(x)]
      BY <2>3
    <2>5. \A i \in 1 .. Len(o) :
            \/ i \in 1 .. Len(x) /\ o[i] = x[i]
            \/ i - Len(x) \in 1 .. Len(y) /\ o[i] = y[i - Len(x)]
      BY <2>4
    <2>6. \A i \in 1 .. Len(o) : o[i].t # "call" /\ PartKnown(o[i], 0, w)
      BY <2>3, <2>5, Zenon DEF OutKnown
    <2>7. QED
      BY <2>4, <2>6 DEF OutKnown
  <1>7. PICK g : g = [f EXCEPT !.out = o]
    OBVIOUS
  <1>8. /\ g \in FrameType /\ g.kind = f.kind /\ g.name = f.name /\ g.args = f.args
        /\ g.depth = f.depth /\ g.body = f.body /\ g.bound = f.bound /\ g.out = o
    BY <1>5, <1>6, <1>7 DEF FrameType
  <1>9. FrameKnown(g, w)
    BY <1>5, <1>6, <1>8 DEF FrameKnown
  <1>10. PICK gs : gs = Append(Front(ps), g)
    OBVIOUS
  <1>11. Good(gs, src, w) /\ gs # <<>>
    <2>1. g.kind = Last(ps).kind /\ g.name = Last(ps).name
      BY <1>3, <1>8, Zenon
    <2>2. QED
      BY <1>3, <1>8, <1>9, <1>10, <2>1, Replace
  <1>12. [f EXCEPT !.out = @ \o t.out] = g
    BY <1>2, <1>5, <1>7 DEF FrameType
  <1>13. QED
    BY <1>2, <1>10, <1>11, <1>12, Zenon

LEMMA ReturnGood ==
  ASSUME WalkTypes, NEW w, WalkSays(w), Good(frames, sources, w), Return
  PROVE  Good(frames', sources, w) /\ frames' # <<>>
  <1>1. PICK fs, t, f : fs = frames /\ t = Last(fs) /\ f = Last(Front(fs))
    OBVIOUS
  <1>2. PICK v : v = [name |-> Head(f.body).args[Len(f.bound) + 1].name, value |-> t.out]
    OBVIOUS
  <1>3. Len(fs) > 1 /\ Good(fs, sources, w)
    BY <1>1 DEF Return
  <1>4. CASE t.kind = "arg"
    <2>1. frames' = Descend(Front(Front(fs)), [f EXCEPT !.bound = Append(@, v)])
      BY <1>1, <1>2, <1>4 DEF Return, Top
    <2>2. /\ Good(Descend(Front(Front(fs)), [f EXCEPT !.bound = Append(@, v)]), sources, w)
          /\ Descend(Front(Front(fs)), [f EXCEPT !.bound = Append(@, v)]) # <<>>
      BY <1>1, <1>2, <1>3, <1>4, BindGood
    <2>3. QED
      BY <2>1, <2>2, Zenon
  <1>5. CASE t.kind # "arg"
    <2>1. frames' = Append(Front(Front(fs)), [f EXCEPT !.out = @ \o t.out])
      BY <1>1, <1>5 DEF Return, Top
    <2>2. /\ Good(Append(Front(Front(fs)), [f EXCEPT !.out = @ \o t.out]), sources, w)
          /\ Append(Front(Front(fs)), [f EXCEPT !.out = @ \o t.out]) # <<>>
      BY <1>1, <1>3, PutOutGood
    <2>3. QED
      BY <2>1, <2>2, Zenon
  <1>6. QED
    BY <1>4, <1>5

-----------------------------------------------------------------------------
(* The invariant is kept.                                                    *)

\* Without a running call there is nothing to be known.
LEMMA NoFrames ==
  ASSUME NEW fs, fs = <<>>, NEW src, NEW w
  PROVE  Good(fs, src, w)
  <1>1. fs \in Seq(FrameType) /\ 1 .. Len(fs) = {}
    OBVIOUS
  <1>2. QED
    BY <1>1 DEF Good, Stack, AllKnown

\* A step after the walk, or one that fails it, leaves what was seen alone.
LEMMA Expands ==
  ASSUME WalkTypes, WalkShape, frames' # <<>> => ~PassLeft,
         NEW lev \in [Name -> 0 .. MaxDepth + 1], Levels(lev), NEW w, w = Seen(lev),
         UNCHANGED <<page, store, rewritten, walk>>,
         Good(frames', sources, w), ResultTrue(result', w.absent)
  PROVE  IInv'
  <1>1. /\ page' = page /\ store' = store /\ rewritten' = rewritten /\ sources' = sources
        /\ wanted' = wanted /\ later' = later /\ passes' = passes
    BY DEF walk
  <1>2. WalkTypes' /\ Levels(lev)' /\ Seen(lev)' = Seen(lev)
    BY WalkKept
  <1>3. WalkShape'
    BY <1>1 DEF WalkShape, PassLeft
  <1>4. Stack(frames', sources')
    BY <1>1, Zenon DEF Good
  <1>5. AllKnown(frames', w) /\ Seen(lev)' = w
    BY <1>2, Zenon DEF Good
  <1>6. Told(lev)'
    BY <1>2, <1>5, Zenon DEF Told
  <1>7. QED
    BY <1>2, <1>3, <1>4, <1>6, Zenon DEF IInv

\* A lookup, or another request, while the templates are fetched.
LEMMA Walks ==
  ASSUME WalkTypes', WalkShape', frames' = <<>>, result' = Nil,
         NEW lev \in [Name -> 0 .. MaxDepth + 1], Levels(lev)'
  PROVE  IInv'
  <1>1. Good(frames', sources', Seen(lev)')
    BY NoFrames
  <1>2. ResultTrue(result', Seen(lev)'.absent)
    BY DEF ResultTrue
  <1>3. Told(lev)'
    BY <1>1, <1>2, Zenon DEF Told, Good
  <1>4. QED
    BY <1>1, <1>3, Zenon DEF IInv, Good

LEMMA IInvInit ==
  ASSUME Init
  PROVE  IInv
  <1>1. PICK lev : lev = [n \in Name |-> 0]
    OBVIOUS
  <1>2. WalkTypes /\ WalkShape /\ Levels(lev)
    BY <1>1, InitWalk, Zenon
  <1>3. frames = <<>> /\ result = Nil
    BY DEF Init
  <1>4. PICK w : w = Seen(lev)
    OBVIOUS
  <1>5. Good(frames, sources, w)
    BY <1>3, NoFrames
  <1>6. ResultTrue(result, w.absent)
    BY <1>3 DEF ResultTrue
  <1>7. Told(lev)
    BY <1>2, <1>4, <1>5, <1>6, Zenon DEF Told, Good
  <1>8. lev \in [Name -> 0 .. MaxDepth + 1]
    BY <1>2 DEF Levels
  <1>9. QED
    BY <1>2, <1>5, <1>7, <1>8, Zenon DEF IInv, Good

\* Every step keeps the invariant.
LEMMA IInvStep ==
  ASSUME IInv, [Next]_vars
  PROVE  IInv'
  <1>1. WalkTypes /\ WalkShape /\ Stack(frames, sources)
    BY DEF IInv
  <1>2. PICK lev \in [Name -> 0 .. MaxDepth + 1] : Told(lev)
    BY DEF IInv
  <1>3. PICK w : w = Seen(lev)
    OBVIOUS
  <1>4. Levels(lev) /\ Good(frames, sources, w) /\ ResultTrue(result, w.absent)
    BY <1>1, <1>2, <1>3, Zenon DEF Told, Good
  <1>5. ASSUME NEW n \in Name, Fetch(n) PROVE IInv'
    <2>1. WalkTypes' /\ WalkShape' /\ frames' = <<>> /\ result' = Nil
      BY <1>1, <1>5, FetchTypes
    <2>2. PICK lev2 : lev2 = IF sources[n] = Nil /\ store[n] # Nil
                             THEN [lev EXCEPT ![n] = passes + 1] ELSE lev
      OBVIOUS
    <2>3. Levels(lev2)'
      BY <1>1, <1>4, <1>5, <2>2, FetchLevels
    <2>4. lev2 \in [Name -> 0 .. MaxDepth + 1]
      BY <2>3 DEF Levels
    <2>5. QED
      BY <2>1, <2>3, <2>4, Walks
  <1>6. ASSUME NEW n \in Name, Rewrite(n) PROVE IInv'
    <2>1. WalkTypes' /\ WalkShape' /\ Levels(lev)' /\ frames' = <<>> /\ result' = Nil
      BY <1>1, <1>4, <1>6, RewriteWalk
    <2>2. QED
      BY <2>1, Walks
  <1>7. CASE FetchFails
    <2>1. /\ frames' = <<>> /\ result' = Failure /\ UNCHANGED <<page, store, rewritten, walk>>
      BY <1>7 DEF FetchFails, Walking
    <2>2. Good(frames', sources, w)
      BY <2>1, NoFrames
    <2>3. ResultTrue(result', w.absent)
      BY <2>1 DEF ResultTrue
    <2>4. QED
      BY <1>1, <1>3, <1>4, <2>1, <2>2, <2>3, Expands
  <1>8. ASSUME ~PassLeft PROVE WalkSays(w)
    BY <1>1, <1>3, <1>4, <1>8, SeenSays
  <1>9. ASSUME ~PassLeft, UNCHANGED <<page, store, rewritten, walk, result>>,
               Good(frames', sources, w)
        PROVE  IInv'
    <2>1. UNCHANGED <<page, store, rewritten, walk>> /\ ResultTrue(result', w.absent)
      BY <1>4, <1>9
    <2>2. QED
      BY <1>1, <1>3, <1>4, <1>9, <2>1, Expands
  <1>10. CASE Start
    <2>1. ~PassLeft /\ UNCHANGED <<page, store, rewritten, walk, result>>
          /\ frames' = <<Frame("page", Nil, page, <<>>, 0)>>
      BY <1>10 DEF Start
    <2>2. Good(<<Frame("page", Nil, page, <<>>, 0)>>, sources, w)
      BY <1>1, <1>8, <2>1, StartGood
    <2>3. Good(frames', sources, w)
      BY <2>1, <2>2, Zenon
    <2>4. QED
      BY <1>9, <2>1, <2>3
  <1>11. ASSUME frames # <<>> PROVE ~PassLeft /\ WalkSays(w)
    BY <1>1, <1>8, <1>11 DEF WalkShape
  <1>12. CASE Copy
    <2>1. frames # <<>> /\ UNCHANGED <<page, store, rewritten, walk, result>>
      BY <1>12 DEF Copy, Awaits, Emit
    <2>2. Good(frames', sources, w)
      BY <1>4, <1>12, CopyGood
    <2>3. QED
      BY <1>9, <1>11, <2>1, <2>2
  <1>13. CASE Refer
    <2>1. frames # <<>> /\ UNCHANGED <<page, store, rewritten, walk, result>>
      BY <1>13 DEF Refer, Awaits
    <2>2. Good(frames', sources, w)
      BY <1>4, <1>11, <1>13, <2>1, ReferGood
    <2>3. QED
      BY <1>9, <1>11, <2>1, <2>2
  <1>14. CASE Refuse
    <2>1. frames # <<>> /\ UNCHANGED <<page, store, rewritten, walk, result>>
      BY <1>14 DEF Refuse, Awaits, Emit
    <2>2. Good(frames', sources, w)
      BY <1>4, <1>11, <1>14, <2>1, RefuseGood
    <2>3. QED
      BY <1>9, <1>11, <2>1, <2>2
  <1>15. CASE Transclude
    <2>1. frames # <<>> /\ UNCHANGED <<page, store, rewritten, walk, result>>
      BY <1>15 DEF Transclude, Awaits
    <2>2. Good(frames', sources, w)
      BY <1>1, <1>4, <1>11, <1>15, <2>1, TranscludeGood
    <2>3. QED
      BY <1>9, <1>11, <2>1, <2>2
  <1>16. CASE Return
    <2>1. frames # <<>> /\ UNCHANGED <<page, store, rewritten, walk, result>>
      <3>1. Len(frames) > 1
        BY <1>16 DEF Return
      <3>2. frames # <<>>
        BY <3>1
      <3>3. QED
        BY <1>16, <3>2 DEF Return
    <2>2. Good(frames', sources, w)
      BY <1>1, <1>4, <1>11, <1>16, <2>1, ReturnGood
    <2>3. QED
      BY <1>9, <1>11, <2>1, <2>2
  <1>17. CASE Finish
    <2>1. /\ Len(frames) = 1 /\ frames' = <<>> /\ UNCHANGED <<page, store, rewritten, walk>>
          /\ result' = Last(frames).out
      BY <1>17 DEF Finish, Top
    <2>2. frames # <<>>
      BY <2>1
    <2>3. Good(frames', sources, w)
      BY <2>1, NoFrames
    <2>4. PICK f : f = Last(frames)
      OBVIOUS
    <2>5. f.out \in Seq(AnyPart) /\ OutKnown(f.out, w)
      BY <1>4, <2>2, <2>4, TopKnown DEF FrameFields, FrameKnown
    <2>6. ResultTrue(f.out, w.absent)
      <3>1. ASSUME NEW x \in ToSet(f.out), x.t = "not found" PROVE x.name \in w.absent
        <4>1. PICK i \in 1 .. Len(f.out) : x = f.out[i]
          BY <2>5, Positions
        <4>2. PartKnown(f.out[i], 0, w)
          BY <2>5 DEF OutKnown
        <4>3. QED
          BY <3>1, <4>1, <4>2 DEF PartKnown
      <3>2. QED
        BY <3>1 DEF ResultTrue
    <2>7. ResultTrue(result', w.absent)
      BY <2>1, <2>4, <2>6, Zenon
    <2>8. QED
      BY <1>1, <1>3, <1>4, <2>1, <2>3, <2>7, Expands
  <1>18. CASE UNCHANGED vars
    <2>1. /\ UNCHANGED <<page, store, rewritten, walk>> /\ frames' = frames /\ result' = result
      BY <1>18 DEF vars
    <2>2. Good(frames', sources, w) /\ ResultTrue(result', w.absent)
      BY <1>4, <2>1, Zenon
    <2>3. frames' # <<>> => ~PassLeft
      BY <1>11, <2>1
    <2>4. QED
      BY <1>1, <1>3, <1>4, <2>1, <2>2, <2>3, Expands
  <1>19. QED
    BY <1>5, <1>6, <1>7, <1>10, <1>12, <1>13, <1>14, <1>15, <1>16, <1>17, <1>18 DEF Next, Render

-----------------------------------------------------------------------------
(* Recursion over the numbers, and texts put one after the other.            *)

\* A recursion over the numbers, as far as N, and without end.
Upto(f, N, v, step) == f[0] = v /\ \A n \in Nat : n < N => f[n + 1] = step[n][f[n]]

Solves(f, v, step) == f[0] = v /\ \A n \in Nat : f[n + 1] = step[n][f[n]]

Total(V, step) == \A n \in Nat : \A u \in V : step[n][u] \in V

\* Two solutions are the same.
LEMMA RecursionOnce ==
  ASSUME NEW N \in Nat, NEW v, NEW step, NEW f, NEW g, Upto(f, N, v, step), Upto(g, N, v, step)
  PROVE  \A n \in Nat : n <= N => f[n] = g[n]
  <1> DEFINE T == {n \in Nat : n <= N /\ f[n] # g[n]}
  <1>1. SUFFICES ASSUME T # {} PROVE FALSE
    OBVIOUS
  <1>2. PICK n \in T : \A m \in T : n <= m
    BY <1>1, Least
  <1>3. n \in Nat /\ n # 0 /\ n <= N /\ f[n] # g[n]
    BY DEF Upto
  <1>4. PICK k \in Nat : n = k + 1 /\ k < N
    <2>1. n - 1 \in Nat /\ n = (n - 1) + 1 /\ n - 1 < N
      BY <1>3
    <2>2. QED
      BY <2>1
  <1>5. f[k] = g[k]
    <2>1. k \notin T /\ k <= N
      BY <1>2, <1>4
    <2>2. QED
      BY <2>1
  <1>6. f[k + 1] = g[k + 1]
    BY <1>4, <1>5 DEF Upto
  <1>7. QED
    BY <1>3, <1>4, <1>6

\* There is one.
LEMMA RecursionSome ==
  ASSUME NEW V, NEW v \in V, NEW step, Total(V, step)
  PROVE  \A n \in Nat : \E g : Upto(g, n, v, step) /\ \A k \in 0 .. n : g[k] \in V
  <1> DEFINE Some(n) == \E g : Upto(g, n, v, step) /\ \A k \in 0 .. n : g[k] \in V
             T == {n \in Nat : ~Some(n)}
  <1>1. SUFFICES ASSUME T # {} PROVE FALSE
    OBVIOUS
  <1>2. PICK n \in T : \A m \in T : n <= m
    BY <1>1, Least
  <1>3. CASE n = 0
    <2>1. PICK g : g = [i \in {0} |-> v]
      OBVIOUS
    <2>2. Upto(g, 0, v, step) /\ \A k \in 0 .. 0 : g[k] \in V
      BY <2>1 DEF Upto
    <2>3. QED
      BY <1>3, <2>2
  <1>4. CASE n # 0
    <2>1. PICK k \in Nat : n = k + 1
      <3>1. n - 1 \in Nat /\ n = (n - 1) + 1
        BY <1>4
      <3>2. QED
        BY <3>1
    <2>2. k \notin T
      BY <1>2, <2>1
    <2>3. PICK g : Upto(g, k, v, step) /\ \A i \in 0 .. k : g[i] \in V
      BY <2>2
    <2>4. PICK u : u = step[k][g[k]]
      OBVIOUS
    <2>5. u \in V
      BY <2>1, <2>3, <2>4 DEF Total
    <2>6. PICK h : h = [i \in 0 .. n |-> IF i <= k THEN g[i] ELSE u]
      OBVIOUS
    <2>7. /\ \A i \in 0 .. k : h[i] = g[i]
          /\ h[k + 1] = u
      BY <2>1, <2>6
    <2>8. ASSUME NEW i \in Nat, i < n PROVE h[i + 1] = step[i][h[i]]
      <3>1. CASE i < k
        <4>1. h[i + 1] = g[i + 1] /\ h[i] = g[i]
          BY <2>7, <3>1
        <4>2. g[i + 1] = step[i][g[i]]
          BY <2>3, <3>1 DEF Upto
        <4>3. QED
          BY <4>1, <4>2, Zenon
      <3>2. CASE i = k
        <4>1. h[k] = g[k]
          BY <2>7
        <4>2. QED
          BY <2>4, <2>7, <3>2, <4>1
      <3>3. QED
        BY <2>1, <2>8, <3>1, <3>2
    <2>9. Upto(h, n, v, step)
      <3>1. h[0] = v
        BY <2>3, <2>7 DEF Upto
      <3>2. QED
        BY <2>8, <3>1 DEF Upto
    <2>10. \A i \in 0 .. n : h[i] \in V
      <3>1. \A i \in 0 .. n : i \in 0 .. k \/ i = k + 1
        BY <2>1
      <3>2. QED
        BY <2>3, <2>5, <2>7, <3>1
    <2>11. QED
      BY <2>9, <2>10
  <1>5. QED
    BY <1>3, <1>4

\* A recursion over the numbers has a solution: the least number up to which it
\* has none would have one.
LEMMA Recursion ==
  ASSUME NEW V, NEW v \in V, NEW step, Total(V, step)
  PROVE  \E f \in [Nat -> V] : Solves(f, v, step)
  <1> DEFINE Some(g, n) == Upto(g, n, v, step) /\ \A k \in 0 .. n : g[k] \in V
             up(n) == CHOOSE g : Some(g, n)
  <1>1. ASSUME NEW n \in Nat PROVE Some(up(n), n)
    <2>1. \E g : Some(g, n)
      BY RecursionSome
    <2>2. QED
      BY <2>1, Zenon
  <1> HIDE DEF up
  <1>2. PICK f : f = [n \in Nat |-> up(n)[n]]
    OBVIOUS
  <1>3. \A n \in Nat : f[n] = up(n)[n] /\ f[n] \in V
    BY <1>1, <1>2
  <1>4. ASSUME NEW n \in Nat PROVE up(n)[n] = up(n + 1)[n]
    <2>1. PICK g, h : g = up(n) /\ h = up(n + 1)
      OBVIOUS
    <2>2. Upto(g, n, v, step) /\ Upto(h, n + 1, v, step)
      BY <1>1, <2>1
    <2>3. Upto(h, n, v, step)
      BY <2>2 DEF Upto
    <2>4. \A k \in Nat : k <= n => g[k] = h[k]
      BY <2>2, <2>3, RecursionOnce
    <2>5. QED
      BY <2>1, <2>4
  <1>5. ASSUME NEW n \in Nat PROVE f[n + 1] = step[n][f[n]]
    <2>1. f[n + 1] = up(n + 1)[n + 1] /\ f[n] = up(n)[n]
      BY <1>3
    <2>2. Upto(up(n + 1), n + 1, v, step)
      BY <1>1
    <2>3. up(n + 1)[n + 1] = step[n][up(n + 1)[n]]
      BY <2>2 DEF Upto
    <2>4. QED
      BY <1>4, <2>1, <2>3, Zenon
  <1>6. f[0] = v
    BY <1>1, <1>3 DEF Upto
  <1>7. f \in [Nat -> V]
    BY <1>2, <1>3
  <1>8. QED
    BY <1>5, <1>6, <1>7 DEF Solves

\* The prefixes of a flattened sequence.
Flattens(f, ss) ==
  /\ DOMAIN f = 1 .. Len(ss)
  /\ \A i \in 1 .. Len(ss) : f[i] = IF i = 1 THEN ss[1] ELSE f[i - 1] \o ss[i]

\* The fold that FlattenSeq is has one value for every prefix.
LEMMA FlattensOnce ==
  ASSUME NEW ss, Len(ss) \in Nat, NEW f, Flattens(f, ss), NEW g, Flattens(g, ss)
  PROVE  \A i \in 1 .. Len(ss) : f[i] = g[i]
  <1> DEFINE T == {i \in 1 .. Len(ss) : f[i] # g[i]}
  <1>1. SUFFICES ASSUME T # {} PROVE FALSE
    OBVIOUS
  <1>2. T \subseteq Nat
    OBVIOUS
  <1>3. PICK i \in T : \A j \in T : i <= j
    BY <1>1, <1>2, Least
  <1>4. i \in 1 .. Len(ss) /\ f[i] # g[i]
    OBVIOUS
  <1>5. i # 1
    BY <1>4 DEF Flattens
  <1>6. i - 1 \in 1 .. Len(ss) /\ ~(i <= i - 1)
    BY <1>4, <1>5
  <1>7. f[i - 1] = g[i - 1]
    BY <1>3, <1>6
  <1>8. QED
    BY <1>4, <1>5, <1>7 DEF Flattens

LEMMA FlattenPrefixes ==
  ASSUME NEW S, NEW ss \in Seq(Seq(S)), ss # <<>>
  PROVE  \E f : /\ Flattens(f, ss) /\ \A i \in 1 .. Len(ss) : f[i] \in Seq(S)
                /\ FlattenSeq(ss) = f[Len(ss)]
  <1>1. PICK V, N : V = Seq(S) /\ N = Len(ss)
    OBVIOUS
  <1>2. N \in Nat /\ N >= 1 /\ \A i \in 1 .. N : ss[i] \in V
    BY <1>1
  <1>3. \A u, w : u \in V /\ w \in V => u \o w \in V
    BY <1>1
  <1>4. PICK step : step = [n \in Nat |-> [u \in V |-> IF n + 2 <= N THEN u \o ss[n + 2] ELSE u]]
    OBVIOUS
  <1>5. \A n \in Nat : \A u \in V : step[n][u] = IF n + 2 <= N THEN u \o ss[n + 2] ELSE u
    BY <1>4
  <1>6. Total(V, step)
    <2>1. SUFFICES ASSUME NEW n \in Nat, NEW u \in V PROVE step[n][u] \in V
      BY DEF Total
    <2>2. n + 2 <= N => n + 2 \in 1 .. N
      BY <1>2
    <2>3. QED
      BY <1>2, <1>3, <1>5, <2>2
  <1>7. PICK g \in [Nat -> V] : g[0] = ss[1] /\ \A n \in Nat : g[n + 1] = step[n][g[n]]
    <2>1. PICK v : v = ss[1]
      OBVIOUS
    <2>2. v \in V
      BY <1>2, <2>1
    <2>3. \E g \in [Nat -> V] : Solves(g, v, step)
      BY <1>6, <2>2, Recursion, Zenon
    <2>4. QED
      BY <2>1, <2>3 DEF Solves
  <1>8. PICK f : f = [i \in 1 .. N |-> g[i - 1]]
    OBVIOUS
  <1>9. DOMAIN f = 1 .. N /\ \A i \in 1 .. N : f[i] = g[i - 1] /\ i - 1 \in Nat
    BY <1>2, <1>8
  <1>10. \A i \in 1 .. N : f[i] \in V
    BY <1>9
  <1>11. ASSUME NEW i \in 1 .. N PROVE f[i] = IF i = 1 THEN ss[1] ELSE f[i - 1] \o ss[i]
    <2>1. CASE i = 1
      <3>1. f[1] = g[1 - 1] /\ 1 - 1 = 0
        BY <1>9, <2>1
      <3>2. f[1] = ss[1]
        BY <1>7, <3>1
      <3>3. QED
        BY <2>1, <3>2
    <2>2. CASE i # 1
      <3>1. PICK n \in Nat : i = n + 2
        <4>1. i - 2 \in Nat /\ i = (i - 2) + 2
          BY <1>2, <2>2
        <4>2. QED
          BY <4>1
      <3>2. g[n] \in V /\ g[n + 1] = step[n][g[n]]
        BY <1>7
      <3>3. n + 2 <= N
        BY <1>2, <3>1
      <3>4. step[n][g[n]] = g[n] \o ss[n + 2]
        BY <1>5, <3>2, <3>3
      <3>5. f[i] = g[n + 1] /\ f[i - 1] = g[n]
        <4>1. i - 1 \in 1 .. N /\ i - 1 = n + 1 /\ (i - 1) - 1 = n
          BY <1>2, <2>2, <3>1
        <4>2. QED
          BY <1>9, <4>1
      <3>6. QED
        BY <2>2, <3>1, <3>2, <3>4, <3>5
    <2>3. QED
      BY <2>1, <2>2
  <1>12. Flattens(f, ss)
    BY <1>1, <1>9, <1>11 DEF Flattens
  <1>13. PICK E : E = [i \in 1 .. N |-> IF i = 1 THEN ss[i] ELSE f[i - 1] \o ss[i]]
    OBVIOUS
  <1>14. f = E
    <2>1. DOMAIN f = DOMAIN E /\ \A i \in DOMAIN f : f[i] = E[i]
      BY <1>9, <1>11, <1>13
    <2>2. f = [i \in 1 .. N |-> f[i]] /\ E = [i \in 1 .. N |-> E[i]]
      BY <1>8, <1>9, <1>13
    <2>3. QED
      BY <2>1, <2>2, <1>9
  <1>15. PICK fl : fl = CHOOSE h : h = [i \in 1 .. Len(ss) |-> IF i = 1 THEN ss[i] ELSE h[i - 1] \o ss[i]]
    OBVIOUS
  <1>16. fl = [i \in 1 .. Len(ss) |-> IF i = 1 THEN ss[i] ELSE fl[i - 1] \o ss[i]]
    <2>1. f = [i \in 1 .. Len(ss) |-> IF i = 1 THEN ss[i] ELSE f[i - 1] \o ss[i]]
      BY <1>1, <1>13, <1>14, Zenon
    <2>2. QED
      BY <1>15, <2>1, Zenon
  <1>17. FlattenSeq(ss) = fl[Len(ss)]
    <2>1. Len(ss) # 0
      BY <1>1, <1>2
    <2>2. PICK x : x = FlattenSeq(ss)
      OBVIOUS
    <2>3. x = (CHOOSE h : h = [i \in 1 .. Len(ss) |-> IF i = 1 THEN ss[i] ELSE h[i - 1] \o ss[i]])[Len(ss)]
      BY <2>1, <2>2, Zenon DEF FlattenSeq
    <2>4. QED
      BY <1>15, <2>2, <2>3, Zenon
  <1>18. Flattens(fl, ss)
    BY <1>16 DEF Flattens
  <1>19. \A i \in 1 .. N : fl[i] = f[i]
    BY <1>1, <1>2, <1>12, <1>18, FlattensOnce, Zenon
  <1>20. QED
    <2>1. N \in 1 .. N
      BY <1>2
    <2>2. FlattenSeq(ss) = f[N]
      BY <1>1, <1>17, <1>19, <2>1, Zenon
    <2>3. QED
      BY <1>1, <1>10, <1>12, <2>2, Zenon

LEMMA FlattenNothing ==
  FlattenSeq(<<>>) = <<>>
  <1>1. Len(<<>>) = 0
    OBVIOUS
  <1>2. QED
    BY <1>1, Zenon DEF FlattenSeq

\* The texts of a sequence one after the other: the first, then the others.
LEMMA FlattenFirst ==
  ASSUME NEW S, NEW ss \in Seq(Seq(S)), ss # <<>>
  PROVE  /\ FlattenSeq(ss) \in Seq(S)
         /\ FlattenSeq(ss) = Head(ss) \o FlattenSeq(Tail(ss))
  <1>1. PICK N : N = Len(ss)
    OBVIOUS
  <1>2. PICK f : /\ Flattens(f, ss) /\ \A i \in 1 .. Len(ss) : f[i] \in Seq(S)
                 /\ FlattenSeq(ss) = f[Len(ss)]
    BY FlattenPrefixes, Zenon
  <1>3. N \in Nat /\ N >= 1 /\ N \in 1 .. N /\ Head(ss) = ss[1] /\ ss[1] \in Seq(S)
    BY <1>1
  <1>4. PICK ts : ts = Tail(ss)
    OBVIOUS
  <1>5. /\ ts \in Seq(Seq(S)) /\ Len(ts) = N - 1
        /\ \A i \in 1 .. N - 1 : ts[i] = ss[i + 1] /\ ts[i] \in Seq(S)
    BY <1>1, <1>3, <1>4
  <1>6. FlattenSeq(ss) \in Seq(S)
    BY <1>1, <1>2, <1>3
  <1>7. \A x, y, z \in Seq(S) : (x \o y) \o z = x \o (y \o z)
    BY ConcatAssociative
  <1>8. CASE N = 1
    <2>1. ts = <<>>
      BY <1>5, <1>8
    <2>2. FlattenSeq(ss) = ss[1]
      BY <1>1, <1>2, <1>3, <1>8 DEF Flattens
    <2>3. ss[1] \o <<>> = ss[1]
      BY <1>3
    <2>4. QED
      BY <1>3, <1>4, <1>6, <2>1, <2>2, <2>3, FlattenNothing, Zenon
  <1>9. CASE N # 1
    <2>1. ts # <<>> /\ N - 1 \in Nat /\ N - 1 \in 1 .. N - 1
      BY <1>3, <1>5, <1>9
    <2>2. PICK g : /\ Flattens(g, ts) /\ \A i \in 1 .. Len(ts) : g[i] \in Seq(S)
                   /\ FlattenSeq(ts) = g[Len(ts)]
      BY <1>5, <2>1, FlattenPrefixes, Zenon
    <2> DEFINE T == {i \in 1 .. N - 1 : f[i + 1] # ss[1] \o g[i]}
    <2>3. ASSUME T # {} PROVE FALSE
      <3>1. T \subseteq Nat
        <4>1. T \subseteq 1 .. N - 1
          BY Zenon
        <4> HIDE DEF T
        <4>2. QED
          BY <1>3, <4>1
      <3>2. PICK i \in T : \A j \in T : i <= j
        BY <2>3, <3>1, Least
      <3>3. i \in 1 .. N - 1 /\ i + 1 \in 1 .. N /\ i + 1 # 1 /\ (i + 1) - 1 = i /\ i \in 1 .. N
        BY <1>3
      <3>4. f[i + 1] # ss[1] \o g[i]
        OBVIOUS
      <3>5. f[i + 1] = f[i] \o ss[i + 1]
        BY <1>1, <1>2, <3>3 DEF Flattens
      <3>6. CASE i = 1
        <4>1. f[1] = ss[1]
          <5>1. 1 \in 1 .. Len(ss)
            BY <1>1, <1>3
          <5>2. QED
            BY <1>2, <5>1 DEF Flattens
        <4>2. g[1] = ts[1] /\ ts[1] = ss[1 + 1]
          BY <1>5, <2>2, <3>3, <3>6 DEF Flattens
        <4>3. QED
          BY <3>4, <3>5, <3>6, <4>1, <4>2
      <3>7. CASE i # 1
        <4>1. PICK k \in 1 .. N - 1 : i = k + 1 /\ k = i - 1 /\ ~(i <= k)
          <5>1. i - 1 \in 1 .. N - 1 /\ i = (i - 1) + 1 /\ ~(i <= i - 1)
            BY <1>3, <3>3, <3>7
          <5>2. QED
            BY <5>1
        <4>2. f[i] = ss[1] \o g[k]
          BY <3>2, <4>1
        <4>3. g[i] = g[k] \o ss[i + 1]
          <5>1. g[i] = g[k] \o ts[i]
            BY <1>5, <2>2, <3>3, <3>7, <4>1 DEF Flattens
          <5>2. QED
            BY <1>5, <3>3, <5>1
        <4>4. g[k] \in Seq(S) /\ ss[i + 1] \in Seq(S)
          BY <1>5, <2>2, <3>3, <4>1
        <4>5. (ss[1] \o g[k]) \o ss[i + 1] = ss[1] \o (g[k] \o ss[i + 1])
          <5>1. PICK x, y, z : x = ss[1] /\ y = g[k] /\ z = ss[i + 1]
            OBVIOUS
          <5>2. x \in Seq(S) /\ y \in Seq(S) /\ z \in Seq(S)
            BY <1>3, <4>4, <5>1
          <5>3. (x \o y) \o z = x \o (y \o z)
            BY <1>7, <5>2, Zenon
          <5>4. QED
            BY <5>1, <5>3, Zenon
        <4>6. QED
          BY <3>4, <3>5, <4>2, <4>3, <4>5, Zenon
      <3>8. QED
        BY <3>6, <3>7
    <2>4. f[(N - 1) + 1] = ss[1] \o g[N - 1]
      BY <2>1, <2>3
    <2>5. f[N] = ss[1] \o g[N - 1]
      <3>1. (N - 1) + 1 = N
        BY <1>3
      <3>2. QED
        BY <2>4, <3>1, Zenon
    <2>6. QED
      BY <1>1, <1>2, <1>3, <1>4, <1>5, <1>6, <2>2, <2>5, Zenon
  <1>10. QED
    BY <1>8, <1>9

-----------------------------------------------------------------------------
(* What a text says, part by part.                                           *)

\* Part by part: what h says of each part, one after the other.
Say(h, s) == FlattenSeq([i \in DOMAIN s |-> h[s[i]]])

Says == [AnyPart -> Seq(AnyPart)]

\* A function at every element of a sequence.
LEMMA Mapped ==
  ASSUME NEW S, NEW V, NEW h \in [S -> V], NEW s \in Seq(S),
         NEW ss, ss = [i \in DOMAIN s |-> h[s[i]]]
  PROVE  /\ ss \in Seq(V) /\ Len(ss) = Len(s) /\ Len(s) \in Nat
         /\ \A i \in 1 .. Len(s) : ss[i] = h[s[i]]
  <1>1. PICK n : n = Len(s)
    OBVIOUS
  <1>2. n \in Nat /\ DOMAIN s = 1 .. n /\ \A i \in 1 .. n : s[i] \in S
    BY <1>1
  <1>3. \A i \in 1 .. n : h[s[i]] \in V
    BY <1>2
  <1>4. ss = [i \in 1 .. n |-> h[s[i]]]
    BY <1>2
  <1>5. ss \in Seq(V) /\ Len(ss) = n /\ \A i \in 1 .. n : ss[i] = h[s[i]]
    BY <1>2, <1>3, <1>4
  <1>6. QED
    BY <1>1, <1>2, <1>5

LEMMA SayTexts ==
  ASSUME NEW h \in Says, NEW s \in Seq(AnyPart)
  PROVE  Say(h, s) \in Seq(AnyPart)
  <1>1. PICK ss, V : ss = [i \in DOMAIN s |-> h[s[i]]] /\ V = Seq(AnyPart)
    OBVIOUS
  <1>2. h \in [AnyPart -> V]
    BY <1>1 DEF Says
  <1>3. ss \in Seq(Seq(AnyPart))
    BY <1>1, <1>2, Mapped
  <1>4. CASE ss = <<>>
    <2>1. Say(h, s) = <<>>
      BY <1>1, <1>4, FlattenNothing, Zenon DEF Say
    <2>2. QED
      BY <2>1
  <1>5. CASE ss # <<>>
    <2>1. FlattenSeq(ss) \in Seq(AnyPart)
      BY <1>3, <1>5, FlattenFirst
    <2>2. QED
      BY <1>1, <2>1, Zenon DEF Say
  <1>6. QED
    BY <1>4, <1>5

LEMMA SayNothing ==
  ASSUME NEW h
  PROVE  Say(h, <<>>) = <<>>
  <1>1. [i \in DOMAIN <<>> |-> h[<<>>[i]]] = <<>>
    OBVIOUS
  <1>2. QED
    BY <1>1, FlattenNothing, Zenon DEF Say

\* What a text says is what its first part says, then what the others say.
LEMMA SayFirst ==
  ASSUME NEW h \in Says, NEW s \in Seq(AnyPart), s # <<>>
  PROVE  Say(h, s) = h[Head(s)] \o Say(h, Tail(s))
  <1>1. PICK ss, r, ts, V : /\ ss = [i \in DOMAIN s |-> h[s[i]]]
                            /\ r = Tail(s) /\ ts = [i \in DOMAIN r |-> h[r[i]]]
                            /\ V = Seq(AnyPart)
    OBVIOUS
  <1>2. /\ Len(s) \in Nat /\ Len(s) >= 1 /\ Head(s) = s[1]
        /\ r \in Seq(AnyPart) /\ Len(r) = Len(s) - 1
        /\ \A i \in 1 .. Len(s) - 1 : r[i] = s[i + 1] /\ i + 1 \in 1 .. Len(s)
    BY <1>1
  <1>3. h \in [AnyPart -> V]
    BY <1>1 DEF Says
  <1>4. ss \in Seq(V) /\ Len(ss) = Len(s) /\ \A i \in 1 .. Len(s) : ss[i] = h[s[i]]
    <2>1. ss = [i \in DOMAIN s |-> h[s[i]]]
      BY <1>1
    <2>2. QED
      BY <1>3, <2>1, Mapped
  <1>5. ts \in Seq(V) /\ Len(ts) = Len(r) /\ \A i \in 1 .. Len(r) : ts[i] = h[r[i]]
    <2>1. ts = [i \in DOMAIN r |-> h[r[i]]] /\ r \in Seq(AnyPart)
      BY <1>1, <1>2
    <2>2. QED
      BY <1>3, <2>1, Mapped
  <1>6. ss # <<>> /\ Head(ss) = h[Head(s)]
    BY <1>2, <1>4
  <1>7. ts = Tail(ss)
    <2>1. /\ Tail(ss) \in Seq(V) /\ Len(Tail(ss)) = Len(s) - 1
          /\ \A i \in 1 .. Len(s) - 1 : Tail(ss)[i] = ss[i + 1]
      BY <1>4, <1>6
    <2>2. \A i \in 1 .. Len(s) - 1 : Tail(ss)[i] = ts[i]
      <3>1. SUFFICES ASSUME NEW i \in 1 .. Len(s) - 1 PROVE Tail(ss)[i] = ts[i]
        OBVIOUS
      <3>2. i \in 1 .. Len(r) /\ i + 1 \in 1 .. Len(s) /\ r[i] = s[i + 1]
        BY <1>2
      <3>3. ts[i] = h[r[i]] /\ ss[i + 1] = h[s[i + 1]] /\ Tail(ss)[i] = ss[i + 1]
        BY <1>4, <1>5, <2>1, <3>2
      <3>4. QED
        BY <3>2, <3>3
    <2>3. QED
      BY <1>2, <1>5, <2>1, <2>2, SeqEqual
  <1>8. FlattenSeq(ss) = Head(ss) \o FlattenSeq(Tail(ss))
    BY <1>1, <1>4, <1>6, FlattenFirst
  <1>9. QED
    BY <1>1, <1>6, <1>7, <1>8, Zenon DEF Say

\* Where every part is said as it is, so is the text.
Plain(h, s) == \A i \in 1 .. Len(s) : h[s[i]] = <<s[i]>>

\* Parts that say themselves are a text that says itself.
LEMMA SayPlain ==
  ASSUME NEW h \in Says
  PROVE  \A s \in Seq(AnyPart) : Plain(h, s) => Say(h, s) = s
  <1> DEFINE D == {s \in Seq(AnyPart) : Plain(h, s) /\ Say(h, s) # s}
             T == {Len(s) : s \in D}
  <1>1. SUFFICES ASSUME D # {} PROVE FALSE
    OBVIOUS
  <1>2. T \subseteq Nat /\ T # {}
    <2>1. \A s \in D : s \in Seq(AnyPart)
      OBVIOUS
    <2>2. \A s \in D : Len(s) \in Nat
      BY <2>1
    <2> HIDE DEF D
    <2>3. QED
      BY <1>1, <2>2
  <1>3. PICK m \in T : \A k \in T : m <= k
    BY <1>2, Least
  <1>4. PICK s \in D : m = Len(s)
    OBVIOUS
  <1>5. s \in Seq(AnyPart) /\ Plain(h, s) /\ Say(h, s) # s
    OBVIOUS
  <1>6. s # <<>>
    BY <1>5, SayNothing
  <1>7. /\ Len(s) \in Nat /\ 1 \in 1 .. Len(s) /\ Head(s) = s[1] /\ Head(s) \in AnyPart
        /\ Tail(s) \in Seq(AnyPart)
        /\ \A i \in 1 .. Len(Tail(s)) : i + 1 \in 1 .. Len(s) /\ Tail(s)[i] = s[i + 1]
    BY <1>5, <1>6, HeadTail
  <1>8. PICK x, t : x = Head(s) /\ t = Tail(s)
    OBVIOUS
  <1>9. t \in Seq(AnyPart) /\ Plain(h, t)
    BY <1>5, <1>7, <1>8 DEF Plain
  <1>10. Len(t) < Len(s) /\ Len(t) \in Nat
    BY <1>5, <1>6, <1>8
  <1>11. Say(h, t) = t
    <2>1. ASSUME t \in D PROVE FALSE
      <3>1. Len(t) \in T
        BY <2>1
      <3>2. QED
        BY <1>3, <1>4, <1>7, <1>10, <3>1
    <2>2. QED
      BY <1>9, <2>1
  <1>12. Say(h, s) = <<x>> \o t
    <2>1. h[x] = <<x>>
      BY <1>5, <1>7, <1>8 DEF Plain
    <2>2. QED
      BY <1>5, <1>6, <1>8, <1>11, <2>1, SayFirst
  <1>13. <<x>> \o t = s
    BY <1>5, <1>6, <1>8
  <1>14. QED
    BY <1>5, <1>12, <1>13

Places == Body \X Seq(Binding)

Meanings == [Places -> Seq(AnyPart)]

\* The arguments of a call, as what they say in a scope.
Meant(m, x, args) ==
  [i \in DOMAIN x.args |-> [name |-> x.args[i].name, value |-> m[<<x.args[i].body, args>>]]]

\* The scope of the template called: every argument under its name.
LEMMA MeantTypes ==
  ASSUME NEW m \in Meanings, NEW x \in AnyPart, x.t = "call", NEW args \in Seq(Binding)
  PROVE  /\ Meant(m, x, args) \in Seq(Binding) /\ Len(Meant(m, x, args)) = Len(x.args)
         /\ Len(x.args) \in Nat
         /\ \A i \in 1 .. Len(x.args) :
              /\ x.args[i].body \in Body
              /\ Meant(m, x, args)[i].name = x.args[i].name
              /\ Meant(m, x, args)[i].value = m[<<x.args[i].body, args>>]
              /\ m[<<x.args[i].body, args>>] \in Seq(AnyPart)
  <1>1. x.args \in Seq([name : STRING, body : Body])
    BY PartTypes
  <1>2. PICK as, n : as = x.args /\ n = Len(as)
    OBVIOUS
  <1>3. n \in Nat /\ DOMAIN as = 1 .. n /\ \A i \in 1 .. n : as[i] \in [name : STRING, body : Body]
    <2>1. PICK A : A = [name : STRING, body : Body]
      OBVIOUS
    <2>2. as \in Seq(A)
      BY <1>1, <1>2, <2>1
    <2>3. n \in Nat /\ DOMAIN as = 1 .. n /\ \A i \in 1 .. n : as[i] \in A
      BY <1>2, <2>2
    <2>4. QED
      BY <2>1, <2>3
  <1>4. \A i \in 1 .. n : as[i].name \in STRING /\ as[i].body \in Body
    BY <1>3
  <1>5. \A i \in 1 .. n : m[<<as[i].body, args>>] \in Seq(AnyPart)
    <2>1. SUFFICES ASSUME NEW i \in 1 .. n PROVE m[<<as[i].body, args>>] \in Seq(AnyPart)
      OBVIOUS
    <2>2. <<as[i].body, args>> \in Places
      BY <1>4 DEF Places
    <2>3. QED
      BY <2>2 DEF Meanings
  <1>6. PICK ms : ms = [i \in 1 .. n |-> [name |-> as[i].name, value |-> m[<<as[i].body, args>>]]]
    OBVIOUS
  <1>7. Meant(m, x, args) = ms
    BY <1>2, <1>3, <1>6 DEF Meant
  <1>8. \A i \in 1 .. n : /\ ms[i] \in Binding /\ ms[i].name = as[i].name
                          /\ ms[i].value = m[<<as[i].body, args>>]
    BY <1>4, <1>5, <1>6 DEF Binding
  <1>9. ms \in Seq(Binding) /\ Len(ms) = n
    <2>1. PICK e : e = [i \in 1 .. n |-> ms[i]]
      OBVIOUS
    <2>2. e = ms
      BY <1>6, <2>1
    <2>3. e \in Seq(Binding) /\ Len(e) = n
      <3>1. \A i \in 1 .. n : ms[i] \in Binding
        BY <1>8, Zenon
      <3>2. n \in Nat
        BY <1>3
      <3>3. QED
        BY <2>1, <3>1, <3>2
    <2>4. QED
      BY <2>2, <2>3
  <1>10. QED
    BY <1>2, <1>3, <1>4, <1>5, <1>7, <1>8, <1>9

\* A call that says something says the body of its template.
LEMMA CallSaysTypes ==
  ASSUME NEW src \in Fetchable, NEW m \in Meanings, NEW x \in AnyPart, NEW args \in Seq(Binding)
  PROVE  /\ CallSays(src, m, x, args) \in Seq(AnyPart)
         /\ x.t = "call" /\ src[x.name] # Nil =>
              CallSays(src, m, x, args) = m[<<src[x.name], Meant(m, x, args)>>]
         /\ ~(x.t = "call" /\ src[x.name] # Nil) => CallSays(src, m, x, args) = <<x>>
  <1>1. CASE x.t = "call" /\ src[x.name] # Nil
    <2>1. Meant(m, x, args) \in Seq(Binding)
      BY <1>1, MeantTypes
    <2>2. src[x.name] \in Body
      BY <1>1, PartTypes DEF Fetchable
    <2>3. CallSays(src, m, x, args) = m[<<src[x.name], Meant(m, x, args)>>]
      BY <1>1, Zenon DEF CallSays, Meant
    <2>4. PICK b, ms : b = src[x.name] /\ ms = Meant(m, x, args)
      OBVIOUS
    <2>5. <<b, ms>> \in Places
      BY <2>1, <2>2, <2>4 DEF Places
    <2>6. m[<<b, ms>>] \in Seq(AnyPart)
      BY <2>5 DEF Meanings
    <2>7. QED
      BY <1>1, <2>3, <2>4, <2>6, Zenon
  <1>2. CASE ~(x.t = "call" /\ src[x.name] # Nil)
    <2>1. CallSays(src, m, x, args) = <<x>>
      BY <1>2, Zenon DEF CallSays
    <2>2. <<x>> \in Seq(AnyPart)
      OBVIOUS
    <2>3. QED
      BY <1>2, <2>1, <2>2, Zenon
  <1>3. QED
    BY <1>1, <1>2, Zenon

\* What parts say in a scope; in a default, where there are only calls; and on
\* the page.
CallsSay(src, m, args) == [x \in AnyPart |-> CallSays(src, m, x, args)]

PartsSay(src, m, args) == [x \in AnyPart |-> PartSays(src, m, x, args)]

PageParts(src, m) ==
  [x \in AnyPart |-> IF x.t = "ref" THEN <<x>> ELSE CallSays(src, m, x, <<>>)]

LEMMA CallsSayTypes ==
  ASSUME NEW src \in Fetchable, NEW m \in Meanings, NEW args \in Seq(Binding)
  PROVE  /\ CallsSay(src, m, args) \in Says
         /\ \A x \in AnyPart : CallsSay(src, m, args)[x] = CallSays(src, m, x, args)
  <1>1. \A x \in AnyPart : CallSays(src, m, x, args) \in Seq(AnyPart)
    BY CallSaysTypes
  <1>2. QED
    BY <1>1 DEF CallsSay, Says

LEMMA RefSaysTypes ==
  ASSUME NEW src \in Fetchable, NEW m \in Meanings, NEW x \in AnyPart, x.t = "ref",
         NEW args \in Seq(Binding)
  PROVE  /\ RefSays(src, m, x, args) \in Seq(AnyPart)
         /\ Given(x, args) # {} =>
              /\ Min(Given(x, args)) \in 1 .. Len(args)
              /\ RefSays(src, m, x, args) = args[Min(Given(x, args))].value
         /\ Given(x, args) = {} /\ x.default # Nil =>
              x.default \in Body /\ RefSays(src, m, x, args) = Say(CallsSay(src, m, args), x.default)
         /\ Given(x, args) = {} /\ x.default = Nil => RefSays(src, m, x, args) = <<x>>
  <1>1. CASE Given(x, args) # {}
    <2>1. PICK i \in 1 .. Len(args) : i = Min(Given(x, args))
      BY <1>1, FirstGiven
    <2>2. RefSays(src, m, x, args) = args[i].value
      BY <1>1, <2>1, Zenon DEF RefSays
    <2>3. args[i] \in Binding
      OBVIOUS
    <2>4. args[i].value \in Seq(AnyPart)
      BY <2>3 DEF Binding
    <2>5. QED
      BY <1>1, <2>1, <2>2, <2>4, Zenon
  <1>2. CASE Given(x, args) = {} /\ x.default # Nil
    <2>1. PICK b : b = x.default
      OBVIOUS
    <2>2. b \in Body /\ b \in Seq(AnyPart)
      BY <1>2, <2>1, PartTypes, TextsAreParts
    <2>3. RefSays(src, m, x, args) = FlattenSeq([i \in DOMAIN b |-> CallSays(src, m, b[i], args)])
      BY <1>2, <2>1, Zenon DEF RefSays
    <2>4. PICK h : h = CallsSay(src, m, args)
      OBVIOUS
    <2>5. h \in Says /\ \A y \in AnyPart : h[y] = CallSays(src, m, y, args)
      BY <2>4, CallsSayTypes
    <2>6. [i \in DOMAIN b |-> CallSays(src, m, b[i], args)] = [i \in DOMAIN b |-> h[b[i]]]
      <3>1. \A i \in DOMAIN b : b[i] \in AnyPart
        BY <2>2
      <3>2. QED
        BY <2>5, <3>1, Zenon
    <2>7. Say(h, b) \in Seq(AnyPart)
      BY <2>2, <2>5, SayTexts
    <2>8. RefSays(src, m, x, args) = Say(h, b)
      BY <2>3, <2>6, Zenon DEF Say
    <2>9. QED
      BY <1>2, <2>1, <2>2, <2>4, <2>7, <2>8, Zenon
  <1>3. CASE Given(x, args) = {} /\ x.default = Nil
    <2>1. RefSays(src, m, x, args) = <<x>>
      BY <1>3, Zenon DEF RefSays
    <2>2. <<x>> \in Seq(AnyPart)
      OBVIOUS
    <2>3. QED
      BY <1>3, <2>1, <2>2, Zenon
  <1>4. QED
    BY <1>1, <1>2, <1>3, Zenon

LEMMA PartsSayTypes ==
  ASSUME NEW src \in Fetchable, NEW m \in Meanings, NEW args \in Seq(Binding)
  PROVE  /\ PartsSay(src, m, args) \in Says
         /\ \A x \in AnyPart : PartsSay(src, m, args)[x] =
              IF x.t = "ref" THEN RefSays(src, m, x, args) ELSE CallSays(src, m, x, args)
  <1>1. \A x \in AnyPart : /\ CallSays(src, m, x, args) \in Seq(AnyPart)
                           /\ x.t = "ref" => RefSays(src, m, x, args) \in Seq(AnyPart)
    BY CallSaysTypes, RefSaysTypes
  <1>2. \A x \in AnyPart : PartSays(src, m, x, args) \in Seq(AnyPart)
    BY <1>1 DEF PartSays
  <1>3. QED
    BY <1>2 DEF PartsSay, Says, PartSays

LEMMA PagePartsTypes ==
  ASSUME NEW src \in Fetchable, NEW m \in Meanings
  PROVE  /\ PageParts(src, m) \in Says
         /\ \A x \in AnyPart : PageParts(src, m)[x] =
              IF x.t = "ref" THEN <<x>> ELSE CallSays(src, m, x, <<>>)
  <1>1. PICK none : none = <<>>
    OBVIOUS
  <1>2. none \in Seq(Binding)
    BY <1>1
  <1>3. \A x \in AnyPart : CallSays(src, m, x, none) \in Seq(AnyPart)
    BY <1>2, CallSaysTypes
  <1>4. \A x \in AnyPart : <<x>> \in Seq(AnyPart)
    OBVIOUS
  <1>5. PageParts(src, m) = [x \in AnyPart |-> IF x.t = "ref" THEN <<x>> ELSE CallSays(src, m, x, none)]
    BY <1>1, Zenon DEF PageParts
  <1>6. QED
    BY <1>1, <1>3, <1>4, <1>5 DEF Says

\* What texts mean when calls may nest one deeper than in m.
Deeper(src, m) ==
  [p \in Places |-> FlattenSeq([i \in DOMAIN p[1] |-> PartSays(src, m, p[1][i], p[2])])]

\* One level of nesting further.
LEMMA DeeperSays ==
  ASSUME NEW src \in Fetchable, NEW m \in Meanings, NEW b \in Body, NEW args \in Seq(Binding)
  PROVE  /\ Deeper(src, m)[<<b, args>>] = Say(PartsSay(src, m, args), b)
         /\ Deeper(src, m)[<<b, args>>] \in Seq(AnyPart)
  <1>1. PICK h : h = PartsSay(src, m, args)
    OBVIOUS
  <1>2. h \in Says
    BY <1>1, PartsSayTypes
  <1>3. b \in Seq(AnyPart)
    BY TextsAreParts
  <1>4. \A i \in DOMAIN b : PartSays(src, m, b[i], args) = h[b[i]]
    <2>1. \A i \in DOMAIN b : b[i] \in AnyPart
      BY <1>3
    <2>2. QED
      BY <1>1, <2>1 DEF PartsSay
  <1>5. [i \in DOMAIN b |-> PartSays(src, m, b[i], args)] = [i \in DOMAIN b |-> h[b[i]]]
    BY <1>4, Zenon
  <1>6. Deeper(src, m)[<<b, args>>] = FlattenSeq([i \in DOMAIN b |-> PartSays(src, m, b[i], args)])
    <2>1. PICK p : p = <<b, args>>
      OBVIOUS
    <2>2. p \in Places /\ p[1] = b /\ p[2] = args
      BY <2>1 DEF Places
    <2>3. Deeper(src, m)[p] = FlattenSeq([i \in DOMAIN p[1] |-> PartSays(src, m, p[1][i], p[2])])
      BY <2>2, Zenon DEF Deeper
    <2>4. QED
      BY <2>1, <2>2, <2>3, Zenon
  <1>7. Say(h, b) \in Seq(AnyPart)
    BY <1>2, <1>3, SayTexts
  <1>8. Deeper(src, m)[<<b, args>>] = Say(h, b)
    BY <1>5, <1>6, Zenon DEF Say
  <1>9. QED
    BY <1>1, <1>7, <1>8, Zenon

LEMMA DeeperTypes ==
  ASSUME NEW src \in Fetchable, NEW m \in Meanings
  PROVE  Deeper(src, m) \in Meanings
  <1>1. ASSUME NEW p \in Places PROVE Deeper(src, m)[p] \in Seq(AnyPart)
    <2>1. PICK b \in Body, args \in Seq(Binding) : p = <<b, args>>
      BY DEF Places
    <2>2. QED
      BY <2>1, DeeperSays
  <1>2. PICK d : d = Deeper(src, m)
    OBVIOUS
  <1>3. d = [p \in Places |-> d[p]]
    BY <1>2, Zenon DEF Deeper
  <1>4. QED
    BY <1>1, <1>2, <1>3 DEF Meanings

\* The recursion of Meaning: there is a solution, so the definition is one.
LEMMA MeaningUnfolds ==
  ASSUME NEW src \in Fetchable
  PROVE  \A n \in Nat : /\ Meaning(src)[n] \in Meanings
                        /\ Meaning(src)[n + 1] = Deeper(src, Meaning(src)[n])
  <1> DEFINE E(f) == [n \in Nat |->
                        [p \in Places |->
                           IF n = 0 THEN <<>>
                           ELSE FlattenSeq([i \in DOMAIN p[1] |-> PartSays(src, f[n - 1], p[1][i], p[2])])]]
  <1>1. PICK V, v, step : /\ V = Meanings /\ v = [p \in Places |-> <<>>]
                          /\ step = [n \in Nat |-> [u \in V |-> Deeper(src, u)]]
    OBVIOUS
  <1>2. v \in V
    <2>1. <<>> \in Seq(AnyPart)
      OBVIOUS
    <2>2. QED
      BY <1>1, <2>1 DEF Meanings
  <1>3. \A n \in Nat : \A u \in V : step[n][u] = Deeper(src, u)
    BY <1>1
  <1>4. Total(V, step)
    BY <1>1, <1>3, DeeperTypes DEF Total
  <1>5. PICK f \in [Nat -> V] : Solves(f, v, step)
    BY <1>2, <1>4, Recursion, Zenon
  <1>6. ASSUME NEW g, NEW n \in Nat
        PROVE  E(g)[n] = IF n = 0 THEN v ELSE Deeper(src, g[n - 1])
    <2>1. E(g)[n] = [p \in Places |->
                       IF n = 0 THEN <<>>
                       ELSE FlattenSeq([i \in DOMAIN p[1] |-> PartSays(src, g[n - 1], p[1][i], p[2])])]
      BY Zenon
    <2>2. CASE n = 0
      BY <1>1, <2>1, <2>2, Zenon
    <2>3. CASE n # 0
      BY <2>1, <2>3, Zenon DEF Deeper
    <2>4. QED
      BY <2>2, <2>3
  <1>7. \A g : DOMAIN E(g) = Nat /\ E(g) = [n \in Nat |-> E(g)[n]]
    BY Zenon
  <1>8. Meaning(src) = CHOOSE g : g = E(g)
    BY Zenon DEF Meaning, Places
  <1> HIDE DEF E
  <1>9. \A n \in Nat : f[n] = E(f)[n]
    <2>1. SUFFICES ASSUME NEW n \in Nat PROVE f[n] = E(f)[n]
      OBVIOUS
    <2>2. CASE n = 0
      BY <1>5, <1>6, <2>2 DEF Solves
    <2>3. CASE n # 0
      <3>1. PICK k \in Nat : n = k + 1 /\ k = n - 1
        <4>1. n - 1 \in Nat /\ n = (n - 1) + 1
          BY <2>3
        <4>2. QED
          BY <4>1
      <3>2. f[k] \in V
        OBVIOUS
      <3>3. f[n] = Deeper(src, f[k])
        BY <1>3, <1>5, <3>1, <3>2 DEF Solves
      <3>4. QED
        BY <1>6, <2>3, <3>1, <3>3
    <2>4. QED
      BY <2>2, <2>3
  <1>10. f = E(f)
    <2>1. f = [n \in Nat |-> f[n]]
      OBVIOUS
    <2>2. PICK e : e = E(f)
      OBVIOUS
    <2>3. e = [n \in Nat |-> e[n]] /\ \A n \in Nat : f[n] = e[n]
      BY <1>7, <1>9, <2>2, Zenon
    <2>4. f = e
      BY <2>1, <2>3
    <2>5. QED
      BY <2>2, <2>4
  <1>11. PICK M : M = Meaning(src)
    OBVIOUS
  <1>12. M = E(M)
    BY <1>8, <1>10, <1>11, Zenon
  <1>13. \A n \in Nat : M[n] = IF n = 0 THEN v ELSE Deeper(src, M[n - 1])
    BY <1>6, <1>12, Zenon
  <1>14. \A n \in Nat : M[n] \in Meanings
    <2> DEFINE T == {n \in Nat : M[n] \notin Meanings}
    <2>1. SUFFICES ASSUME T # {} PROVE FALSE
      OBVIOUS
    <2>2. PICK n \in T : \A k \in T : n <= k
      BY <2>1, Least
    <2>3. n \in Nat /\ M[n] \notin Meanings
      OBVIOUS
    <2>4. n # 0
      BY <1>1, <1>2, <1>13, <2>3
    <2>5. n - 1 \in Nat /\ ~(n <= n - 1)
      BY <2>3, <2>4
    <2>6. M[n - 1] \in Meanings
      BY <2>2, <2>5
    <2>7. M[n] = Deeper(src, M[n - 1])
      BY <1>13, <2>3, <2>4
    <2>8. QED
      BY <2>3, <2>6, <2>7, DeeperTypes
  <1>15. ASSUME NEW n \in Nat PROVE M[n + 1] = Deeper(src, M[n])
    <2>1. n + 1 \in Nat /\ n + 1 # 0 /\ (n + 1) - 1 = n
      OBVIOUS
    <2>2. M[n + 1] = Deeper(src, M[(n + 1) - 1])
      BY <1>13, <2>1, Zenon
    <2>3. QED
      BY <2>1, <2>2, Zenon
  <1>16. QED
    BY <1>11, <1>14, <1>15, Zenon

-----------------------------------------------------------------------------
(* Pages of which the calls nest no deeper than the limit.                   *)

\* The texts that are shallow, given those that are one level down.
OneDown(src, n, t) ==
  [b \in Body |-> \A x \in AllCalls(b) :
     /\ n > 0 /\ src[x.name] # Nil
     /\ t[src[x.name]]
     /\ \A a \in ToSet(x.args) : t[a.body]]

\* The recursion of Shallow has a solution, like that of Meaning.
LEMMA ShallowUnfolds ==
  ASSUME NEW src
  PROVE  \A n \in Nat : Shallow(src)[n] = OneDown(src, n, Shallow(src)[n - 1])
  <1> DEFINE E(f) == [n \in Nat |-> OneDown(src, n, f[n - 1])]
  <1>1. PICK V, v, step : /\ V = [Body -> BOOLEAN] /\ v = [b \in Body |-> AllCalls(b) = {}]
                          /\ step = [n \in Nat |-> [u \in V |-> OneDown(src, n + 1, u)]]
    OBVIOUS
  <1>2. v \in V
    BY <1>1
  <1>3. \A n \in Nat : \A u \in V : step[n][u] = OneDown(src, n + 1, u)
    BY <1>1
  <1>4. \A n, u : OneDown(src, n, u) \in V
    BY <1>1 DEF OneDown
  <1>5. Total(V, step)
    BY <1>3, <1>4 DEF Total
  <1>6. PICK f \in [Nat -> V] : Solves(f, v, step)
    BY <1>2, <1>5, Recursion, Zenon
  <1>7. \A u : OneDown(src, 0, u) = v
    <2>1. SUFFICES ASSUME NEW u PROVE OneDown(src, 0, u) = v
      OBVIOUS
    <2>2. \A b \in Body : OneDown(src, 0, u)[b] <=> AllCalls(b) = {}
      <3>1. ~(0 > 0)
        OBVIOUS
      <3>2. QED
        BY <3>1, Zenon DEF OneDown
    <2>3. \A b \in Body : v[b] <=> AllCalls(b) = {}
      BY <1>1
    <2>4. PICK w : w = OneDown(src, 0, u)
      OBVIOUS
    <2>5. w \in [Body -> BOOLEAN] /\ v \in [Body -> BOOLEAN] /\ \A b \in Body : w[b] <=> v[b]
      BY <1>1, <1>2, <1>4, <2>2, <2>3, <2>4
    <2>6. \A b \in Body : w[b] = v[b]
      BY <2>5
    <2>7. w = v
      BY <2>5, <2>6
    <2>8. QED
      BY <2>4, <2>7
  <1>8. Shallow(src) = CHOOSE g : g = E(g)
    BY Zenon DEF Shallow, OneDown
  <1>9. \A g : \A n \in Nat : E(g)[n] = OneDown(src, n, g[n - 1])
    BY Zenon
  <1>10. \A g : DOMAIN E(g) = Nat /\ E(g) = [n \in Nat |-> E(g)[n]]
    BY Zenon
  <1> HIDE DEF E
  <1>11. \A n \in Nat : f[n] = E(f)[n]
    <2>1. SUFFICES ASSUME NEW n \in Nat PROVE f[n] = E(f)[n]
      OBVIOUS
    <2>2. CASE n = 0
      BY <1>6, <1>7, <1>9, <2>2 DEF Solves
    <2>3. CASE n # 0
      <3>1. PICK k \in Nat : n = k + 1 /\ k = n - 1
        <4>1. n - 1 \in Nat /\ n = (n - 1) + 1
          BY <2>3
        <4>2. QED
          BY <4>1
      <3>2. f[k] \in V
        OBVIOUS
      <3>3. f[n] = OneDown(src, n, f[k])
        BY <1>3, <1>6, <3>1, <3>2 DEF Solves
      <3>4. QED
        BY <1>9, <3>1, <3>3
    <2>4. QED
      BY <2>2, <2>3
  <1>12. f = E(f)
    <2>1. f = [n \in Nat |-> f[n]]
      OBVIOUS
    <2>2. PICK e : e = E(f)
      OBVIOUS
    <2>3. e = [n \in Nat |-> e[n]] /\ \A n \in Nat : f[n] = e[n]
      BY <1>10, <1>11, <2>2, Zenon
    <2>4. f = e
      BY <2>1, <2>3
    <2>5. QED
      BY <2>2, <2>4
  <1>13. Shallow(src) = E(Shallow(src))
    BY <1>8, <1>12, Zenon
  <1>14. QED
    BY <1>9, <1>13, Zenon

\* A call that may be made when n levels are left.
CallCalm(src, x, n) ==
  /\ n >= 1 /\ src[x.name] # Nil
  /\ Shallow(src)[n - 1][src[x.name]]
  /\ \A a \in ToSet(x.args) : Shallow(src)[n - 1][a.body]

\* A shallow text is one whose calls are calm.
LEMMA ShallowCalls ==
  ASSUME NEW src, NEW n \in Nat, NEW b \in Body
  PROVE  Shallow(src)[n][b] <=> \A x \in AllCalls(b) : CallCalm(src, x, n)
  <1>1. PICK t : t = Shallow(src)[n - 1]
    OBVIOUS
  <1>2. Shallow(src)[n] = OneDown(src, n, t)
    BY <1>1, ShallowUnfolds, Zenon
  <1>3. OneDown(src, n, t)[b] <=> \A x \in AllCalls(b) :
          n > 0 /\ src[x.name] # Nil /\ t[src[x.name]] /\ \A a \in ToSet(x.args) : t[a.body]
    BY Zenon DEF OneDown
  <1>4. n > 0 <=> n >= 1
    OBVIOUS
  <1>5. QED
    BY <1>1, <1>2, <1>3, <1>4, Zenon DEF CallCalm

-----------------------------------------------------------------------------
(* Texts in which there is no diagnostic, or nothing left to do.             *)

\* No part of s is of a kind in K.
NoneOf(s, K) == \A i \in 1 .. Len(s) : s[i].t \notin K

Clean(s) == NoneOf(s, Errors)

\* In what a template, an argument or a value comes to, nothing is left to do.
Settled(s) == NoneOf(s, {"call", "ref"})

LEMMA NoneOfNothing ==
  ASSUME NEW K
  PROVE  NoneOf(<<>>, K)
  BY DEF NoneOf

LEMMA NoneOfAppend ==
  ASSUME NEW K, NEW s \in Seq(AnyPart), NEW x \in AnyPart
  PROVE  NoneOf(Append(s, x), K) <=> NoneOf(s, K) /\ x.t \notin K
  <1>1. PICK u, n : u = Append(s, x) /\ n = Len(s)
    OBVIOUS
  <1>2. /\ n \in Nat /\ Len(u) = n + 1 /\ u[n + 1] = x /\ \A i \in 1 .. n : u[i] = s[i]
    BY <1>1, AppendOne
  <1>3. /\ \A i \in 1 .. n + 1 : i \in 1 .. n \/ i = n + 1
        /\ \A i \in 1 .. n : i \in 1 .. n + 1
        /\ n + 1 \in 1 .. n + 1
    BY <1>2
  <1>4. NoneOf(u, K) <=> NoneOf(s, K) /\ x.t \notin K
    BY <1>1, <1>2, <1>3, Zenon DEF NoneOf
  <1>5. QED
    BY <1>1, <1>4

LEMMA NoneOfFirst ==
  ASSUME NEW K, NEW s \in Seq(AnyPart), s # <<>>
  PROVE  NoneOf(s, K) <=> Head(s).t \notin K /\ NoneOf(Tail(s), K)
  <1>1. PICK u, n : u = Tail(s) /\ n = Len(s)
    OBVIOUS
  <1>2. /\ n \in Nat /\ n >= 1 /\ Len(u) = n - 1 /\ Head(s) = s[1]
        /\ \A i \in 1 .. n - 1 : u[i] = s[i + 1] /\ i + 1 \in 1 .. n
    BY <1>1
  <1>3. ASSUME NEW i \in 1 .. n, i # 1 PROVE \E j \in 1 .. n - 1 : i = j + 1
    <2>1. i - 1 \in 1 .. n - 1 /\ i = (i - 1) + 1
      BY <1>2, <1>3
    <2>2. QED
      BY <2>1
  <1>4. 1 \in 1 .. n
    BY <1>2
  <1>5. ASSUME NoneOf(s, K) PROVE s[1].t \notin K /\ NoneOf(u, K)
    <2>1. \A i \in 1 .. n : s[i].t \notin K
      BY <1>1, <1>5 DEF NoneOf
    <2>2. \A i \in 1 .. n - 1 : u[i].t \notin K
      BY <1>2, <2>1, Zenon
    <2>3. QED
      BY <1>2, <1>4, <2>1, <2>2, Zenon DEF NoneOf
  <1>6. ASSUME s[1].t \notin K, NoneOf(u, K) PROVE NoneOf(s, K)
    <2>1. \A j \in 1 .. n - 1 : u[j].t \notin K
      BY <1>2, <1>6, Zenon DEF NoneOf
    <2>2. \A i \in 1 .. n : s[i].t \notin K
      BY <1>2, <1>3, <1>6, <2>1, Zenon
    <2>3. QED
      BY <1>1, <2>2, Zenon DEF NoneOf
  <1>7. QED
    BY <1>1, <1>2, <1>5, <1>6, Zenon

\* No part of s or of r is of a kind in K, if none of s \o r is.
LEMMA NoneOfConcat ==
  ASSUME NEW K, NEW s \in Seq(AnyPart), NEW r \in Seq(AnyPart)
  PROVE  NoneOf(s \o r, K) <=> NoneOf(s, K) /\ NoneOf(r, K)
  <1>1. PICK u, n, k : u = s \o r /\ n = Len(s) /\ k = Len(r)
    OBVIOUS
  <1>2. /\ n \in Nat /\ k \in Nat /\ Len(u) = n + k
        /\ \A i \in 1 .. n : u[i] = s[i] /\ i \in 1 .. n + k
        /\ \A j \in 1 .. k : u[n + j] = r[j] /\ n + j \in 1 .. n + k
    BY <1>1
  <1>3. ASSUME NEW i \in 1 .. n + k, i \notin 1 .. n PROVE \E j \in 1 .. k : i = n + j
    <2>1. i - n \in 1 .. k /\ i = n + (i - n)
      BY <1>2, <1>3
    <2>2. QED
      BY <2>1
  <1>4. ASSUME NoneOf(u, K) PROVE NoneOf(s, K) /\ NoneOf(r, K)
    <2>1. \A i \in 1 .. n + k : u[i].t \notin K
      BY <1>2, <1>4, Zenon DEF NoneOf
    <2>2. /\ \A i \in 1 .. n : s[i].t \notin K
          /\ \A j \in 1 .. k : r[j].t \notin K
      BY <1>2, <2>1, Zenon
    <2>3. QED
      BY <1>1, <2>2, Zenon DEF NoneOf
  <1>5. ASSUME NoneOf(s, K), NoneOf(r, K) PROVE NoneOf(u, K)
    <2>1. /\ \A i \in 1 .. n : s[i].t \notin K
          /\ \A j \in 1 .. k : r[j].t \notin K
      BY <1>1, <1>5, Zenon DEF NoneOf
    <2>2. \A i \in 1 .. n + k : u[i].t \notin K
      BY <1>2, <1>3, <2>1, Zenon
    <2>3. QED
      BY <1>2, <2>2, Zenon DEF NoneOf
  <1>6. QED
    BY <1>1, <1>4, <1>5, Zenon

LEMMA CleanAppend ==
  ASSUME NEW s \in Seq(AnyPart), NEW x \in AnyPart
  PROVE  Clean(Append(s, x)) <=> Clean(s) /\ x.t \notin Errors
  BY NoneOfAppend, Zenon DEF Clean

LEMMA CleanFirst ==
  ASSUME NEW s \in Seq(AnyPart), s # <<>>
  PROVE  Clean(s) <=> Head(s).t \notin Errors /\ Clean(Tail(s))
  BY NoneOfFirst, Zenon DEF Clean

\* There is no diagnostic in s \o r, if there is none in s nor in r.
LEMMA CleanConcat ==
  ASSUME NEW s \in Seq(AnyPart), NEW r \in Seq(AnyPart)
  PROVE  Clean(s \o r) <=> Clean(s) /\ Clean(r)
  BY NoneOfConcat, Zenon DEF Clean

LEMMA EmptyLeft ==
  ASSUME NEW S, NEW s \in Seq(S)
  PROVE  <<>> \o s = s /\ s \o <<>> = s
  OBVIOUS

LEMMA AppendLeft ==
  ASSUME NEW S, NEW s \in Seq(S), NEW x \in S, NEW r \in Seq(S)
  PROVE  Append(s, x) \o r = s \o (<<x>> \o r)
  <1>1. Append(s, x) = s \o <<x>> /\ <<x>> \in Seq(S)
    OBVIOUS
  <1>2. PICK y : y = <<x>>
    OBVIOUS
  <1>3. (s \o y) \o r = s \o (y \o r)
    BY <1>1, <1>2, ConcatAssociative
  <1>4. QED
    BY <1>1, <1>2, <1>3, Zenon

\* Nobody writes a diagnostic.
LEMMA WrittenIsClean ==
  ASSUME NEW b \in Body
  PROVE  Clean(b)
  <1>1. \A i \in 1 .. Len(b) : b[i] \in Written
    BY TextsAssumption
  <1>2. \A i \in 1 .. Len(b) : b[i].t \in {"text", "ref", "call"}
    BY <1>1, WrittenParts
  <1>3. QED
    BY <1>2 DEF Clean, NoneOf, Errors

-----------------------------------------------------------------------------
(* What a running call is meant to do.                                       *)

\* A binding as the expansion has it, and as it is meant: the same, unless a
\* diagnostic stands in it.
BindingAgrees(a, m) ==
  /\ a.name = m.name /\ Settled(a.value)
  /\ Clean(a.value) => a.value = m.value

AgreeSoFar(args, meant) ==
  /\ Len(args) <= Len(meant)
  /\ \A i \in 1 .. Len(args) : BindingAgrees(args[i], meant[i])

Agree(args, meant) == AgreeSoFar(args, meant) /\ Len(args) = Len(meant)

\* What a running call is meant to do: the scope as it is meant, what the call
\* will say in the end, and how deep the calls of its text may nest.
GhostType == [args : Seq(Binding), says : Seq(AnyPart), rank : Nat]

\* What texts mean in the calls of f.
Depths(src, f) == Meaning(src)[MaxDepth - f.depth]

FrameSay(src, f, args) ==
  IF f.kind = "page" THEN PageParts(src, Depths(src, f))
  ELSE PartsSay(src, Depths(src, f), args)

\* The references of a text have no references in their defaults.
PlainDefault(x) == x.t = "ref" /\ x.default # Nil => Refs(x.default) = {}

PlainDefaults(s) == \A i \in 1 .. Len(s) : PlainDefault(s[i])

\* What f has put out, what is pending above it, and what the rest of its text
\* says, are together what it is meant to say.
FrameMeans(f, g, src, pending) ==
  /\ f.kind = "page" => g.args = <<>>
  /\ f.kind # "page" => Settled(f.out)
  /\ Agree(f.args, g.args)
  /\ PlainDefaults(f.body)
  /\ Clean(f.out) /\ Clean(f.body) =>
       g.says = f.out \o (pending \o Say(FrameSay(src, f, g.args), f.body))

PartCalm(src, x, n) ==
  /\ x.t \notin Errors
  /\ x.t = "call" => CallCalm(src, x, n)
  /\ x.t = "ref" /\ x.default # Nil => \A y \in Calls(x.default) : CallCalm(src, y, n)

TextCalm(src, s, n) == \A i \in 1 .. Len(s) : PartCalm(src, s[i], n)

ArgsClean(args) == \A i \in 1 .. Len(args) : Clean(args[i].value)

\* On a page that is shallow, f comes to no diagnostic: the calls of its text
\* are there and nest no deeper than its rank, which for the body of a template
\* is the least that its calls need.
FrameCalm(f, g, src) ==
  /\ g.rank + f.depth <= MaxDepth
  /\ TextCalm(src, f.body, g.rank)
  /\ Clean(f.out) /\ ArgsClean(f.args) /\ ArgsClean(f.bound)
  /\ f.kind = "body" => \A n \in Nat : Shallow(src)[n][src[f.name]] => g.rank <= n

FrameTells(f, g, src, calm, pending) ==
  FrameMeans(f, g, src, pending) /\ (calm => FrameCalm(f, g, src))

\* A frame at the top, one at a call that has some of its arguments, and one
\* under a frame of kind k that says what is said.
Atop(f, g, src, calm) == f.bound = <<>> /\ FrameTells(f, g, src, calm, <<>>)

MeantAt(f, g, src) == Meant(Depths(src, f), Head(f.body), g.args)

Binds(f, g, src, calm) ==
  FrameTells(f, g, src, calm, <<>>) /\ AgreeSoFar(f.bound, MeantAt(f, g, src))

Under(f, g, k, said, src, calm) ==
  /\ k = "arg" => Binds(f, g, src, calm) /\ said = MeantAt(f, g, src)[Len(f.bound) + 1].value
  /\ k # "arg" => f.bound = <<>> /\ FrameTells(f, g, src, calm, said)

\* One call deeper, texts mean what they mean one level less deep.
LEMMA DepthsTypes ==
  ASSUME NEW src \in Fetchable, NEW f, f.depth \in 0 .. MaxDepth
  PROVE  /\ Depths(src, f) \in Meanings
         /\ \A d \in 0 .. MaxDepth : d = f.depth + 1 =>
              Depths(src, f) = Deeper(src, Meaning(src)[MaxDepth - d])
  <1>1. MaxDepth \in Nat /\ MaxDepth - f.depth \in Nat
    BY ConstantsAssumption
  <1>2. Depths(src, f) \in Meanings
    BY <1>1, MeaningUnfolds DEF Depths
  <1>3. ASSUME NEW d \in 0 .. MaxDepth, d = f.depth + 1
        PROVE  Depths(src, f) = Deeper(src, Meaning(src)[MaxDepth - d])
    <2>1. PICK k : k = MaxDepth - d
      OBVIOUS
    <2>2. k \in Nat /\ MaxDepth - f.depth = k + 1
      BY <1>1, <1>3, <2>1
    <2>3. Meaning(src)[k + 1] = Deeper(src, Meaning(src)[k])
      BY <2>2, MeaningUnfolds
    <2>4. QED
      BY <2>1, <2>2, <2>3, Zenon DEF Depths
  <1>4. QED
    BY <1>2, <1>3

\* What h says of the parts of a frame of a kind.
Speaks(h, src, m, kind, args) ==
  /\ h \in Says
  /\ \A x \in AnyPart :
       /\ x.t = "ref" /\ kind = "page" => h[x] = <<x>>
       /\ x.t = "ref" /\ kind # "page" => h[x] = RefSays(src, m, x, args)
       /\ x.t # "ref" => h[x] = CallSays(src, m, x, args)
       /\ x.t \notin {"ref", "call"} => h[x] = <<x>>

\* What a frame says of its parts, by their kinds.
LEMMA FrameSpeaks ==
  ASSUME NEW src \in Fetchable, NEW f, f.depth \in 0 .. MaxDepth, NEW args \in Seq(Binding),
         f.kind = "page" => args = <<>>
  PROVE  Speaks(FrameSay(src, f, args), src, Depths(src, f), f.kind, args)
  <1>1. PICK m : m = Depths(src, f)
    OBVIOUS
  <1>2. m \in Meanings
    BY <1>1, DepthsTypes
  <1>3. \A x \in AnyPart : x.t # "call" => CallSays(src, m, x, args) = <<x>>
    BY <1>2, CallSaysTypes
  <1>4. CASE f.kind = "page"
    <2>1. PICK h : h = PageParts(src, m)
      OBVIOUS
    <2>2. /\ h \in Says
          /\ \A x \in AnyPart : h[x] = IF x.t = "ref" THEN <<x>> ELSE CallSays(src, m, x, <<>>)
      BY <1>2, <2>1, PagePartsTypes
    <2>3. FrameSay(src, f, args) = h /\ args = <<>>
      BY <1>1, <1>4, <2>1, Zenon DEF FrameSay
    <2>4. \A x \in AnyPart : h[x] = IF x.t = "ref" THEN <<x>> ELSE CallSays(src, m, x, args)
      BY <2>2, <2>3, Zenon
    <2>5. Speaks(h, src, m, f.kind, args)
      BY <1>3, <1>4, <2>2, <2>4 DEF Speaks
    <2>6. QED
      BY <1>1, <2>3, <2>5, Zenon
  <1>5. CASE f.kind # "page"
    <2>1. PICK h : h = PartsSay(src, m, args)
      OBVIOUS
    <2>2. /\ h \in Says
          /\ \A x \in AnyPart : h[x] = IF x.t = "ref" THEN RefSays(src, m, x, args)
                                      ELSE CallSays(src, m, x, args)
      BY <1>2, <2>1, PartsSayTypes
    <2>3. FrameSay(src, f, args) = h
      BY <1>1, <1>5, <2>1, Zenon DEF FrameSay
    <2>4. Speaks(h, src, m, f.kind, args)
      BY <1>3, <1>5, <2>2 DEF Speaks
    <2>5. QED
      BY <1>1, <2>3, <2>4, Zenon
  <1>6. QED
    BY <1>4, <1>5

\* What has been put out once says itself.
LEMMA SettledIsSaid ==
  ASSUME NEW h, NEW src, NEW m, NEW kind, NEW args, Speaks(h, src, m, kind, args),
         NEW s \in Seq(AnyPart), Settled(s)
  PROVE  Say(h, s) = s
  <1>1. \A i \in 1 .. Len(s) : s[i] \in AnyPart /\ s[i].t \notin {"ref", "call"}
    BY DEF Settled, NoneOf
  <1>2. Plain(h, s)
    BY <1>1 DEF Plain, Speaks
  <1>3. QED
    BY <1>2, SayPlain DEF Speaks

\* A text that is written.
LEMMA TextIsPlain ==
  ASSUME NEW b \in Body
  PROVE  PlainDefaults(b)
  <1>1. ASSUME NEW i \in 1 .. Len(b), b[i].t = "ref", b[i].default # Nil
        PROVE  Refs(b[i].default) = {}
    <2>1. b[i] \in Refs(b)
      BY <1>1, TextsAreParts DEF Refs, ToSet
    <2>2. b[i].default \in Defaults(b)
      BY <1>1, <2>1 DEF Defaults
    <2>3. b[i].default \in Scanned[b[i].default]
      BY <2>2, DefaultsAreTexts, ScannedWithin
    <2>4. QED
      BY <2>2, <2>3, DefaultsAssumption
  <1>2. QED
    BY <1>1 DEF PlainDefaults, PlainDefault

\* The parts of a shallow text are calm.
LEMMA TextIsCalm ==
  ASSUME NEW src, NEW n \in Nat, NEW b \in Body, Shallow(src)[n][b]
  PROVE  TextCalm(src, b, n)
  <1>1. \A x \in AllCalls(b) : CallCalm(src, x, n)
    BY ShallowCalls
  <1>2. ASSUME NEW i \in 1 .. Len(b) PROVE PartCalm(src, b[i], n)
    <2>1. b[i].t \notin Errors
      BY WrittenIsClean DEF Clean, NoneOf
    <2>2. b[i] \in ToSet(b)
      BY TextsAreParts DEF ToSet
    <2>3. b[i].t = "call" => b[i] \in AllCalls(b)
      BY <2>2 DEF AllCalls, Calls
    <2>4. ASSUME b[i].t = "ref", b[i].default # Nil, NEW y \in Calls(b[i].default)
          PROVE  y \in AllCalls(b)
      <3>1. b[i].default \in Defaults(b)
        BY <2>2, <2>4 DEF Defaults, Refs
      <3>2. QED
        BY <3>1 DEF AllCalls
    <2>5. QED
      BY <1>1, <2>1, <2>3, <2>4, Zenon DEF PartCalm
  <1>3. QED
    BY <1>2 DEF TextCalm

LEMMA RestIs ==
  ASSUME NEW src, NEW n, NEW s \in Seq(AnyPart), s # <<>>
  PROVE  /\ Head(s) \in AnyPart /\ Tail(s) \in Seq(AnyPart)
         /\ TextCalm(src, s, n) => PartCalm(src, Head(s), n) /\ TextCalm(src, Tail(s), n)
         /\ PlainDefaults(s) => PlainDefault(Head(s)) /\ PlainDefaults(Tail(s))
  <1>1. /\ 1 \in 1 .. Len(s) /\ Head(s) = s[1] /\ Head(s) \in AnyPart /\ Tail(s) \in Seq(AnyPart)
        /\ \A i \in 1 .. Len(Tail(s)) : i + 1 \in 1 .. Len(s) /\ Tail(s)[i] = s[i + 1]
    BY HeadTail
  <1>2. ASSUME TextCalm(src, s, n) PROVE PartCalm(src, Head(s), n) /\ TextCalm(src, Tail(s), n)
    BY <1>1, <1>2, Zenon DEF TextCalm
  <1>3. ASSUME PlainDefaults(s) PROVE PlainDefault(Head(s)) /\ PlainDefaults(Tail(s))
    BY <1>1, <1>3, Zenon DEF PlainDefaults
  <1>4. QED
    BY <1>1, <1>2, <1>3

\* A frame and what it is meant to do, with what its parts say.
LEMMA Scope ==
  ASSUME NEW src \in Fetchable, NEW f \in FrameType, NEW g \in GhostType,
         f.kind = "page" => g.args = <<>>
  PROVE  /\ FrameFields(f) /\ g.args \in Seq(Binding) /\ g.says \in Seq(AnyPart) /\ g.rank \in Nat
         /\ Depths(src, f) \in Meanings
         /\ Speaks(FrameSay(src, f, g.args), src, Depths(src, f), f.kind, g.args)
  <1>1. FrameFields(f)
    BY FramesHaveFields
  <1>2. g.args \in Seq(Binding) /\ g.says \in Seq(AnyPart) /\ g.rank \in Nat
    BY DEF GhostType
  <1>3. f.depth \in 0 .. MaxDepth
    BY <1>1 DEF FrameFields
  <1>4. QED
    BY <1>1, <1>2, <1>3, DepthsTypes, FrameSpeaks

LEMMA SameScope ==
  ASSUME NEW src, NEW f, NEW e, e.kind = f.kind, e.depth = f.depth, NEW args
  PROVE  Depths(src, e) = Depths(src, f) /\ FrameSay(src, e, args) = FrameSay(src, f, args)
  <1>1. Depths(src, e) = Depths(src, f)
    BY DEF Depths
  <1>2. QED
    BY <1>1, Zenon DEF FrameSay

\* One more part is put out: as it stands, or a diagnostic instead of a call.
LEMMA EmitTells ==
  ASSUME NEW src \in Fetchable, NEW f \in FrameType, NEW g \in GhostType, NEW calm,
         Atop(f, g, src, calm), f.body # <<>>, NEW x \in AnyPart,
         NEW e \in FrameType, e.kind = f.kind, e.name = f.name, e.args = f.args,
         e.depth = f.depth, e.body = Tail(f.body), e.bound = f.bound, e.out = Append(f.out, x),
         \/ x = Head(f.body) /\ x.t # "call" /\ (x.t = "ref" => f.kind = "page")
         \/ x.t \in Errors /\ ~calm
  PROVE  Atop(e, g, src, calm)
  <1>1. FrameMeans(f, g, src, <<>>) /\ (calm => FrameCalm(f, g, src)) /\ f.bound = <<>>
    BY DEF Atop, FrameTells
  <1>2. PICK h : h = FrameSay(src, f, g.args)
    OBVIOUS
  <1>3. FrameFields(f) /\ g.says \in Seq(AnyPart) /\ Speaks(h, src, Depths(src, f), f.kind, g.args)
    BY <1>1, <1>2, Scope DEF FrameMeans
  <1>4. FrameSay(src, e, g.args) = h
    BY <1>2, SameScope
  <1>5. PICK b, o, r : b = f.body /\ o = f.out /\ r = Tail(b)
    OBVIOUS
  <1>6. b \in Seq(AnyPart) /\ b # <<>> /\ o \in Seq(AnyPart) /\ e.body = r /\ e.out = Append(o, x)
    BY <1>3, <1>5 DEF FrameFields
  <1>7. Head(b) \in AnyPart /\ r \in Seq(AnyPart) /\ PlainDefaults(r)
    BY <1>1, <1>5, <1>6, RestIs DEF FrameMeans
  <1>8. f.kind # "page" => Settled(e.out)
    <2>1. ASSUME f.kind # "page" PROVE Settled(e.out)
      <3>1. Settled(o) /\ x.t \notin {"call", "ref"}
        BY <1>1, <1>5, <2>1 DEF FrameMeans, Errors
      <3>2. QED
        BY <1>6, <3>1, NoneOfAppend DEF Settled
    <2>2. QED
      BY <2>1
  <1>9. Clean(e.out) <=> Clean(o) /\ x.t \notin Errors
    <2>1. Clean(Append(o, x)) <=> Clean(o) /\ x.t \notin Errors
      BY <1>6, CleanAppend
    <2>2. QED
      BY <1>6, <2>1
  <1>10. Clean(b) <=> Head(b).t \notin Errors /\ Clean(r)
    <2>1. Clean(b) <=> Head(b).t \notin Errors /\ Clean(Tail(b))
      BY <1>6, CleanFirst
    <2>2. QED
      BY <1>5, <2>1
  <1>11. ASSUME Clean(e.out), Clean(e.body)
         PROVE  g.says = e.out \o (<<>> \o Say(h, e.body))
    <2>1. x = Head(b) /\ x.t # "call" /\ (x.t = "ref" => f.kind = "page")
      BY <1>5, <1>9, <1>11
    <2>2. g.says = o \o (<<>> \o Say(h, b))
      BY <1>1, <1>2, <1>5, <1>6, <1>9, <1>10, <1>11, <2>1, Zenon DEF FrameMeans
    <2>3. h \in Says /\ h[x] = <<x>>
      BY <1>3, <2>1 DEF Speaks
    <2>4. PICK u, v : u = Say(h, b) /\ v = Say(h, r)
      OBVIOUS
    <2>5. u \in Seq(AnyPart) /\ v \in Seq(AnyPart) /\ u = <<x>> \o v
      BY <1>5, <1>6, <1>7, <2>1, <2>3, <2>4, SayTexts, SayFirst
    <2>6. <<>> \o u = u /\ <<>> \o v = v
      BY <2>5, EmptyLeft
    <2>7. Append(o, x) \o v = o \o (<<x>> \o v)
      BY <1>6, <2>5, AppendLeft
    <2>8. QED
      BY <1>6, <2>2, <2>4, <2>5, <2>6, <2>7, Zenon
  <1>12. FrameMeans(e, g, src, <<>>)
    <2>1. Agree(e.args, g.args) /\ (e.kind = "page" => g.args = <<>>)
      BY <1>1, Zenon DEF FrameMeans
    <2>2. PlainDefaults(e.body) /\ (e.kind # "page" => Settled(e.out))
      BY <1>6, <1>7, <1>8, Zenon
    <2>3. QED
      BY <1>4, <1>11, <2>1, <2>2, Zenon DEF FrameMeans
  <1>13. ASSUME calm PROVE FrameCalm(e, g, src)
    <2>1. FrameCalm(f, g, src)
      BY <1>1, <1>13
    <2>2. TextCalm(src, b, g.rank)
      BY <1>5, <2>1 DEF FrameCalm
    <2>3. PartCalm(src, Head(b), g.rank) /\ TextCalm(src, r, g.rank)
      BY <1>5, <1>6, <2>2, RestIs
    <2>4. x.t \notin Errors
      BY <1>5, <1>13, <2>3 DEF PartCalm
    <2>5. Clean(e.out)
      BY <1>5, <1>9, <2>1, <2>4 DEF FrameCalm
    <2>6. QED
      BY <1>6, <2>1, <2>3, <2>5 DEF FrameCalm
  <1>14. QED
    BY <1>1, <1>12, <1>13 DEF Atop, FrameTells

\* A reference finds the same argument in the scope as it is meant.
LEMMA GivenAgree ==
  ASSUME NEW x, NEW args \in Seq(Binding), NEW meant \in Seq(Binding), Agree(args, meant)
  PROVE  Given(x, args) = Given(x, meant)
  <1>1. PICK n : n = Len(args)
    OBVIOUS
  <1>2. DOMAIN args = 1 .. n /\ DOMAIN meant = 1 .. n
    BY <1>1 DEF Agree
  <1>3. \A i \in 1 .. n : args[i].name = meant[i].name
    BY <1>1 DEF Agree, AgreeSoFar, BindingAgrees
  <1>4. QED
    BY <1>2, <1>3 DEF Given

\* The scope of a template's text, as it is and as it is meant.
InScope(h, src, m, kind, args, meant) ==
  /\ kind # "page"
  /\ args \in Seq(Binding) /\ meant \in Seq(Binding) /\ Agree(args, meant)
  /\ Speaks(h, src, m, kind, meant)

\* v may be expanded for the reference x.
StandsFor(v, h, src, x, args) ==
  /\ v \in Seq(AnyPart) /\ PlainDefaults(v)
  /\ Clean(v) => h[x] = Say(h, v)
  /\ \A n : PartCalm(src, x, n) /\ ArgsClean(args) => TextCalm(src, v, n)

\* The value of a reference says what the reference does.
LEMMA ValueSays ==
  ASSUME NEW src \in Fetchable, NEW m \in Meanings, NEW kind, NEW args, NEW meant, NEW h,
         InScope(h, src, m, kind, args, meant),
         NEW x \in AnyPart, x.t = "ref", PlainDefault(x), NEW v, v = Value(x, args)
  PROVE  StandsFor(v, h, src, x, args)
  <1>0. /\ kind # "page" /\ Agree(args, meant) /\ Speaks(h, src, m, kind, meant)
        /\ args \in Seq(Binding) /\ meant \in Seq(Binding)
    BY DEF InScope
  <1>1. Given(x, args) = Given(x, meant)
    BY <1>0, GivenAgree
  <1>2. h \in Says /\ h[x] = RefSays(src, m, x, meant)
    BY <1>0 DEF Speaks
  <1>3. CASE Given(x, args) # {}
    <2>1. PICK i : i = Min(Given(x, args))
      OBVIOUS
    <2>2. i \in 1 .. Len(args) /\ i \in 1 .. Len(meant)
      BY <1>1, <1>3, <2>1, <1>0, FirstGiven DEF Agree
    <2>3. h[x] = meant[i].value /\ v = args[i].value
      <3>1. RefSays(src, m, x, meant) = meant[Min(Given(x, meant))].value
        BY <1>0, <1>1, <1>3, RefSaysTypes
      <3>2. QED
        BY <1>1, <1>2, <1>3, <2>1, <3>1, Zenon DEF Value
    <2>4. args[i] \in Binding
      BY <1>0, <2>2
    <2>5. v \in Seq(AnyPart)
      BY <2>3, <2>4 DEF Binding
    <2>6. Settled(v) /\ (Clean(v) => v = meant[i].value)
      BY <1>0, <2>2, <2>3, Zenon DEF Agree, AgreeSoFar, BindingAgrees
    <2>7. \A j \in 1 .. Len(v) : v[j].t \notin {"call", "ref"}
      BY <2>6 DEF Settled, NoneOf
    <2>8. PlainDefaults(v)
      BY <2>7 DEF PlainDefaults, PlainDefault
    <2>9. Say(h, v) = v
      BY <1>0, <2>5, <2>6, SettledIsSaid
    <2>10. ASSUME NEW n, ArgsClean(args) PROVE TextCalm(src, v, n)
      <3>1. Clean(v)
        BY <2>2, <2>3, <2>10 DEF ArgsClean
      <3>2. \A j \in 1 .. Len(v) : v[j].t \notin Errors
        BY <3>1 DEF Clean, NoneOf
      <3>3. QED
        BY <2>7, <3>2 DEF TextCalm, PartCalm
    <2>11. QED
      BY <2>3, <2>5, <2>6, <2>8, <2>9, <2>10, Zenon DEF StandsFor
  <1>4. CASE Given(x, args) = {} /\ x.default # Nil
    <2>1. v = x.default /\ v \in Body /\ RefSays(src, m, x, meant) = Say(CallsSay(src, m, meant), x.default)
      BY <1>0, <1>1, <1>4, RefSaysTypes DEF Value
    <2>2. v \in Seq(AnyPart) /\ PlainDefaults(v)
      BY <2>1, TextsAreParts, TextIsPlain
    <2>3. Refs(v) = {}
      BY <1>4, <2>1 DEF PlainDefault
    <2>4. \A j \in 1 .. Len(v) : v[j] \in AnyPart /\ v[j] \in ToSet(v) /\ v[j].t # "ref"
      <3>1. \A j \in 1 .. Len(v) : v[j] \in AnyPart /\ v[j] \in ToSet(v)
        BY <2>2, Positions
      <3>2. QED
        BY <2>3, <3>1 DEF Refs
    <2>5. PICK k : k = CallsSay(src, m, meant)
      OBVIOUS
    <2>6. \A y \in AnyPart : k[y] = CallSays(src, m, y, meant)
      BY <1>0, <2>5, CallsSayTypes
    <2>7. \A j \in 1 .. Len(v) : h[v[j]] = k[v[j]]
      BY <1>0, <2>4, <2>6 DEF Speaks
    <2>8. Say(k, v) = Say(h, v)
      <3>1. DOMAIN v = 1 .. Len(v)
        BY <2>2
      <3>2. [j \in DOMAIN v |-> k[v[j]]] = [j \in DOMAIN v |-> h[v[j]]]
        BY <2>7, <3>1, Zenon
      <3>3. QED
        BY <3>2, Zenon DEF Say
    <2>9. ASSUME NEW n, PartCalm(src, x, n) PROVE TextCalm(src, v, n)
      <3>1. \A y \in Calls(v) : CallCalm(src, y, n)
        BY <1>4, <2>1, <2>9 DEF PartCalm
      <3>2. \A j \in 1 .. Len(v) : v[j].t \notin Errors
        BY <2>1, WrittenIsClean DEF Clean, NoneOf
      <3>3. \A j \in 1 .. Len(v) : v[j].t = "call" => CallCalm(src, v[j], n)
        BY <2>4, <3>1, Zenon DEF Calls
      <3>4. QED
        BY <2>4, <3>2, <3>3, Zenon DEF TextCalm, PartCalm
    <2>10. QED
      BY <1>2, <2>1, <2>2, <2>5, <2>8, <2>9, Zenon DEF StandsFor
  <1>5. CASE Given(x, args) = {} /\ x.default = Nil
    <2>1. v = <<x>> /\ RefSays(src, m, x, meant) = <<x>>
      BY <1>0, <1>1, <1>5, RefSaysTypes DEF Value
    <2>2. v \in Seq(AnyPart) /\ v # <<>> /\ Head(v) = x /\ Tail(v) = <<>> /\ Len(v) = 1 /\ v[1] = x
      BY <2>1
    <2>3. PlainDefaults(v)
      BY <2>2 DEF PlainDefaults
    <2>4. Say(h, v) = h[x] \o Say(h, <<>>)
      BY <1>2, <2>2, SayFirst
    <2>5. Say(h, <<>>) = <<>>
      BY SayNothing
    <2>6. h[x] \in Seq(AnyPart)
      BY <1>2 DEF Says
    <2>7. h[x] \o <<>> = h[x]
      BY <2>6, EmptyLeft
    <2>8. \A n : PartCalm(src, x, n) => TextCalm(src, v, n)
      BY <2>2 DEF TextCalm
    <2>9. QED
      BY <2>2, <2>3, <2>4, <2>5, <2>7, <2>8, Zenon DEF StandsFor
  <1>6. QED
    BY <1>3, <1>4, <1>5

-----------------------------------------------------------------------------
(* One step, for the frames it takes part in.                                *)

\* A call is through: it has said what it was meant to.
LEMMA Through ==
  ASSUME NEW src \in Fetchable, NEW t \in FrameType, NEW gt \in GhostType, NEW calm,
         Atop(t, gt, src, calm), t.body = <<>>
  PROVE  /\ t.kind # "page" => Settled(t.out)
         /\ Clean(t.out) => gt.says = t.out
         /\ calm => Clean(t.out)
  <1>1. FrameMeans(t, gt, src, <<>>) /\ (calm => FrameCalm(t, gt, src))
    BY DEF Atop, FrameTells
  <1>2. PICK h, o : h = FrameSay(src, t, gt.args) /\ o = t.out
    OBVIOUS
  <1>3. o \in Seq(AnyPart)
    BY <1>2, FramesHaveFields DEF FrameFields
  <1>4. Clean(<<>>)
    BY NoneOfNothing DEF Clean
  <1>5. Clean(o) => gt.says = o \o (<<>> \o Say(h, <<>>))
    BY <1>1, <1>2, <1>4, Zenon DEF FrameMeans
  <1>6. Say(h, <<>>) = <<>>
    BY SayNothing
  <1>7. o \o (<<>> \o <<>>) = o
    BY <1>3
  <1>8. Clean(o) => gt.says = o
    BY <1>5, <1>6, <1>7, Zenon
  <1>9. (t.kind # "page" => Settled(t.out)) /\ (calm => Clean(t.out))
    BY <1>1 DEF FrameMeans, FrameCalm
  <1>10. QED
    BY <1>2, <1>8, <1>9

\* The caller goes on to the rest of its text, while the part it had come to is
\* being expanded.
LEMMA RestTells ==
  ASSUME NEW src \in Fetchable, NEW f \in FrameType, NEW g \in GhostType, NEW calm,
         FrameTells(f, g, src, calm, <<>>), f.body # <<>>, NEW x, x = Head(f.body),
         x.t \notin Errors,
         NEW e \in FrameType, e.kind = f.kind, e.name = f.name, e.args = f.args,
         e.depth = f.depth, e.body = Tail(f.body), e.bound = <<>>, e.out = f.out,
         NEW said, said = FrameSay(src, f, g.args)[x]
  PROVE  FrameTells(e, g, src, calm, said)
  <1>1. FrameMeans(f, g, src, <<>>) /\ (calm => FrameCalm(f, g, src))
    BY DEF FrameTells
  <1>2. PICK h : h = FrameSay(src, f, g.args)
    OBVIOUS
  <1>3. FrameFields(f) /\ Speaks(h, src, Depths(src, f), f.kind, g.args)
    BY <1>1, <1>2, Scope DEF FrameMeans
  <1>4. FrameSay(src, e, g.args) = h
    BY <1>2, SameScope
  <1>5. PICK b, o, r : b = f.body /\ o = f.out /\ r = Tail(b)
    OBVIOUS
  <1>6. b \in Seq(AnyPart) /\ b # <<>> /\ o \in Seq(AnyPart) /\ e.body = r /\ e.out = o
    BY <1>3, <1>5 DEF FrameFields
  <1>7. x = Head(b) /\ x \in AnyPart /\ r \in Seq(AnyPart) /\ PlainDefaults(r)
    BY <1>1, <1>5, <1>6, RestIs DEF FrameMeans
  <1>8. h \in Says
    BY <1>3 DEF Speaks
  <1>9. ASSUME Clean(o), Clean(r) PROVE g.says = o \o (said \o Say(h, r))
    <2>1. Clean(b)
      <3>1. Clean(b) <=> Head(b).t \notin Errors /\ Clean(Tail(b))
        BY <1>6, CleanFirst
      <3>2. QED
        BY <1>5, <1>7, <1>9, <3>1
    <2>2. g.says = o \o (<<>> \o Say(h, b))
      BY <1>1, <1>2, <1>5, <1>9, <2>1, Zenon DEF FrameMeans
    <2>3. Say(h, b) = h[Head(b)] \o Say(h, Tail(b))
      BY <1>6, <1>8, SayFirst
    <2>4. Say(h, b) \in Seq(AnyPart)
      BY <1>6, <1>8, SayTexts
    <2>5. <<>> \o Say(h, b) = Say(h, b)
      BY <2>4, EmptyLeft
    <2>6. QED
      BY <1>2, <1>5, <1>7, <2>2, <2>3, <2>5, Zenon
  <1>10. FrameMeans(e, g, src, said)
    <2>1. Agree(e.args, g.args) /\ (e.kind = "page" => g.args = <<>>)
      BY <1>1, Zenon DEF FrameMeans
    <2>2. PlainDefaults(e.body) /\ (e.kind # "page" => Settled(e.out))
      BY <1>1, <1>6, <1>7, Zenon DEF FrameMeans
    <2>3. QED
      BY <1>4, <1>6, <1>9, <2>1, <2>2, Zenon DEF FrameMeans
  <1>11. ASSUME calm PROVE FrameCalm(e, g, src)
    <2>1. FrameCalm(f, g, src)
      BY <1>1, <1>11
    <2>2. TextCalm(src, b, g.rank)
      BY <1>5, <2>1 DEF FrameCalm
    <2>3. TextCalm(src, r, g.rank)
      BY <1>5, <1>6, <2>2, RestIs
    <2>4. ArgsClean(<<>>)
      BY DEF ArgsClean
    <2>5. QED
      BY <1>5, <1>6, <2>1, <2>3, <2>4 DEF FrameCalm
  <1>12. QED
    BY <1>10, <1>11 DEF FrameTells

\* A call of the expansion begins.
LEMMA FirstTells ==
  ASSUME NEW src, NEW t, NEW gt, NEW calm,
         gt.says \in Seq(AnyPart), t.bound = <<>>, t.out = <<>>,
         t.kind = "page" => gt.args = <<>>,
         Agree(t.args, gt.args), PlainDefaults(t.body),
         Clean(t.body) => gt.says = Say(FrameSay(src, t, gt.args), t.body),
         calm => /\ gt.rank + t.depth <= MaxDepth
                 /\ TextCalm(src, t.body, gt.rank) /\ ArgsClean(t.args)
                 /\ t.kind = "body" => \A n \in Nat : Shallow(src)[n][src[t.name]] => gt.rank <= n
  PROVE  Atop(t, gt, src, calm)
  <1>1. Settled(<<>>) /\ Clean(<<>>) /\ ArgsClean(<<>>)
    BY NoneOfNothing DEF Settled, Clean, ArgsClean
  <1>2. PICK s : s = gt.says
    OBVIOUS
  <1>3. s = <<>> \o (<<>> \o s)
    BY <1>2
  <1>4. Clean(t.body) => gt.says = <<>> \o (<<>> \o Say(FrameSay(src, t, gt.args), t.body))
    BY <1>2, <1>3, Zenon
  <1>5. FrameMeans(t, gt, src, <<>>)
    BY <1>1, <1>4, Zenon DEF FrameMeans
  <1>6. calm => FrameCalm(t, gt, src)
    BY <1>1, Zenon DEF FrameCalm
  <1>7. QED
    BY <1>5, <1>6, Zenon DEF Atop, FrameTells

\* A new frame t above f is at what f waits for.
Continues(f, g, t, src, calm) ==
  \E gt \in GhostType :
    /\ calm => gt.rank <= g.rank
    /\ Under(f, g, t.kind, gt.says, src, calm)
    /\ Atop(t, gt, src, calm)

\* A reference in a template: its value is expanded in the same scope.
LEMMA ReferTells ==
  ASSUME NEW src \in Fetchable, NEW f \in FrameType, NEW g \in GhostType, NEW calm,
         Atop(f, g, src, calm), f.body # <<>>, f.kind # "page",
         NEW x, x = Head(f.body), x.t = "ref",
         NEW e \in FrameType, e.kind = f.kind, e.name = f.name, e.args = f.args,
         e.depth = f.depth, e.body = Tail(f.body), e.bound = <<>>, e.out = f.out,
         NEW t, t.kind = "param", t.body = Value(x, f.args), t.args = f.args,
         t.depth = f.depth, t.bound = <<>>, t.out = <<>>
  PROVE  Continues(e, g, t, src, calm)
  <1>1. FrameTells(f, g, src, calm, <<>>) /\ FrameMeans(f, g, src, <<>>)
        /\ (calm => FrameCalm(f, g, src))
    BY DEF Atop, FrameTells
  <1>2. PICK h, m, v : h = FrameSay(src, f, g.args) /\ m = Depths(src, f) /\ v = Value(x, f.args)
    OBVIOUS
  <1>3. /\ FrameFields(f) /\ g.args \in Seq(Binding) /\ m \in Meanings
        /\ g.rank \in Nat /\ Speaks(h, src, m, f.kind, g.args)
    BY <1>1, <1>2, Scope DEF FrameMeans
  <1>4. PICK b : b = f.body
    OBVIOUS
  <1>5. b \in Seq(AnyPart) /\ b # <<>> /\ x = Head(b)
    BY <1>3, <1>4 DEF FrameFields
  <1>6. x \in AnyPart /\ PlainDefault(x) /\ (calm => PartCalm(src, x, g.rank))
    <2>1. PlainDefaults(b)
      BY <1>1, <1>4 DEF FrameMeans
    <2>2. calm => TextCalm(src, b, g.rank)
      BY <1>1, <1>4 DEF FrameCalm
    <2>3. QED
      BY <1>5, <2>1, <2>2, RestIs
  <1>7. f.args \in Seq(Binding) /\ Agree(f.args, g.args) /\ x.t \notin Errors
    BY <1>1, <1>3 DEF FrameFields, FrameMeans, Errors
  <1>8. /\ v \in Seq(AnyPart) /\ PlainDefaults(v)
        /\ Clean(v) => h[x] = Say(h, v)
        /\ \A n : PartCalm(src, x, n) /\ ArgsClean(f.args) => TextCalm(src, v, n)
    <2>1. InScope(h, src, m, f.kind, f.args, g.args)
      BY <1>3, <1>7 DEF InScope
    <2>2. StandsFor(v, h, src, x, f.args)
      BY <1>2, <1>3, <1>6, <2>1, ValueSays
    <2>3. QED
      BY <2>2, Zenon DEF StandsFor
  <1>9. h[x] \in Seq(AnyPart)
    BY <1>3, <1>6 DEF Speaks, Says
  <1>10. PICK gt : gt = [args |-> g.args, says |-> h[x], rank |-> g.rank]
    OBVIOUS
  <1>11. gt \in GhostType /\ gt.args = g.args /\ gt.says = h[x] /\ gt.rank = g.rank
    BY <1>3, <1>9, <1>10 DEF GhostType
  <1>12. FrameTells(e, g, src, calm, gt.says)
    BY <1>1, <1>2, <1>7, <1>11, RestTells
  <1>13. Under(e, g, t.kind, gt.says, src, calm)
    BY <1>12 DEF Under
  <1>14. FrameSay(src, t, gt.args) = h
    <2>1. Depths(src, t) = m
      BY <1>2 DEF Depths
    <2>2. FrameSay(src, t, gt.args) = PartsSay(src, m, g.args)
      BY <1>11, <2>1 DEF FrameSay
    <2>3. h = PartsSay(src, m, g.args)
      BY <1>2 DEF FrameSay
    <2>4. QED
      BY <2>2, <2>3
  <1>15. t.kind = "param" /\ t.body = v
    BY <1>2
  <1>16. calm => /\ gt.rank + t.depth <= MaxDepth
                 /\ TextCalm(src, t.body, gt.rank) /\ ArgsClean(t.args)
    <2>1. SUFFICES ASSUME calm
                   PROVE  /\ gt.rank + t.depth <= MaxDepth
                          /\ TextCalm(src, t.body, gt.rank) /\ ArgsClean(t.args)
      OBVIOUS
    <2>2. g.rank + f.depth <= MaxDepth /\ ArgsClean(f.args)
      BY <1>1, <2>1 DEF FrameCalm
    <2>3. TextCalm(src, v, g.rank)
      BY <1>6, <1>8, <2>1, <2>2
    <2>4. gt.rank = g.rank /\ t.depth = f.depth /\ t.args = f.args
      BY <1>11
    <2>5. QED
      BY <1>15, <2>2, <2>3, <2>4, Zenon
  <1>17. Clean(t.body) => gt.says = Say(FrameSay(src, t, gt.args), t.body)
    BY <1>8, <1>11, <1>14, <1>15, Zenon
  <1>18. Agree(t.args, gt.args) /\ PlainDefaults(t.body)
    BY <1>7, <1>8, <1>11, <1>15, Zenon
  <1>19. Atop(t, gt, src, calm)
    BY <1>9, <1>11, <1>15, <1>16, <1>17, <1>18, FirstTells
  <1>20. QED
    BY <1>3, <1>11, <1>13, <1>19 DEF Continues

\* A call of a text, as far as it is known where it is made.
LEMMA CallAt ==
  ASSUME NEW src \in Fetchable, NEW f \in FrameType, NEW g \in GhostType, NEW calm,
         Binds(f, g, src, calm), f.body # <<>>, NEW c, c = Head(f.body), c.t = "call",
         NEW d \in 0 .. MaxDepth, d = f.depth + 1
  PROVE  /\ FrameFields(f) /\ c \in AnyPart /\ g.args \in Seq(Binding) /\ g.rank \in Nat
         /\ Meaning(src)[MaxDepth - d] \in Meanings
         /\ Depths(src, f) \in Meanings
         /\ Depths(src, f) = Deeper(src, Meaning(src)[MaxDepth - d])
         /\ MeantAt(f, g, src) = Meant(Depths(src, f), c, g.args)
         /\ Speaks(FrameSay(src, f, g.args), src, Depths(src, f), f.kind, g.args)
         /\ FrameMeans(f, g, src, <<>>)
         /\ calm => /\ FrameCalm(f, g, src) /\ CallCalm(src, c, g.rank)
                    /\ g.rank - 1 \in Nat /\ (g.rank - 1) + d <= MaxDepth
  <1>1. FrameMeans(f, g, src, <<>>) /\ (calm => FrameCalm(f, g, src))
    BY DEF Binds, FrameTells
  <1>2. /\ FrameFields(f) /\ g.args \in Seq(Binding) /\ g.rank \in Nat
        /\ Depths(src, f) \in Meanings
        /\ Speaks(FrameSay(src, f, g.args), src, Depths(src, f), f.kind, g.args)
    BY <1>1, Scope DEF FrameMeans
  <1>3. f.depth \in 0 .. MaxDepth
    BY <1>2 DEF FrameFields
  <1>4. Depths(src, f) = Deeper(src, Meaning(src)[MaxDepth - d])
    BY <1>3, DepthsTypes
  <1>5. Meaning(src)[MaxDepth - d] \in Meanings
    <2>1. MaxDepth - d \in Nat
      BY ConstantsAssumption
    <2>2. QED
      BY <2>1, MeaningUnfolds
  <1>6. PICK b : b = f.body
    OBVIOUS
  <1>7. b \in Seq(AnyPart) /\ b # <<>> /\ c = Head(b)
    BY <1>2, <1>6 DEF FrameFields
  <1>8. c \in AnyPart
    BY <1>7, RestIs
  <1>9. ASSUME calm
        PROVE  /\ FrameCalm(f, g, src) /\ CallCalm(src, c, g.rank)
               /\ g.rank - 1 \in Nat /\ (g.rank - 1) + d <= MaxDepth
    <2>1. FrameCalm(f, g, src)
      BY <1>1, <1>9
    <2>2. TextCalm(src, b, g.rank)
      BY <1>6, <2>1 DEF FrameCalm
    <2>3. PartCalm(src, c, g.rank)
      BY <1>7, <2>2, RestIs
    <2>4. CallCalm(src, c, g.rank)
      BY <2>3 DEF PartCalm
    <2>5. g.rank >= 1
      BY <2>4 DEF CallCalm
    <2>6. g.rank + f.depth <= MaxDepth
      BY <2>1 DEF FrameCalm
    <2>7. PICK r, k : r = g.rank /\ k = f.depth
      OBVIOUS
    <2>8. r \in Nat /\ r >= 1 /\ k \in Nat /\ r + k <= MaxDepth /\ d = k + 1 /\ MaxDepth \in Nat
      BY <1>2, <1>3, <2>5, <2>6, <2>7, ConstantsAssumption
    <2>9. r - 1 \in Nat /\ (r - 1) + d <= MaxDepth
      BY <2>8
    <2>10. QED
      BY <2>1, <2>4, <2>7, <2>9
  <1>10. MeantAt(f, g, src) = Meant(Depths(src, f), c, g.args)
    BY Zenon DEF MeantAt
  <1>11. QED
    BY <1>1, <1>2, <1>4, <1>5, <1>8, <1>9, <1>10, Zenon

\* The next argument of a call is expanded in the scope of the call.
LEMMA ArgumentTells ==
  ASSUME NEW src \in Fetchable, NEW f \in FrameType, NEW g \in GhostType, NEW calm,
         Binds(f, g, src, calm), f.body # <<>>, NEW c, c = Head(f.body), c.t = "call",
         NEW d \in 0 .. MaxDepth, d = f.depth + 1,
         NEW i \in 1 .. Len(c.args), i = Len(f.bound) + 1,
         NEW t, t.kind = "arg", t.body = c.args[i].body, t.args = f.args,
         t.depth = d, t.bound = <<>>, t.out = <<>>
  PROVE  Continues(f, g, t, src, calm)
  <1>1. PICK m, ms : m = Meaning(src)[MaxDepth - d] /\ ms = MeantAt(f, g, src)
    OBVIOUS
  <1>2. /\ FrameFields(f) /\ c \in AnyPart /\ g.args \in Seq(Binding) /\ g.rank \in Nat
        /\ m \in Meanings /\ Deeper(src, m) \in Meanings
        /\ Depths(src, f) = Deeper(src, m)
        /\ ms = Meant(Deeper(src, m), c, g.args)
        /\ FrameMeans(f, g, src, <<>>)
        /\ calm => /\ FrameCalm(f, g, src) /\ CallCalm(src, c, g.rank)
                   /\ g.rank - 1 \in Nat /\ (g.rank - 1) + d <= MaxDepth
    <2>1. /\ FrameFields(f) /\ c \in AnyPart /\ g.args \in Seq(Binding) /\ g.rank \in Nat
          /\ Meaning(src)[MaxDepth - d] \in Meanings
          /\ Depths(src, f) \in Meanings
          /\ Depths(src, f) = Deeper(src, Meaning(src)[MaxDepth - d])
          /\ MeantAt(f, g, src) = Meant(Depths(src, f), c, g.args)
          /\ FrameMeans(f, g, src, <<>>)
          /\ calm => /\ FrameCalm(f, g, src) /\ CallCalm(src, c, g.rank)
                     /\ g.rank - 1 \in Nat /\ (g.rank - 1) + d <= MaxDepth
      BY CallAt
    <2>2. QED
      BY <1>1, <2>1, Zenon
  <1>3. PICK b, k, as : b = c.args[i].body /\ as = g.args /\ k = IF calm THEN g.rank - 1 ELSE 0
    OBVIOUS
  <1>4. b \in Body /\ ms[i].value = Deeper(src, m)[<<b, as>>] /\ as \in Seq(Binding)
    <2>1. /\ c.args[i].body \in Body
          /\ Meant(Deeper(src, m), c, g.args)[i].value = Deeper(src, m)[<<c.args[i].body, g.args>>]
      BY <1>2, MeantTypes
    <2>2. QED
      BY <1>2, <1>3, <2>1, Zenon
  <1>5. ms[i].value = Say(PartsSay(src, m, as), b) /\ ms[i].value \in Seq(AnyPart)
    <2>1. /\ Deeper(src, m)[<<b, as>>] = Say(PartsSay(src, m, as), b)
          /\ Deeper(src, m)[<<b, as>>] \in Seq(AnyPart)
      BY <1>2, <1>4, DeeperSays
    <2>2. QED
      BY <1>4, <2>1, Zenon
  <1>6. k \in Nat /\ (calm => k <= g.rank /\ k + d <= MaxDepth /\ k = g.rank - 1)
    BY <1>2, <1>3
  <1>7. PICK gt : gt = [args |-> as, says |-> ms[i].value, rank |-> k]
    OBVIOUS
  <1>8. gt \in GhostType /\ gt.args = as /\ gt.says = ms[i].value /\ gt.rank = k
    BY <1>4, <1>5, <1>6, <1>7 DEF GhostType
  <1>9. Under(f, g, t.kind, gt.says, src, calm)
    <2>1. gt.says = MeantAt(f, g, src)[Len(f.bound) + 1].value
      BY <1>1, <1>8
    <2>2. QED
      BY <2>1 DEF Under
  <1>10. FrameSay(src, t, gt.args) = PartsSay(src, m, as)
    <2>1. Depths(src, t) = m
      BY <1>1 DEF Depths
    <2>2. t.kind # "page"
      OBVIOUS
    <2>3. QED
      BY <1>8, <2>1, <2>2, Zenon DEF FrameSay
  <1>11. Clean(t.body) => gt.says = Say(FrameSay(src, t, gt.args), t.body)
    BY <1>3, <1>5, <1>8, <1>10, Zenon
  <1>12. Agree(t.args, gt.args) /\ PlainDefaults(t.body)
    <2>1. Agree(f.args, g.args)
      BY <1>2 DEF FrameMeans
    <2>2. PlainDefaults(b)
      BY <1>4, TextIsPlain
    <2>3. QED
      BY <1>3, <1>8, <2>1, <2>2, Zenon
  <1>13. calm => gt.rank + t.depth <= MaxDepth /\ TextCalm(src, t.body, gt.rank) /\ ArgsClean(t.args)
    <2>1. SUFFICES ASSUME calm
                   PROVE  k + d <= MaxDepth /\ TextCalm(src, b, k) /\ ArgsClean(f.args)
      BY <1>3, <1>8, Zenon
    <2>2. ArgsClean(f.args)
      BY <1>2, <2>1 DEF FrameCalm
    <2>3. Shallow(src)[k][b]
      <3>1. k = g.rank - 1
        BY <1>6, <2>1
      <3>2. \A a \in ToSet(c.args) : Shallow(src)[g.rank - 1][a.body]
        BY <1>2, <2>1 DEF CallCalm
      <3>3. c.args[i] \in ToSet(c.args)
        <4>1. c.args \in Seq([name : STRING, body : Body])
          BY <1>2, PartTypes
        <4>2. QED
          BY <4>1, Positions
      <3>4. QED
        BY <1>3, <3>1, <3>2, <3>3, Zenon
    <2>4. TextCalm(src, b, k)
      BY <1>4, <1>6, <2>3, TextIsCalm
    <2>5. QED
      BY <1>6, <2>1, <2>2, <2>4
  <1>14. Atop(t, gt, src, calm)
    <2>1. gt.says \in Seq(AnyPart) /\ t.kind = "arg"
      BY <1>5, <1>8
    <2>2. QED
      BY <1>11, <1>12, <1>13, <2>1, FirstTells
  <1>15. QED
    BY <1>6, <1>8, <1>9, <1>14 DEF Continues

\* The arguments of a call are bound: the body of its template is expanded.
LEMMA BodyTells ==
  ASSUME NEW src \in Fetchable, NEW f \in FrameType, NEW g \in GhostType, NEW calm,
         Binds(f, g, src, calm), f.body # <<>>, NEW c, c = Head(f.body), c.t = "call",
         NEW d \in 0 .. MaxDepth, d = f.depth + 1,
         ~(Len(f.bound) < Len(c.args)), src[c.name] # Nil,
         NEW e \in FrameType, e.kind = f.kind, e.name = f.name, e.args = f.args,
         e.depth = f.depth, e.body = Tail(f.body), e.bound = <<>>, e.out = f.out,
         NEW t, t.kind = "body", t.name = c.name, t.body = src[c.name], t.args = f.bound,
         t.depth = d, t.bound = <<>>, t.out = <<>>
  PROVE  Continues(e, g, t, src, calm)
  <1>1. PICK m, ms, h : /\ m = Meaning(src)[MaxDepth - d] /\ ms = MeantAt(f, g, src)
                        /\ h = FrameSay(src, f, g.args)
    OBVIOUS
  <1>2. /\ FrameFields(f) /\ c \in AnyPart /\ g.args \in Seq(Binding) /\ g.rank \in Nat
        /\ m \in Meanings /\ Deeper(src, m) \in Meanings
        /\ ms = Meant(Deeper(src, m), c, g.args)
        /\ Speaks(h, src, Deeper(src, m), f.kind, g.args)
        /\ FrameMeans(f, g, src, <<>>)
        /\ calm => /\ FrameCalm(f, g, src) /\ CallCalm(src, c, g.rank)
                   /\ g.rank - 1 \in Nat /\ (g.rank - 1) + d <= MaxDepth
    <2>1. /\ FrameFields(f) /\ c \in AnyPart /\ g.args \in Seq(Binding) /\ g.rank \in Nat
          /\ Meaning(src)[MaxDepth - d] \in Meanings
          /\ Depths(src, f) \in Meanings
          /\ Depths(src, f) = Deeper(src, Meaning(src)[MaxDepth - d])
          /\ MeantAt(f, g, src) = Meant(Depths(src, f), c, g.args)
          /\ Speaks(FrameSay(src, f, g.args), src, Depths(src, f), f.kind, g.args)
          /\ FrameMeans(f, g, src, <<>>)
          /\ calm => /\ FrameCalm(f, g, src) /\ CallCalm(src, c, g.rank)
                     /\ g.rank - 1 \in Nat /\ (g.rank - 1) + d <= MaxDepth
      BY CallAt
    <2>2. QED
      BY <1>1, <2>1, Zenon
  <1>3. PICK b : b = src[c.name]
    OBVIOUS
  <1>4. c.name \in Name /\ b \in Body
    BY <1>2, <1>3, PartTypes DEF Fetchable
  <1>5. ms \in Seq(Binding) /\ Len(ms) = Len(c.args)
    <2>1. /\ Meant(Deeper(src, m), c, g.args) \in Seq(Binding)
          /\ Len(Meant(Deeper(src, m), c, g.args)) = Len(c.args)
      BY <1>2, MeantTypes
    <2>2. QED
      BY <1>2, <2>1, Zenon
  <1>6. Agree(f.bound, ms)
    <2>1. AgreeSoFar(f.bound, ms)
      BY <1>1 DEF Binds
    <2>2. Len(f.bound) <= Len(ms) /\ Len(f.bound) \in Nat /\ Len(ms) \in Nat
      BY <1>2, <1>5, <2>1 DEF AgreeSoFar, FrameFields
    <2>3. Len(f.bound) = Len(ms)
      BY <1>5, <2>2
    <2>4. QED
      BY <2>1, <2>3 DEF Agree
  <1>7. h[c] = Say(PartsSay(src, m, ms), b) /\ h[c] \in Seq(AnyPart)
    <2>1. h[c] = CallSays(src, Deeper(src, m), c, g.args)
      BY <1>2 DEF Speaks
    <2>2. CallSays(src, Deeper(src, m), c, g.args) = Deeper(src, m)[<<src[c.name], Meant(Deeper(src, m), c, g.args)>>]
      BY <1>2, CallSaysTypes
    <2>3. h[c] = Deeper(src, m)[<<b, ms>>]
      BY <1>2, <1>3, <2>1, <2>2, Zenon
    <2>4. /\ Deeper(src, m)[<<b, ms>>] = Say(PartsSay(src, m, ms), b)
          /\ Deeper(src, m)[<<b, ms>>] \in Seq(AnyPart)
      BY <1>2, <1>4, <1>5, DeeperSays
    <2>5. QED
      BY <2>3, <2>4, Zenon
  <1>8. PICK k \in Nat : calm => /\ k + d <= MaxDepth /\ k <= g.rank /\ Shallow(src)[k][b]
                                 /\ \A n \in Nat : Shallow(src)[n][b] => k <= n
    <2>1. CASE calm
      <3>1. PICK r : r = g.rank - 1
        OBVIOUS
      <3>2. r \in Nat /\ r + d <= MaxDepth /\ r <= g.rank
        BY <1>2, <2>1, <3>1
      <3>3. Shallow(src)[r][b]
        BY <1>2, <1>3, <2>1, <3>1 DEF CallCalm
      <3>4. PICK T : T = {n \in Nat : Shallow(src)[n][b]}
        OBVIOUS
      <3>5. T \subseteq Nat /\ T # {} /\ r \in T
        BY <3>2, <3>3, <3>4
      <3>6. PICK k \in T : \A n \in T : k <= n
        BY <3>5, Least
      <3>7. k \in Nat /\ k <= r
        BY <3>5, <3>6
      <3>8. k + d <= MaxDepth /\ k <= g.rank
        BY <1>2, <3>2, <3>7, ConstantsAssumption
      <3>9. Shallow(src)[k][b] /\ \A n \in Nat : Shallow(src)[n][b] => k <= n
        BY <3>4, <3>6, Zenon
      <3>10. QED
        BY <3>7, <3>8, <3>9
    <2>2. CASE ~calm
      BY <2>2
    <2>3. QED
      BY <2>1, <2>2
  <1>9. PICK gt : gt = [args |-> ms, says |-> h[c], rank |-> k]
    OBVIOUS
  <1>10. gt \in GhostType /\ gt.args = ms /\ gt.says = h[c] /\ gt.rank = k
    BY <1>5, <1>7, <1>8, <1>9 DEF GhostType
  <1>11. Under(e, g, t.kind, gt.says, src, calm)
    <2>1. FrameTells(f, g, src, calm, <<>>) /\ c.t \notin Errors
      BY DEF Binds, Errors
    <2>2. FrameTells(e, g, src, calm, gt.says)
      BY <1>1, <1>10, <2>1, RestTells
    <2>3. QED
      BY <2>2 DEF Under
  <1>12. FrameSay(src, t, gt.args) = PartsSay(src, m, ms)
    <2>1. Depths(src, t) = m
      BY <1>1 DEF Depths
    <2>2. t.kind # "page"
      OBVIOUS
    <2>3. QED
      BY <1>10, <2>1, <2>2, Zenon DEF FrameSay
  <1>13. Clean(t.body) => gt.says = Say(FrameSay(src, t, gt.args), t.body)
    BY <1>3, <1>7, <1>10, <1>12, Zenon
  <1>14. Agree(t.args, gt.args) /\ PlainDefaults(t.body)
    <2>1. PlainDefaults(b)
      BY <1>4, TextIsPlain
    <2>2. QED
      BY <1>3, <1>6, <1>10, <2>1, Zenon
  <1>15. calm => /\ gt.rank + t.depth <= MaxDepth
                 /\ TextCalm(src, t.body, gt.rank) /\ ArgsClean(t.args)
                 /\ t.kind = "body" => \A n \in Nat : Shallow(src)[n][src[t.name]] => gt.rank <= n
    <2>1. SUFFICES ASSUME calm
                   PROVE  /\ k + d <= MaxDepth /\ TextCalm(src, b, k) /\ ArgsClean(f.bound)
                          /\ \A n \in Nat : Shallow(src)[n][b] => k <= n
      BY <1>3, <1>10, Zenon
    <2>2. ArgsClean(f.bound)
      BY <1>2, <2>1 DEF FrameCalm
    <2>3. TextCalm(src, b, k)
      BY <1>4, <1>8, <2>1, TextIsCalm
    <2>4. QED
      BY <1>8, <2>1, <2>2, <2>3
  <1>16. Atop(t, gt, src, calm)
    <2>1. gt.says \in Seq(AnyPart) /\ t.kind # "page"
      BY <1>7, <1>10
    <2>2. QED
      BY <1>13, <1>14, <1>15, <2>1, FirstTells
  <1>17. QED
    BY <1>8, <1>10, <1>11, <1>16 DEF Continues

\* e is f with one more argument bound.
Bound(e, f, v) ==
  /\ e.kind = f.kind /\ e.name = f.name /\ e.args = f.args /\ e.depth = f.depth
  /\ e.body = f.body /\ e.bound = Append(f.bound, v) /\ e.out = f.out

\* An argument has come to a value, which is bound.
LEMMA BindTells ==
  ASSUME NEW src \in Fetchable, NEW f \in FrameType, NEW g \in GhostType, NEW calm,
         NEW t \in FrameType, NEW gt \in GhostType,
         Under(f, g, "arg", gt.says, src, calm), Atop(t, gt, src, calm),
         t.body = <<>>, t.kind = "arg",
         f.body # <<>>, NEW c, c = Head(f.body), c.t = "call", f.depth + 1 <= MaxDepth,
         NEW i \in 1 .. Len(c.args), i = Len(f.bound) + 1,
         NEW v \in Binding, v.name = c.args[i].name, v.value = t.out,
         NEW e \in FrameType, Bound(e, f, v)
  PROVE  Binds(e, g, src, calm)
  <1>0. /\ e.kind = f.kind /\ e.name = f.name /\ e.args = f.args /\ e.depth = f.depth
        /\ e.body = f.body /\ e.bound = Append(f.bound, v) /\ e.out = f.out
    BY DEF Bound
  <1>1. Binds(f, g, src, calm) /\ gt.says = MeantAt(f, g, src)[i].value
    BY DEF Under
  <1>2. FrameTells(f, g, src, calm, <<>>) /\ AgreeSoFar(f.bound, MeantAt(f, g, src))
    BY <1>1 DEF Binds
  <1>3. PICK d, m : d = f.depth + 1 /\ m = Depths(src, f)
    OBVIOUS
  <1>4. FrameFields(f) /\ c \in AnyPart /\ g.args \in Seq(Binding) /\ m \in Meanings
    <2>1. FrameFields(f)
      BY FramesHaveFields
    <2>2. d \in 0 .. MaxDepth
      BY <1>3, <2>1, ConstantsAssumption DEF FrameFields
    <2>3. FrameFields(f) /\ c \in AnyPart /\ g.args \in Seq(Binding) /\ Depths(src, f) \in Meanings
      BY <1>1, <1>3, <2>2, CallAt
    <2>4. QED
      BY <1>3, <2>3
  <1>5. PICK ms : ms = Meant(m, c, g.args)
    OBVIOUS
  <1>6. MeantAt(f, g, src) = ms
    BY <1>3, <1>5, Zenon DEF MeantAt
  <1>7. ms \in Seq(Binding) /\ Len(ms) = Len(c.args) /\ ms[i].name = v.name /\ Len(c.args) \in Nat
    BY <1>4, <1>5, MeantTypes
  <1>8. Settled(v.value) /\ (Clean(v.value) => v.value = ms[i].value) /\ (calm => Clean(v.value))
    <2>1. /\ Settled(t.out)
          /\ Clean(t.out) => gt.says = t.out
          /\ calm => Clean(t.out)
      BY Through
    <2>2. QED
      BY <1>1, <1>6, <2>1, Zenon
  <1>9. PICK u, k : u = f.bound /\ k = Len(u)
    OBVIOUS
  <1>10. u \in Seq(Binding) /\ k \in Nat /\ e.bound = Append(u, v) /\ i = k + 1
    BY <1>0, <1>4, <1>9 DEF FrameFields
  <1>11. PICK w : w = Append(u, v)
    OBVIOUS
  <1>12. /\ w \in Seq(Binding) /\ Len(w) = k + 1
         /\ \A j \in 1 .. k : w[j] = u[j]
         /\ w[k + 1] = v /\ 1 .. Len(w) = 1 .. k \cup {k + 1}
    BY <1>9, <1>10, <1>11, AppendOne
  <1>13. AgreeSoFar(w, ms)
    <2>1. \A j \in 1 .. k : BindingAgrees(w[j], ms[j])
      BY <1>2, <1>6, <1>9, <1>12 DEF AgreeSoFar
    <2>2. BindingAgrees(w[k + 1], ms[k + 1])
      BY <1>7, <1>8, <1>10, <1>12 DEF BindingAgrees
    <2>3. Len(w) <= Len(ms)
      BY <1>7, <1>10, <1>12
    <2>4. QED
      BY <1>12, <2>1, <2>2, <2>3, Zenon DEF AgreeSoFar
  <1>14. MeantAt(e, g, src) = ms
    <2>1. Depths(src, e) = m
      BY <1>0, <1>3, SameScope
    <2>2. QED
      BY <1>0, <1>5, <2>1, Zenon DEF MeantAt
  <1>15. FrameTells(e, g, src, calm, <<>>)
    <2>1. FrameSay(src, e, g.args) = FrameSay(src, f, g.args)
      <3>1. e.kind = f.kind /\ e.depth = f.depth
        BY <1>0
      <3>2. PICK as : as = g.args
        OBVIOUS
      <3>3. FrameSay(src, e, as) = FrameSay(src, f, as)
        BY <3>1, SameScope
      <3>4. QED
        BY <3>2, <3>3, Zenon
    <2>2. FrameMeans(e, g, src, <<>>)
      BY <1>0, <1>2, <2>1, Zenon DEF FrameTells, FrameMeans
    <2>3. ASSUME calm PROVE FrameCalm(e, g, src)
      <3>1. FrameCalm(f, g, src)
        BY <1>2, <2>3 DEF FrameTells
      <3>2. \A j \in 1 .. k : Clean(w[j].value)
        BY <1>9, <1>12, <3>1 DEF FrameCalm, ArgsClean
      <3>3. Clean(w[k + 1].value)
        BY <1>8, <1>12, <2>3
      <3>4. ArgsClean(w)
        BY <1>12, <3>2, <3>3, Zenon DEF ArgsClean
      <3>5. ArgsClean(e.bound)
        BY <1>10, <1>11, <3>4, Zenon
      <3>6. QED
        BY <1>0, <3>1, <3>5 DEF FrameCalm
    <2>4. QED
      BY <2>2, <2>3, Zenon DEF FrameTells
  <1>16. QED
    BY <1>10, <1>11, <1>13, <1>14, <1>15, Zenon DEF Binds

\* What a value or a body has come to is put out by the caller.
LEMMA PutOutTells ==
  ASSUME NEW src \in Fetchable, NEW f \in FrameType, NEW g \in GhostType, NEW calm,
         NEW t \in FrameType, NEW gt \in GhostType, NEW kind, kind = t.kind,
         Under(f, g, kind, gt.says, src, calm), Atop(t, gt, src, calm),
         t.body = <<>>, t.kind \notin {"arg", "page"},
         NEW e \in FrameType, e.kind = f.kind, e.name = f.name, e.args = f.args,
         e.depth = f.depth, e.body = f.body, e.bound = f.bound, e.out = f.out \o t.out
  PROVE  Atop(e, g, src, calm)
  <1>1. FrameTells(f, g, src, calm, gt.says) /\ f.bound = <<>>
    BY DEF Under
  <1>2. FrameMeans(f, g, src, gt.says) /\ (calm => FrameCalm(f, g, src))
    BY <1>1 DEF FrameTells
  <1>3. /\ Settled(t.out)
        /\ Clean(t.out) => gt.says = t.out
        /\ calm => Clean(t.out)
    BY Through
  <1>4. PICK o, r, b, h : o = f.out /\ r = t.out /\ b = f.body /\ h = FrameSay(src, f, g.args)
    OBVIOUS
  <1>5. /\ o \in Seq(AnyPart) /\ b \in Seq(AnyPart) /\ h \in Says
        /\ e.out = o \o r
    <2>1. FrameFields(f) /\ Speaks(h, src, Depths(src, f), f.kind, g.args)
      BY <1>2, <1>4, Scope DEF FrameMeans
    <2>2. QED
      BY <1>4, <2>1 DEF FrameFields, Speaks
  <1>6. r \in Seq(AnyPart)
    BY <1>4, FramesHaveFields DEF FrameFields
  <1>7. Clean(o \o r) <=> Clean(o) /\ Clean(r)
    BY <1>5, <1>6, CleanConcat
  <1>8. PICK w : w = o \o r
    OBVIOUS
  <1>9. FrameSay(src, e, g.args) = h
    BY <1>4, SameScope
  <1>10. f.kind # "page" => Settled(w)
    <2>1. ASSUME f.kind # "page" PROVE Settled(w)
      <3>1. NoneOf(o, {"call", "ref"}) /\ NoneOf(r, {"call", "ref"})
        BY <1>2, <1>3, <1>4, <2>1 DEF FrameMeans, Settled
      <3>2. NoneOf(o \o r, {"call", "ref"}) <=> NoneOf(o, {"call", "ref"}) /\ NoneOf(r, {"call", "ref"})
        BY <1>5, <1>6, NoneOfConcat
      <3>3. QED
        BY <1>8, <3>1, <3>2, Zenon DEF Settled
    <2>2. QED
      BY <2>1
  <1>11. ASSUME Clean(w), Clean(b) PROVE g.says = w \o (<<>> \o Say(h, b))
    <2>1. Clean(o) /\ Clean(r)
      BY <1>7, <1>8, <1>11, Zenon
    <2>2. g.says = o \o (r \o Say(h, b))
      BY <1>2, <1>3, <1>4, <1>11, <2>1, Zenon DEF FrameMeans
    <2>3. PICK u : u = Say(h, b)
      OBVIOUS
    <2>4. u \in Seq(AnyPart)
      BY <1>5, <2>3, SayTexts
    <2>5. o \o (r \o u) = (o \o r) \o (<<>> \o u)
      BY <1>5, <1>6, <2>4, EmptyLeft, ConcatAssociative
    <2>6. QED
      BY <1>8, <2>2, <2>3, <2>5, Zenon
  <1>12. FrameMeans(e, g, src, <<>>)
    <2>1. Agree(e.args, g.args) /\ (e.kind = "page" => g.args = <<>>) /\ PlainDefaults(e.body)
      BY <1>2, Zenon DEF FrameMeans
    <2>2. e.out = w /\ e.body = b
      BY <1>4, <1>5, <1>8
    <2>3. QED
      BY <1>9, <1>10, <1>11, <2>1, <2>2, Zenon DEF FrameMeans
  <1>13. ASSUME calm PROVE FrameCalm(e, g, src)
    <2>1. FrameCalm(f, g, src)
      BY <1>2, <1>13
    <2>2. Clean(w)
      BY <1>3, <1>4, <1>7, <1>8, <1>13, <2>1, Zenon DEF FrameCalm
    <2>3. Clean(e.out)
      BY <1>5, <1>8, <2>2, Zenon
    <2>4. QED
      BY <2>1, <2>3 DEF FrameCalm
  <1>14. QED
    BY <1>1, <1>12, <1>13 DEF Atop, FrameTells

-----------------------------------------------------------------------------
(* The stack and what is meant by it.                                        *)

\* Every frame under the top is at what the frame above it says, the first says
\* what is said on the page, and on a shallow page the calls nest ever less deep.
Chain(fs, gs, src, calm, said) ==
  /\ gs \in Seq(GhostType) /\ Len(gs) = Len(fs)
  /\ \A i \in 1 .. Len(fs) - 1 : Under(fs[i], gs[i], fs[i + 1].kind, gs[i + 1].says, src, calm)
  /\ fs # <<>> => gs[1].says = said
  /\ calm => \A i, j \in 1 .. Len(fs) : i <= j => gs[j].rank <= gs[i].rank

\* A call goes on above the one that waits for it,
LEMMA ChainPush ==
  ASSUME NEW fs \in Seq(FrameType), NEW gs, NEW src, NEW calm, NEW said,
         Chain(fs, gs, src, calm, said), fs # <<>>,
         NEW t \in FrameType, NEW gt \in GhostType,
         Under(Last(fs), Last(gs), t.kind, gt.says, src, calm),
         calm => gt.rank <= Last(gs).rank
  PROVE  Chain(Append(fs, t), Append(gs, gt), src, calm, said)
  <1>1. PICK n, es, hs : n = Len(fs) /\ es = Append(fs, t) /\ hs = Append(gs, gt)
    OBVIOUS
  <1>2. n \in Nat /\ n >= 1 /\ gs \in Seq(GhostType) /\ Len(gs) = n
    BY <1>1 DEF Chain
  <1>3. /\ Len(es) = n + 1 /\ \A i \in 1 .. n : es[i] = fs[i]
        /\ es[n + 1] = t /\ 1 .. Len(es) = 1 .. n \cup {n + 1}
    BY <1>1, AppendOne
  <1>4. /\ hs \in Seq(GhostType) /\ Len(hs) = n + 1 /\ \A i \in 1 .. n : hs[i] = gs[i]
        /\ hs[n + 1] = gt
    BY <1>1, <1>2, AppendOne
  <1>5. Last(fs) = fs[n] /\ Last(gs) = gs[n]
    BY <1>1, <1>2 DEF Last
  <1>6. ASSUME NEW i \in 1 .. n
        PROVE  Under(es[i], hs[i], es[i + 1].kind, hs[i + 1].says, src, calm)
    <2>1. CASE i = n
      <3>1. es[i] = Last(fs) /\ hs[i] = Last(gs) /\ es[i + 1] = t /\ hs[i + 1] = gt
        BY <1>2, <1>3, <1>4, <1>5, <2>1
      <3>2. QED
        BY <3>1, Zenon
    <2>2. CASE i # n
      <3>1. i \in 1 .. Len(fs) - 1 /\ i + 1 \in 1 .. n
        BY <1>1, <1>2, <2>2
      <3>2. Under(fs[i], gs[i], fs[i + 1].kind, gs[i + 1].says, src, calm)
        BY <3>1 DEF Chain
      <3>3. es[i] = fs[i] /\ hs[i] = gs[i] /\ es[i + 1] = fs[i + 1] /\ hs[i + 1] = gs[i + 1]
        BY <1>3, <1>4, <3>1
      <3>4. QED
        BY <3>2, <3>3, Zenon
    <2>3. QED
      BY <2>1, <2>2
  <1>7. hs[1].says = said
    <2>1. 1 \in 1 .. n /\ gs[1].says = said
      BY <1>2 DEF Chain
    <2>2. QED
      BY <1>4, <2>1
  <1>8. ASSUME calm, NEW i \in 1 .. n + 1, NEW j \in 1 .. n + 1, i <= j
        PROVE  hs[j].rank <= hs[i].rank
    <2>1. \A k, l \in 1 .. n : k <= l => gs[l].rank <= gs[k].rank
      BY <1>1, <1>8 DEF Chain
    <2>2. \A k \in 1 .. n + 1 : hs[k].rank \in Nat
      <3>1. \A k \in 1 .. n + 1 : hs[k] \in GhostType
        BY <1>4
      <3>2. QED
        BY <3>1 DEF GhostType
    <2>3. CASE j # n + 1
      <3>1. i \in 1 .. n /\ j \in 1 .. n
        BY <1>2, <1>8, <2>3
      <3>2. hs[i] = gs[i] /\ hs[j] = gs[j]
        BY <1>4, <3>1
      <3>3. QED
        BY <1>8, <2>1, <3>1, <3>2
    <2>4. CASE j = n + 1 /\ i # n + 1
      <3>1. i \in 1 .. n /\ n \in 1 .. n /\ i <= n /\ n \in 1 .. n + 1
        BY <1>2, <2>4
      <3>2. hs[n].rank <= hs[i].rank
        <4>1. gs[n].rank <= gs[i].rank
          BY <2>1, <3>1
        <4>2. QED
          BY <1>4, <3>1, <4>1
      <3>3. hs[n + 1].rank <= hs[n].rank
        <4>1. gt.rank <= gs[n].rank
          BY <1>5, <1>8
        <4>2. QED
          BY <1>4, <3>1, <4>1
      <3>4. hs[n + 1].rank \in Nat /\ hs[n].rank \in Nat /\ hs[i].rank \in Nat
        BY <2>2, <1>2, <3>1
      <3>5. hs[n + 1].rank <= hs[i].rank
        BY <3>2, <3>3, <3>4
      <3>6. QED
        BY <2>4, <3>5
    <2>5. CASE j = n + 1 /\ i = n + 1
      <3>1. hs[n + 1].rank \in Nat
        BY <1>2, <2>2
      <3>2. QED
        BY <2>5, <3>1
    <2>6. QED
      BY <2>3, <2>4, <2>5
  <1>9. Len(es) - 1 = n
    BY <1>2, <1>3
  <1>10. Chain(es, hs, src, calm, said)
    <2>1. hs \in Seq(GhostType) /\ Len(hs) = Len(es) /\ Len(es) = n + 1
      BY <1>3, <1>4
    <2>2. \A i \in 1 .. Len(es) - 1 : Under(es[i], hs[i], es[i + 1].kind, hs[i + 1].says, src, calm)
      BY <1>6, <1>9, Zenon
    <2>3. calm => \A i, j \in 1 .. Len(es) : i <= j => hs[j].rank <= hs[i].rank
      BY <1>8, <2>1, Zenon
    <2>4. QED
      BY <1>7, <2>1, <2>2, <2>3, Zenon DEF Chain
  <1>11. QED
    BY <1>1, <1>10, Zenon

\* What a frame above says is none of the frames' below business but its kind.
LEMMA ChainSwap ==
  ASSUME NEW fs \in Seq(FrameType), NEW gs, NEW src, NEW calm, NEW said,
         Chain(fs, gs, src, calm, said), fs # <<>>,
         NEW e \in FrameType, e.kind = Last(fs).kind,
         NEW es, es = Append(Front(fs), e)
  PROVE  /\ es \in Seq(FrameType) /\ es # <<>> /\ Last(es) = e
         /\ Chain(es, gs, src, calm, said)
  <1>1. PICK n, base : n = Len(fs) /\ base = Front(fs)
    OBVIOUS
  <1>2. /\ base \in Seq(FrameType) /\ n \in Nat /\ n >= 1 /\ Len(base) = n - 1
        /\ \A i \in 1 .. n - 1 : base[i] = fs[i]
        /\ Last(fs) = fs[n]
    <2>1. /\ Front(fs) \in Seq(FrameType) /\ Len(fs) \in Nat /\ Len(fs) \in 1 .. Len(fs)
          /\ Len(Front(fs)) = Len(fs) - 1
          /\ \A i \in 1 .. Len(fs) - 1 : Front(fs)[i] = fs[i]
          /\ Last(fs) = fs[Len(fs)]
      BY FrontLast
    <2>2. QED
      BY <1>1, <2>1
  <1>3. /\ es \in Seq(FrameType) /\ Len(es) = n /\ es[n] = e
        /\ \A i \in 1 .. n - 1 : es[i] = fs[i]
    <2>1. /\ Append(base, e) \in Seq(FrameType) /\ Len(Append(base, e)) = Len(base) + 1
          /\ \A i \in 1 .. Len(base) : Append(base, e)[i] = base[i]
          /\ Append(base, e)[Len(base) + 1] = e
      BY <1>2, AppendOne
    <2>2. es = Append(base, e) /\ Len(base) + 1 = n
      BY <1>1, <1>2
    <2>3. QED
      BY <1>2, <2>1, <2>2
  <1>4. es # <<>> /\ Last(es) = e
    BY <1>2, <1>3 DEF Last
  <1>5. \A i \in 1 .. n : es[i].kind = fs[i].kind
    BY <1>2, <1>3
  <1>6. ASSUME NEW i \in 1 .. n - 1
        PROVE  Under(es[i], gs[i], es[i + 1].kind, gs[i + 1].says, src, calm)
    <2>1. Under(fs[i], gs[i], fs[i + 1].kind, gs[i + 1].says, src, calm)
      BY <1>1 DEF Chain
    <2>2. i + 1 \in 1 .. n
      BY <1>2
    <2>3. es[i] = fs[i] /\ es[i + 1].kind = fs[i + 1].kind
      BY <1>3, <1>5, <2>2
    <2>4. QED
      BY <2>1, <2>3, Zenon
  <1>7. Chain(es, gs, src, calm, said)
    <2>1. /\ gs \in Seq(GhostType) /\ Len(gs) = n /\ gs[1].says = said
          /\ calm => \A i, j \in 1 .. n : i <= j => gs[j].rank <= gs[i].rank
      BY <1>1 DEF Chain
    <2>2. QED
      BY <1>3, <1>6, <2>1 DEF Chain
  <1>8. QED
    BY <1>3, <1>4, <1>7

\* and leaves the one that waits for it with what it says.
LEMMA ChainPop ==
  ASSUME NEW fs \in Seq(FrameType), NEW gs, NEW src, NEW calm, NEW said,
         Chain(fs, gs, src, calm, said), Len(fs) > 1
  PROVE  /\ Front(fs) \in Seq(FrameType) /\ Front(fs) # <<>> /\ Last(Front(fs)) = fs[Len(fs) - 1]
         /\ Chain(Front(fs), Front(gs), src, calm, said)
         /\ Last(fs) \in FrameType /\ Last(gs) \in GhostType
         /\ Last(Front(fs)) \in FrameType /\ Last(Front(gs)) \in GhostType
         /\ Under(Last(Front(fs)), Last(Front(gs)), Last(fs).kind, Last(gs).says, src, calm)
  <1>1. PICK n, es, hs : n = Len(fs) - 1 /\ es = Front(fs) /\ hs = Front(gs)
    OBVIOUS
  <1>2. Len(fs) = n + 1 /\ n \in Nat /\ n >= 1 /\ fs # <<>>
    BY <1>1
  <1>3. gs \in Seq(GhostType) /\ Len(gs) = n + 1 /\ gs # <<>>
    BY <1>2 DEF Chain
  <1>4. /\ es \in Seq(FrameType) /\ Len(es) = n /\ \A i \in 1 .. n : es[i] = fs[i]
        /\ Last(fs) = fs[n + 1] /\ Last(fs) \in FrameType
    <2>1. /\ Front(fs) \in Seq(FrameType) /\ Len(Front(fs)) = Len(fs) - 1
          /\ \A i \in 1 .. Len(fs) - 1 : Front(fs)[i] = fs[i]
          /\ Last(fs) = fs[Len(fs)] /\ Last(fs) \in FrameType
      BY <1>2, FrontLast
    <2>2. QED
      BY <1>1, <1>2, <2>1
  <1>5. /\ hs \in Seq(GhostType) /\ Len(hs) = n /\ \A i \in 1 .. n : hs[i] = gs[i]
        /\ Last(gs) = gs[n + 1] /\ Last(gs) \in GhostType
    <2>1. /\ Front(gs) \in Seq(GhostType) /\ Len(Front(gs)) = Len(gs) - 1
          /\ \A i \in 1 .. Len(gs) - 1 : Front(gs)[i] = gs[i]
          /\ Last(gs) = gs[Len(gs)] /\ Last(gs) \in GhostType
      BY <1>3, FrontLast
    <2>2. Len(gs) - 1 = n
      BY <1>2, <1>3
    <2>3. QED
      BY <1>1, <1>3, <2>1, <2>2
  <1>6. n \in 1 .. n /\ es # <<>> /\ hs # <<>>
    BY <1>2, <1>4, <1>5
  <1>7. /\ Last(es) = fs[n] /\ Last(hs) = gs[n]
        /\ Last(es) \in FrameType /\ Last(hs) \in GhostType
    BY <1>4, <1>5, <1>6 DEF Last
  <1>8. \A i \in 1 .. n : Under(fs[i], gs[i], fs[i + 1].kind, gs[i + 1].says, src, calm)
    BY <1>1, Zenon DEF Chain
  <1>9. Under(Last(es), Last(hs), Last(fs).kind, Last(gs).says, src, calm)
    BY <1>4, <1>5, <1>6, <1>7, <1>8, Zenon
  <1>10. Chain(es, hs, src, calm, said)
    <2>1. ASSUME NEW i \in 1 .. Len(es) - 1
          PROVE  Under(es[i], hs[i], es[i + 1].kind, hs[i + 1].says, src, calm)
      <3>1. i \in 1 .. n /\ i + 1 \in 1 .. n
        BY <1>2, <1>4
      <3>2. es[i] = fs[i] /\ hs[i] = gs[i] /\ es[i + 1] = fs[i + 1] /\ hs[i + 1] = gs[i + 1]
        BY <1>4, <1>5, <3>1
      <3>3. QED
        BY <1>8, <3>1, <3>2, Zenon
    <2>2. hs[1].says = said
      <3>1. gs[1].says = said /\ 1 \in 1 .. n
        BY <1>2 DEF Chain
      <3>2. QED
        BY <1>5, <3>1
    <2>3. ASSUME calm, NEW i \in 1 .. n, NEW j \in 1 .. n, i <= j
          PROVE  hs[j].rank <= hs[i].rank
      <3>1. i \in 1 .. Len(fs) /\ j \in 1 .. Len(fs)
        BY <1>2
      <3>2. gs[j].rank <= gs[i].rank
        BY <2>3, <3>1 DEF Chain
      <3>3. QED
        BY <1>5, <3>2
    <2>4. QED
      BY <1>4, <1>5, <2>1, <2>2, <2>3, Zenon DEF Chain
  <1>11. QED
    BY <1>1, <1>2, <1>4, <1>5, <1>6, <1>7, <1>9, <1>10, Zenon

\* The stack and what is meant by it: in the end said is said.
StackMeans(fs, src, calm, said) ==
  \E gs : /\ Chain(fs, gs, src, calm, said)
          /\ fs # <<>> => Atop(Last(fs), Last(gs), src, calm)

LEMMA LastAppended ==
  ASSUME NEW S, NEW s \in Seq(S), NEW x \in S
  PROVE  Append(s, x) # <<>> /\ Last(Append(s, x)) = x
  BY DEF Last

LEMMA PushMeans ==
  ASSUME NEW fs \in Seq(FrameType), NEW gs, NEW src, NEW calm, NEW said,
         Chain(fs, gs, src, calm, said), fs # <<>>,
         NEW t \in FrameType, Continues(Last(fs), Last(gs), t, src, calm)
  PROVE  StackMeans(Append(fs, t), src, calm, said)
  <1>0. PICK gt \in GhostType : /\ calm => gt.rank <= Last(gs).rank
                                /\ Under(Last(fs), Last(gs), t.kind, gt.says, src, calm)
                                /\ Atop(t, gt, src, calm)
    BY DEF Continues
  <1>1. Chain(Append(fs, t), Append(gs, gt), src, calm, said)
    BY <1>0, ChainPush
  <1>2. gs \in Seq(GhostType)
    BY DEF Chain
  <1>3. Last(Append(fs, t)) = t /\ Last(Append(gs, gt)) = gt
    BY <1>2, LastAppended
  <1>4. Atop(Last(Append(fs, t)), Last(Append(gs, gt)), src, calm)
    BY <1>0, <1>3, Zenon
  <1>5. QED
    BY <1>1, <1>4, Zenon DEF StackMeans

\* The ghost of the top.
LEMMA TopGhost ==
  ASSUME NEW fs \in Seq(FrameType), fs # <<>>, NEW gs, NEW src, NEW calm, NEW said,
         Chain(fs, gs, src, calm, said)
  PROVE  Last(fs) \in FrameType /\ Last(gs) \in GhostType
  <1>1. gs \in Seq(GhostType) /\ Len(gs) = Len(fs)
    BY DEF Chain
  <1>2. gs # <<>>
    BY <1>1
  <1>3. QED
    BY <1>1, <1>2, FrontLast

\* A call goes on with an argument, or with the body of its template in the
\* scope that is meant.
LEMMA DescendMeans ==
  ASSUME sources \in Fetchable, NEW src, src = sources,
         NEW fs \in Seq(FrameType), fs # <<>>, NEW gs, NEW calm, NEW said,
         Chain(fs, gs, src, calm, said),
         NEW base, base = Front(fs), NEW f, f = Last(fs), NEW g, g = Last(gs),
         Binds(f, g, src, calm),
         f.body # <<>>, NEW c, c = Head(f.body), c.t = "call", src[c.name] # Nil,
         f.depth + 1 <= MaxDepth
  PROVE  StackMeans(Descend(base, f), src, calm, said)
  <1>1. f \in FrameType /\ g \in GhostType /\ src \in Fetchable
    BY TopGhost
  <1>2. PICK d : d = f.depth + 1
    OBVIOUS
  <1>3. d \in 0 .. MaxDepth
    <2>1. f.depth \in 0 .. MaxDepth
      BY <1>1, FramesHaveFields DEF FrameFields
    <2>2. QED
      BY <1>2, <2>1, ConstantsAssumption
  <1>4. Descended(Descend(base, f), fs, f, c, d)
    BY <1>2, <1>3, Descends
  <1>5. CASE Len(f.bound) < Len(c.args)
    <2>1. PICK t : /\ Begun(t, "arg", Nil, c.args[Len(f.bound) + 1].body, f.args, d)
                   /\ Descend(base, f) = Append(fs, t)
      BY <1>4, <1>5, Zenon DEF Descended
    <2>2. PICK i : i = Len(f.bound) + 1
      OBVIOUS
    <2>3. /\ t \in FrameType /\ t.kind = "arg" /\ t.body = c.args[i].body /\ t.args = f.args
          /\ t.depth = d /\ t.bound = <<>> /\ t.out = <<>> /\ i \in 1 .. Len(c.args)
      BY <1>4, <1>5, <2>1, <2>2 DEF Begun, Descended
    <2>4. Continues(f, g, t, src, calm)
      BY <1>1, <1>2, <1>3, <2>2, <2>3, ArgumentTells
    <2>5. Continues(Last(fs), Last(gs), t, src, calm)
      BY <2>4, Zenon
    <2>6. StackMeans(Append(fs, t), src, calm, said)
      BY <2>3, <2>5, PushMeans
    <2>7. QED
      BY <2>1, <2>6, Zenon
  <1>6. CASE ~(Len(f.bound) < Len(c.args))
    <2>1. PICK e, t : /\ Resumed(e, f) /\ Begun(t, "body", c.name, sources[c.name], f.bound, d)
                      /\ Descend(base, f) = Append(Append(base, e), t)
      BY <1>4, <1>6, Zenon DEF Descended
    <2>2. /\ t \in FrameType /\ t.kind = "body" /\ t.name = c.name /\ t.body = src[c.name]
          /\ t.args = f.bound /\ t.depth = d /\ t.bound = <<>> /\ t.out = <<>>
      BY <2>1 DEF Begun
    <2>3. /\ e \in FrameType /\ e.kind = f.kind /\ e.name = f.name /\ e.args = f.args
          /\ e.depth = f.depth /\ e.body = Tail(f.body) /\ e.bound = <<>> /\ e.out = f.out
      BY <2>1 DEF Resumed
    <2>4. Continues(e, g, t, src, calm)
      BY <1>1, <1>2, <1>3, <1>6, <2>2, <2>3, BodyTells
    <2>5. PICK es : es = Append(base, e)
      OBVIOUS
    <2>6. e.kind = Last(fs).kind /\ es = Append(Front(fs), e)
      BY <2>3, <2>5
    <2>7. es \in Seq(FrameType) /\ es # <<>> /\ Last(es) = e /\ Chain(es, gs, src, calm, said)
      BY <2>3, <2>6, ChainSwap
    <2>8. Continues(Last(es), Last(gs), t, src, calm)
      BY <2>4, <2>7, Zenon
    <2>9. StackMeans(Append(es, t), src, calm, said)
      BY <2>2, <2>7, <2>8, PushMeans
    <2>10. QED
      BY <2>1, <2>5, <2>9, Zenon
  <1>7. QED
    BY <1>5, <1>6

\* On a shallow page a call is of no template that is being expanded.
LEMMA NotActive ==
  ASSUME NEW fs, NEW src, Stack(fs, src), NEW gs, NEW calm, NEW said, calm,
         Chain(fs, gs, src, calm, said), fs # <<>>, Atop(Last(fs), Last(gs), src, calm),
         NEW c, c.name \in Name, CallCalm(src, c, Last(gs).rank)
  PROVE  \A k \in 1 .. Len(fs) : fs[k].name # c.name
  <1>1. fs \in Seq(FrameType) /\ gs \in Seq(GhostType) /\ Len(gs) = Len(fs)
    BY DEF Stack, Chain
  <1>2. PICK n, r : n = Len(fs) /\ r = Last(gs).rank
    OBVIOUS
  <1>3. n \in Nat /\ n \in 1 .. n /\ Last(fs) = fs[n] /\ Last(gs) = gs[n]
    BY <1>1, <1>2 DEF Last
  <1>4. r \in Nat /\ r >= 1 /\ Shallow(src)[r - 1][src[c.name]] /\ r - 1 \in Nat
    <2>1. gs[n] \in GhostType
      BY <1>1, <1>2, <1>3
    <2>2. r \in Nat
      BY <1>2, <1>3, <2>1 DEF GhostType
    <2>3. r >= 1 /\ Shallow(src)[r - 1][src[c.name]]
      BY <1>2 DEF CallCalm
    <2>4. QED
      BY <2>2, <2>3
  <1>5. ASSUME NEW k \in 1 .. n, fs[k].name = c.name PROVE FALSE
    <2>1. fs[k].kind = "body"
      BY <1>2, <1>5 DEF Stack
    <2>2. FrameCalm(fs[k], gs[k], src)
      <3>1. CASE k = n
        BY <1>3, <3>1 DEF Atop, FrameTells
      <3>2. CASE k # n
        <4>1. k \in 1 .. Len(fs) - 1
          BY <1>2, <1>3, <3>2
        <4>2. Under(fs[k], gs[k], fs[k + 1].kind, gs[k + 1].says, src, calm)
          BY <4>1 DEF Chain
        <4>3. QED
          BY <4>2, Zenon DEF Under, Binds, FrameTells
      <3>3. QED
        BY <3>1, <3>2
    <2>3. gs[k].rank <= r - 1
      <3>1. Shallow(src)[r - 1][src[fs[k].name]]
        BY <1>4, <1>5, Zenon DEF Descended
      <3>2. QED
        BY <1>4, <2>1, <2>2, <3>1 DEF FrameCalm
    <2>4. r <= gs[k].rank
      BY <1>2, <1>3 DEF Chain
    <2>5. gs[k].rank \in Nat
      <3>1. gs[k] \in GhostType
        BY <1>1, <1>2
      <3>2. QED
        BY <3>1 DEF GhostType
    <2>6. QED
      BY <1>4, <2>3, <2>4, <2>5
  <1>6. QED
    BY <1>2, <1>5

-----------------------------------------------------------------------------
(* Every step of the expansion keeps what is meant.                          *)

\* What the page is meant to say, as what its parts say.
LEMMA PageIsSaid ==
  ASSUME NEW src \in Fetchable, NEW b \in Body
  PROVE  /\ PageSays(src, b) = Say(PageParts(src, Meaning(src)[MaxDepth]), b)
         /\ PageSays(src, b) \in Seq(AnyPart)
  <1>1. PICK m, h : m = Meaning(src)[MaxDepth] /\ h = PageParts(src, m)
    OBVIOUS
  <1>2. m \in Meanings
    BY <1>1, MeaningUnfolds, ConstantsAssumption
  <1>3. /\ h \in Says
        /\ \A x \in AnyPart : h[x] = IF x.t = "ref" THEN <<x>> ELSE CallSays(src, m, x, <<>>)
    BY <1>1, <1>2, PagePartsTypes
  <1>4. b \in Seq(AnyPart)
    BY TextsAreParts
  <1>5. \A i \in DOMAIN b : b[i] \in AnyPart
    BY <1>4
  <1>6. \A i \in DOMAIN b : h[b[i]] = IF b[i].t = "ref" THEN <<b[i]>> ELSE CallSays(src, m, b[i], <<>>)
    BY <1>3, <1>5
  <1>7. [i \in DOMAIN b |-> IF b[i].t = "ref" THEN <<b[i]>> ELSE CallSays(src, m, b[i], <<>>)]
          = [i \in DOMAIN b |-> h[b[i]]]
    BY <1>6
  <1>8. PageSays(src, b) = Say(h, b)
    BY <1>1, <1>7, Zenon DEF PageSays, Say
  <1>9. Say(h, b) \in Seq(AnyPart)
    BY <1>3, <1>4, SayTexts
  <1>10. QED
    BY <1>1, <1>8, <1>9, Zenon

\* An expansion that starts has said nothing and has everything to say.
LEMMA StartMeans ==
  ASSUME page \in Body, NEW src \in Fetchable, NEW calm, calm <=> Shallow(src)[MaxDepth][page],
         NEW said, said = PageSays(src, page)
  PROVE  StackMeans(<<Frame("page", Nil, page, <<>>, 0)>>, src, calm, said)
  <1>1. PICK b, t, fs : b = page /\ t = Frame("page", Nil, b, <<>>, 0) /\ fs = <<t>>
    OBVIOUS
  <1>2. b \in Body /\ b \in Seq(AnyPart) /\ 0 \in 0 .. MaxDepth /\ MaxDepth \in Nat
    BY <1>1, TextsAreParts, ConstantsAssumption
  <1>3. Begun(t, "page", Nil, b, <<>>, 0)
    <2>1. <<>> \in Seq(Binding) /\ Nil \in Name \cup {Nil}
      OBVIOUS
    <2>2. QED
      BY <1>1, <1>2, <2>1, FrameBegins
  <1>4. /\ t \in FrameType /\ t.kind = "page" /\ t.body = b
        /\ t.args = <<>> /\ t.depth = 0 /\ t.bound = <<>> /\ t.out = <<>>
    BY <1>3 DEF Begun
  <1>5. said = Say(PageParts(src, Meaning(src)[MaxDepth]), b) /\ said \in Seq(AnyPart)
    BY <1>1, <1>2, PageIsSaid
  <1>6. PICK gt, gs : gt = [args |-> <<>>, says |-> said, rank |-> MaxDepth] /\ gs = <<gt>>
    OBVIOUS
  <1>7. gt \in GhostType /\ gt.args = <<>> /\ gt.says = said /\ gt.rank = MaxDepth
    BY <1>2, <1>5, <1>6 DEF GhostType
  <1>8. FrameSay(src, t, gt.args) = PageParts(src, Meaning(src)[MaxDepth])
    <2>1. MaxDepth - t.depth = MaxDepth
      BY <1>2, <1>4
    <2>2. Depths(src, t) = Meaning(src)[MaxDepth]
      BY <2>1, Zenon DEF Depths
    <2>3. QED
      BY <1>4, <2>2, Zenon DEF FrameSay
  <1>9. Clean(t.body) => gt.says = Say(FrameSay(src, t, gt.args), t.body)
    BY <1>4, <1>5, <1>7, <1>8, Zenon
  <1>10. Agree(t.args, gt.args) /\ ArgsClean(t.args) /\ PlainDefaults(t.body)
    <2>1. Agree(<<>>, <<>>) /\ ArgsClean(<<>>)
      BY DEF Agree, AgreeSoFar, ArgsClean
    <2>2. PlainDefaults(b)
      BY <1>2, TextIsPlain
    <2>3. QED
      BY <1>4, <1>7, <2>1, <2>2, Zenon
  <1>11. calm => /\ gt.rank + t.depth <= MaxDepth
                 /\ TextCalm(src, t.body, gt.rank) /\ ArgsClean(t.args)
    <2>1. ASSUME calm PROVE TextCalm(src, t.body, gt.rank)
      <3>1. Shallow(src)[MaxDepth][b]
        BY <1>1, <2>1, Zenon
      <3>2. TextCalm(src, b, MaxDepth)
        BY <1>2, <3>1, TextIsCalm
      <3>3. QED
        BY <1>4, <1>7, <3>2, Zenon
    <2>2. gt.rank + t.depth <= MaxDepth
      BY <1>2, <1>4, <1>7
    <2>3. QED
      BY <1>10, <2>1, <2>2
  <1>12. Atop(t, gt, src, calm)
    <2>1. gt.says \in Seq(AnyPart) /\ t.kind # "body" /\ gt.args = <<>>
      BY <1>4, <1>5, <1>7
    <2>2. QED
      BY <1>4, <1>9, <1>10, <1>11, <2>1, FirstTells
  <1>13. Chain(fs, gs, src, calm, said)
    <2>1. /\ gs \in Seq(GhostType) /\ Len(gs) = 1 /\ Len(fs) = 1 /\ gs[1] = gt
          /\ 1 .. Len(fs) - 1 = {} /\ \A i \in 1 .. Len(fs) : i = 1
      BY <1>1, <1>6, <1>7
    <2>2. gt.rank <= gt.rank
      BY <1>2, <1>7
    <2>3. calm => \A i, j \in 1 .. Len(fs) : i <= j => gs[j].rank <= gs[i].rank
      BY <2>1, <2>2
    <2>4. QED
      BY <1>7, <2>1, <2>3 DEF Chain
  <1>14. Last(fs) = t /\ Last(gs) = gt
    BY <1>1, <1>6 DEF Last
  <1>15. StackMeans(fs, src, calm, said)
    BY <1>12, <1>13, <1>14, Zenon DEF StackMeans
  <1>16. QED
    BY <1>1, <1>15, Zenon

\* One more part is put out: as it stands, or a diagnostic instead of a call.
LEMMA EmitMeans ==
  ASSUME NEW src \in Fetchable, NEW calm, NEW said, NEW fs \in Seq(FrameType), fs # <<>>,
         StackMeans(fs, src, calm, said),
         NEW f, f = Last(fs), f.body # <<>>, NEW x \in AnyPart,
         \/ x = Head(f.body) /\ x.t # "call" /\ (x.t = "ref" => f.kind = "page")
         \/ x.t \in Errors /\ ~calm
  PROVE  StackMeans(Append(Front(fs), [f EXCEPT !.body = Tail(@), !.out = Append(@, x)]),
                    src, calm, said)
  <1>1. PICK gs : Chain(fs, gs, src, calm, said) /\ Atop(f, Last(gs), src, calm)
    BY Zenon DEF StackMeans
  <1>2. PICK g : g = Last(gs)
    OBVIOUS
  <1>3. f \in FrameType /\ g \in GhostType
    BY <1>1, <1>2, TopGhost
  <1>4. FrameFields(f)
    BY <1>3, FramesHaveFields
  <1>5. PICK b, o : b = Tail(f.body) /\ o = Append(f.out, x)
    OBVIOUS
  <1>6. b \in Seq(AnyPart) /\ o \in Seq(AnyPart)
    BY <1>4, <1>5, HeadTail DEF FrameFields
  <1>7. PICK e : e = [f EXCEPT !.body = b, !.out = o]
    OBVIOUS
  <1>8. /\ e \in FrameType /\ e.kind = f.kind /\ e.name = f.name /\ e.args = f.args
        /\ e.depth = f.depth /\ e.body = b /\ e.bound = f.bound /\ e.out = o
    BY <1>3, <1>6, <1>7 DEF FrameType
  <1>9. [f EXCEPT !.body = Tail(@), !.out = Append(@, x)] = e
    BY <1>3, <1>5, <1>7 DEF FrameType
  <1>10. Atop(e, g, src, calm)
    <2>1. Atop(f, g, src, calm)
      BY <1>1, <1>2
    <2>2. e.body = Tail(f.body) /\ e.out = Append(f.out, x)
      BY <1>5, <1>8
    <2>3. QED
      BY <1>3, <1>8, <2>1, <2>2, EmitTells
  <1>11. PICK es : es = Append(Front(fs), e)
    OBVIOUS
  <1>12. Last(es) = e /\ Chain(es, gs, src, calm, said)
    <2>1. e.kind = Last(fs).kind /\ e \in FrameType
      BY <1>8
    <2>2. Chain(fs, gs, src, calm, said)
      BY <1>1
    <2>3. QED
      BY <1>11, <2>1, <2>2, ChainSwap
  <1>13. StackMeans(es, src, calm, said)
    BY <1>2, <1>10, <1>12, Zenon DEF StackMeans
  <1>14. QED
    BY <1>9, <1>11, <1>13, Zenon

\* A call that the top comes to: none of its arguments is bound yet.
LEMMA AtopBinds ==
  ASSUME NEW src \in Fetchable, NEW f \in FrameType, NEW g \in GhostType, NEW calm,
         Atop(f, g, src, calm), f.body # <<>>, NEW c, c = Head(f.body), c.t = "call"
  PROVE  Binds(f, g, src, calm)
  <1>1. FrameMeans(f, g, src, <<>>) /\ FrameTells(f, g, src, calm, <<>>) /\ f.bound = <<>>
    BY DEF Atop, FrameTells
  <1>2. PICK m : m = Depths(src, f)
    OBVIOUS
  <1>3. FrameFields(f) /\ g.args \in Seq(Binding) /\ m \in Meanings
    BY <1>1, <1>2, Scope DEF FrameMeans
  <1>4. c \in AnyPart
    BY <1>3, HeadTail DEF FrameFields
  <1>5. PICK ms : ms = Meant(m, c, g.args)
    OBVIOUS
  <1>6. ms \in Seq(Binding)
    BY <1>3, <1>4, <1>5, MeantTypes
  <1>7. MeantAt(f, g, src) = ms
    BY <1>2, <1>5, Zenon DEF MeantAt
  <1>8. AgreeSoFar(<<>>, ms)
    BY <1>6 DEF AgreeSoFar
  <1>9. QED
    BY <1>1, <1>7, <1>8, Zenon DEF Binds

\* On a shallow page no call is refused.
LEMMA CallMayBeMade ==
  ASSUME NEW src \in Fetchable, NEW f \in FrameType, NEW g \in GhostType, NEW calm, calm,
         Atop(f, g, src, calm), f.body # <<>>, NEW c, c = Head(f.body), c.t = "call"
  PROVE  CallCalm(src, c, g.rank) /\ f.depth + 1 <= MaxDepth
  <1>1. FrameCalm(f, g, src)
    BY DEF Atop, FrameTells
  <1>2. PICK b : b = f.body
    OBVIOUS
  <1>3. b \in Seq(AnyPart) /\ b # <<>> /\ c = Head(b) /\ f.depth \in 0 .. MaxDepth
    BY <1>2, FramesHaveFields DEF FrameFields
  <1>4. TextCalm(src, b, g.rank)
    BY <1>1, <1>2 DEF FrameCalm
  <1>5. PartCalm(src, c, g.rank)
    BY <1>3, <1>4, RestIs
  <1>6. CallCalm(src, c, g.rank)
    BY <1>5 DEF PartCalm
  <1>7. g.rank >= 1 /\ g.rank \in Nat /\ g.rank + f.depth <= MaxDepth
    BY <1>1, <1>6 DEF CallCalm, FrameCalm, GhostType
  <1>8. f.depth + 1 <= MaxDepth
    BY <1>3, <1>7, ConstantsAssumption
  <1>9. QED
    BY <1>6, <1>8

\* One lemma for every step of the expansion: text is said as it is;
LEMMA CopyMeans ==
  ASSUME sources \in Fetchable, Stack(frames, sources), NEW calm, NEW said,
         StackMeans(frames, sources, calm, said), Copy
  PROVE  StackMeans(frames', sources, calm, said)
  <1>1. /\ frames # <<>> /\ Top.body # <<>> /\ Part.t # "call"
        /\ Part.t = "ref" => Top.kind = "page"
        /\ frames' = Append(Front(frames), [Top EXCEPT !.body = Tail(@), !.out = Append(@, Part)])
    BY DEF Copy, Awaits, Emit, Errors
  <1>2. PICK fs, f, x, src : fs = frames /\ f = Last(fs) /\ x = Head(f.body) /\ src = sources
    OBVIOUS
  <1>3. /\ fs # <<>> /\ f.body # <<>> /\ x.t # "call" /\ (x.t = "ref" => f.kind = "page")
        /\ frames' = Append(Front(fs), [f EXCEPT !.body = Tail(@), !.out = Append(@, x)])
        /\ fs \in Seq(FrameType) /\ src \in Fetchable /\ StackMeans(fs, src, calm, said)
    BY <1>1, <1>2 DEF Top, Part, Stack
  <1>4. x \in AnyPart
    <2>1. f \in FrameType
      BY <1>2, <1>3, FrontLast
    <2>2. QED
      BY <1>2, <1>3, <2>1, FramesHaveFields, HeadTail DEF FrameFields
  <1>5. StackMeans(Append(Front(fs), [f EXCEPT !.body = Tail(@), !.out = Append(@, x)]), src, calm, said)
    BY <1>2, <1>3, <1>4, EmitMeans
  <1>6. QED
    BY <1>2, <1>3, <1>5, Zenon

\* a diagnostic is put out where there is cause for one, which a calm text gives not;
LEMMA RefuseMeans ==
  ASSUME sources \in Fetchable, Stack(frames, sources), NEW calm, NEW said,
         StackMeans(frames, sources, calm, said), Refuse
  PROVE  StackMeans(frames', sources, calm, said)
  <1>1. PICK fs, f, c, k, src : /\ fs = frames /\ f = Last(fs) /\ c = Head(f.body)
                                /\ k = Refusal(c.name, f.depth) /\ src = sources
    OBVIOUS
  <1>2. PICK x : x = Error(k, c.name)
    OBVIOUS
  <1>3. /\ fs # <<>> /\ f.body # <<>> /\ c.t = "call" /\ k # Nil
        /\ frames' = Append(Front(fs), [f EXCEPT !.body = Tail(@), !.out = Append(@, x)])
        /\ src \in Fetchable /\ Stack(fs, src) /\ StackMeans(fs, src, calm, said)
    BY <1>1, <1>2 DEF Refuse, Emit, Awaits, Top, Part
  <1>4. fs \in Seq(FrameType)
    BY <1>3 DEF Stack
  <1>5. f \in FrameType
    BY <1>1, <1>3, <1>4, FrontLast
  <1>6. c \in AnyPart /\ f.depth \in 0 .. MaxDepth
    BY <1>1, <1>3, <1>5, FramesHaveFields, HeadTail DEF FrameFields
  <1>7. c.name \in Name /\ k \in Errors
    BY <1>1, <1>3, <1>6, PartTypes DEF Refusal, Errors
  <1>8. x \in AnyPart /\ x.t \in Errors
    BY <1>2, <1>7, ErrorIsPart
  <1>9. ASSUME calm PROVE FALSE
    <2>1. PICK gs : Chain(fs, gs, src, calm, said) /\ Atop(Last(fs), Last(gs), src, calm)
      BY <1>3, Zenon DEF StackMeans
    <2>2. PICK g : g = Last(gs)
      OBVIOUS
    <2>3. g \in GhostType
      BY <1>3, <1>4, <2>1, <2>2, TopGhost
    <2>4. Atop(f, g, src, calm)
      BY <1>1, <2>1, <2>2, Zenon
    <2>5. CallCalm(src, c, g.rank) /\ f.depth + 1 <= MaxDepth
      BY <1>1, <1>3, <1>5, <1>9, <2>3, <2>4, CallMayBeMade
    <2>6. \A j \in 1 .. Len(fs) : fs[j].name # c.name
      <3>1. CallCalm(src, c, Last(gs).rank)
        BY <2>2, <2>5, Zenon
      <3>2. QED
        BY <1>3, <1>7, <1>9, <2>1, <3>1, NotActive
    <2>7. src[c.name] # Nil
      BY <2>5 DEF CallCalm
    <2>8. c.name \notin Active
      BY <1>1, <1>4, <2>6 DEF Active
    <2>9. ~(f.depth + 1 > MaxDepth)
      BY <1>6, <2>5, ConstantsAssumption
    <2>10. k = Nil
      BY <1>1, <2>7, <2>8, <2>9 DEF Refusal
    <2>11. QED
      BY <1>3, <2>10
  <1>10. StackMeans(Append(Front(fs), [f EXCEPT !.body = Tail(@), !.out = Append(@, x)]), src, calm, said)
    BY <1>1, <1>3, <1>4, <1>8, <1>9, EmitMeans
  <1>11. QED
    BY <1>1, <1>3, <1>10, Zenon

\* a call is gone into;
LEMMA TranscludeMeans ==
  ASSUME sources \in Fetchable, Stack(frames, sources), NEW calm, NEW said,
         StackMeans(frames, sources, calm, said), Transclude
  PROVE  StackMeans(frames', sources, calm, said)
  <1>1. PICK fs, f, c, base, src : /\ fs = frames /\ f = Last(fs) /\ c = Head(f.body)
                                   /\ base = Front(fs) /\ src = sources
    OBVIOUS
  <1>2. /\ fs # <<>> /\ f.body # <<>> /\ c.t = "call" /\ Refusal(c.name, f.depth) = Nil
        /\ frames' = Descend(base, f) /\ fs \in Seq(FrameType)
        /\ src \in Fetchable /\ StackMeans(fs, src, calm, said)
    BY <1>1 DEF Transclude, Awaits, Top, Part, Stack
  <1>3. PICK gs : Chain(fs, gs, src, calm, said) /\ Atop(Last(fs), Last(gs), src, calm)
    BY <1>2, Zenon DEF StackMeans
  <1>4. PICK g : g = Last(gs)
    OBVIOUS
  <1>5. f \in FrameType /\ g \in GhostType
    BY <1>1, <1>2, <1>3, <1>4, TopGhost
  <1>6. Atop(f, g, src, calm)
    BY <1>1, <1>3, <1>4, Zenon
  <1>7. Binds(f, g, src, calm)
    BY <1>1, <1>2, <1>5, <1>6, AtopBinds
  <1>8. src[c.name] # Nil /\ f.depth + 1 <= MaxDepth
    <2>1. f.depth \in 0 .. MaxDepth
      BY <1>5, FramesHaveFields DEF FrameFields
    <2>2. QED
      BY <1>1, <1>2, <2>1, NotRefused
  <1>9. StackMeans(Descend(base, f), src, calm, said)
    BY <1>1, <1>2, <1>3, <1>4, <1>7, <1>8, DescendMeans
  <1>10. QED
    BY <1>1, <1>2, <1>9, Zenon

\* a reference becomes what it stands for, which is looked at again in vain;
LEMMA ReferMeans ==
  ASSUME sources \in Fetchable, Stack(frames, sources), NEW calm, NEW said,
         StackMeans(frames, sources, calm, said), Refer
  PROVE  StackMeans(frames', sources, calm, said)
  <1>1. PICK fs, f, x, v, src : /\ fs = frames /\ f = Last(fs) /\ x = Head(f.body)
                                /\ v = Value(x, f.args) /\ src = sources
    OBVIOUS
  <1>2. PICK t : t = Frame("param", Nil, v, f.args, f.depth)
    OBVIOUS
  <1>3. /\ fs # <<>> /\ f.body # <<>> /\ x.t = "ref" /\ f.kind # "page"
        /\ frames' = Append(Append(Front(fs), [f EXCEPT !.body = Tail(@)]), t)
        /\ fs \in Seq(FrameType) /\ src \in Fetchable /\ StackMeans(fs, src, calm, said)
    BY <1>1, <1>2 DEF Refer, Awaits, Top, Part, Stack
  <1>4. PICK gs : Chain(fs, gs, src, calm, said) /\ Atop(Last(fs), Last(gs), src, calm)
    BY <1>3, Zenon DEF StackMeans
  <1>5. PICK g : g = Last(gs)
    OBVIOUS
  <1>6. f \in FrameType /\ g \in GhostType
    BY <1>1, <1>3, <1>4, <1>5, TopGhost
  <1>7. Atop(f, g, src, calm) /\ f.bound = <<>>
    <2>1. Atop(f, g, src, calm)
      BY <1>1, <1>4, <1>5, Zenon
    <2>2. QED
      BY <2>1 DEF Atop
  <1>8. FrameFields(f)
    BY <1>6, FramesHaveFields
  <1>9. x \in AnyPart /\ Tail(f.body) \in Seq(AnyPart)
    BY <1>1, <1>3, <1>8, HeadTail DEF FrameFields
  <1>10. v \in Seq(AnyPart)
    BY <1>1, <1>3, <1>8, <1>9, ValueTypes DEF FrameFields
  <1>11. Begun(t, "param", Nil, v, f.args, f.depth)
    <2>1. f.args \in Seq(Binding) /\ f.depth \in 0 .. MaxDepth /\ Nil \in Name \cup {Nil}
      BY <1>8 DEF FrameFields
    <2>2. QED
      BY <1>2, <1>10, <2>1, FrameBegins
  <1>12. PICK b, e : b = Tail(f.body) /\ e = [f EXCEPT !.body = b]
    OBVIOUS
  <1>13. /\ e \in FrameType /\ e.kind = f.kind /\ e.name = f.name /\ e.args = f.args
         /\ e.depth = f.depth /\ e.body = Tail(f.body) /\ e.bound = <<>> /\ e.out = f.out
    <2>1. b \in Seq(AnyPart)
      BY <1>9, <1>12
    <2>2. /\ e \in FrameType /\ e.kind = f.kind /\ e.name = f.name /\ e.args = f.args
          /\ e.depth = f.depth /\ e.body = b /\ e.bound = f.bound /\ e.out = f.out
      BY <1>6, <1>12, <2>1 DEF FrameType
    <2>3. QED
      BY <1>7, <1>12, <2>2
  <1>14. /\ t \in FrameType /\ t.kind = "param" /\ t.body = Value(x, f.args) /\ t.args = f.args
         /\ t.depth = f.depth /\ t.bound = <<>> /\ t.out = <<>>
    BY <1>1, <1>11 DEF Begun
  <1>15. Continues(e, g, t, src, calm)
    BY <1>1, <1>3, <1>6, <1>7, <1>13, <1>14, ReferTells
  <1>16. PICK es : es = Append(Front(fs), e)
    OBVIOUS
  <1>17. es \in Seq(FrameType) /\ es # <<>> /\ Last(es) = e /\ Chain(es, gs, src, calm, said)
    <2>1. e.kind = Last(fs).kind /\ e \in FrameType
      BY <1>1, <1>13
    <2>2. Chain(fs, gs, src, calm, said) /\ fs \in Seq(FrameType) /\ fs # <<>>
      BY <1>3, <1>4
    <2>3. QED
      BY <1>16, <2>1, <2>2, ChainSwap
  <1>18. Continues(Last(es), Last(gs), t, src, calm)
    BY <1>5, <1>15, <1>17, Zenon
  <1>19. StackMeans(Append(es, t), src, calm, said)
    BY <1>14, <1>17, <1>18, PushMeans
  <1>20. frames' = Append(es, t)
    <2>1. e = [f EXCEPT !.body = Tail(@)]
      BY <1>6, <1>12 DEF FrameType
    <2>2. QED
      BY <1>3, <1>16, <2>1, Zenon
  <1>21. QED
    BY <1>1, <1>19, <1>20, Zenon

\* An argument is through.
LEMMA BindMeans ==
  ASSUME sources \in Fetchable, NEW src, src = sources, NEW calm, NEW said,
         NEW fs, Stack(fs, src), Len(fs) > 1, StackMeans(fs, src, calm, said),
         NEW t, t = Last(fs), t.kind = "arg", t.body = <<>>,
         NEW f, f = Last(Front(fs)), NEW v,
         v = [name |-> Head(f.body).args[Len(f.bound) + 1].name, value |-> t.out]
  PROVE  StackMeans(Descend(Front(Front(fs)), [f EXCEPT !.bound = Append(@, v)]), src, calm, said)
  <1>1. fs \in Seq(FrameType) /\ fs # <<>> /\ Len(fs) \in Nat /\ src \in Fetchable
    BY DEF Stack
  <1>2. PICK gs : Chain(fs, gs, src, calm, said) /\ Atop(Last(fs), Last(gs), src, calm)
    BY <1>1, Zenon DEF StackMeans
  <1>3. PICK ps, hs, c, g, gt : /\ ps = Front(fs) /\ hs = Front(gs) /\ c = Head(f.body)
                                /\ g = Last(hs) /\ gt = Last(gs)
    OBVIOUS
  <1>4. /\ ps \in Seq(FrameType) /\ ps # <<>> /\ f = Last(ps) /\ f = fs[Len(fs) - 1]
        /\ Chain(ps, hs, src, calm, said)
        /\ t \in FrameType /\ gt \in GhostType /\ f \in FrameType /\ g \in GhostType
        /\ Under(f, g, "arg", gt.says, src, calm) /\ Atop(t, gt, src, calm)
    <2>1. /\ Front(fs) \in Seq(FrameType) /\ Front(fs) # <<>> /\ Last(Front(fs)) = fs[Len(fs) - 1]
          /\ Chain(Front(fs), Front(gs), src, calm, said)
          /\ Last(fs) \in FrameType /\ Last(gs) \in GhostType
          /\ Last(Front(fs)) \in FrameType /\ Last(Front(gs)) \in GhostType
          /\ Under(Last(Front(fs)), Last(Front(gs)), Last(fs).kind, Last(gs).says, src, calm)
      BY <1>1, <1>2, ChainPop
    <2>2. QED
      BY <1>2, <1>3, <2>1, Zenon
  <1>5. /\ f.body # <<>> /\ c.t = "call" /\ Len(f.bound) < Len(c.args)
        /\ src[c.name] # Nil /\ f.depth + 1 <= MaxDepth
    <2>1. Len(fs) \in 1 .. Len(fs) /\ Last(fs) = fs[Len(fs)]
      BY <1>1, FrontLast
    <2>2. Waits(fs, Len(fs) - 1, src)
      BY <2>1 DEF Stack
    <2>3. QED
      BY <1>3, <1>4, <2>2 DEF Waits
  <1>6. FrameFields(f) /\ t.out \in Seq(AnyPart)
    BY <1>4, FramesHaveFields DEF FrameFields
  <1>7. c \in AnyPart
    BY <1>3, <1>5, <1>6, HeadTail DEF FrameFields
  <1>8. PICK i : i = Len(f.bound) + 1
    OBVIOUS
  <1>9. i \in 1 .. Len(c.args)
    <2>1. c.args \in Seq([name : STRING, body : Body])
      BY <1>5, <1>7, PartTypes
    <2>2. QED
      BY <1>5, <1>6, <1>8, <2>1 DEF FrameFields
  <1>10. v \in Binding /\ v.name = c.args[i].name /\ v.value = t.out
    <2>1. c.args[i].name \in STRING
      BY <1>5, <1>7, <1>9, ArgOfCall
    <2>2. QED
      BY <1>3, <1>6, <1>8, <2>1 DEF Binding
  <1>11. PICK u : u = Append(f.bound, v)
    OBVIOUS
  <1>12. u \in Seq(Binding)
    BY <1>6, <1>10, <1>11, AppendOne DEF FrameFields
  <1>13. PICK e : e = [f EXCEPT !.bound = u]
    OBVIOUS
  <1>14. /\ e \in FrameType /\ e.kind = f.kind /\ e.name = f.name /\ e.args = f.args
         /\ e.depth = f.depth /\ e.body = f.body /\ e.bound = u /\ e.out = f.out
         /\ e = [f EXCEPT !.bound = Append(@, v)]
    BY <1>4, <1>11, <1>12, <1>13 DEF FrameType
  <1>15. Binds(e, g, src, calm)
    <2>1. Bound(e, f, v) /\ e \in FrameType
      BY <1>11, <1>14 DEF Bound
    <2>2. QED
      BY <1>1, <1>3, <1>4, <1>5, <1>8, <1>9, <1>10, <2>1, BindTells
  <1>16. PICK base, es : base = Front(ps) /\ es = Append(base, e)
    OBVIOUS
  <1>17. es \in Seq(FrameType) /\ es # <<>> /\ Last(es) = e /\ Chain(es, hs, src, calm, said)
    <2>1. e.kind = Last(ps).kind /\ e \in FrameType /\ es = Append(Front(ps), e)
      BY <1>4, <1>14, <1>16
    <2>2. Chain(ps, hs, src, calm, said) /\ ps \in Seq(FrameType) /\ ps # <<>>
      BY <1>4
    <2>3. QED
      BY <2>1, <2>2, ChainSwap
  <1>18. Front(es) = base
    <2>1. base \in Seq(FrameType)
      BY <1>4, <1>16, FrontLast
    <2>2. Len(es) - 1 = Len(base) /\ SubSeq(es, 1, Len(base)) = base
      BY <1>14, <1>16, <2>1
    <2>3. QED
      BY <2>2 DEF Front
  <1>19. StackMeans(Descend(base, e), src, calm, said)
    <2>1. c = Head(e.body) /\ e.body # <<>> /\ e.depth + 1 <= MaxDepth /\ src[c.name] # Nil
      BY <1>3, <1>5, <1>14, Zenon
    <2>2. base = Front(es) /\ e = Last(es) /\ g = Last(hs)
      BY <1>3, <1>17, <1>18
    <2>3. QED
      BY <1>5, <1>15, <1>17, <2>1, <2>2, DescendMeans
  <1>20. QED
    BY <1>3, <1>14, <1>16, <1>19, Zenon

\* A value or a body is through.
LEMMA PutOutMeans ==
  ASSUME NEW src \in Fetchable, NEW calm, NEW said,
         NEW fs, Stack(fs, src), Len(fs) > 1, StackMeans(fs, src, calm, said),
         NEW t, t = Last(fs), t.kind # "arg", t.body = <<>>,
         NEW f, f = Last(Front(fs))
  PROVE  StackMeans(Append(Front(Front(fs)), [f EXCEPT !.out = @ \o t.out]), src, calm, said)
  <1>1. fs \in Seq(FrameType) /\ fs # <<>> /\ Len(fs) \in Nat
    BY DEF Stack
  <1>2. PICK gs : Chain(fs, gs, src, calm, said) /\ Atop(Last(fs), Last(gs), src, calm)
    BY <1>1, Zenon DEF StackMeans
  <1>3. PICK ps, hs, g, gt, k : /\ ps = Front(fs) /\ hs = Front(gs)
                                /\ g = Last(hs) /\ gt = Last(gs) /\ k = t.kind
    OBVIOUS
  <1>4. /\ ps \in Seq(FrameType) /\ ps # <<>> /\ f = Last(ps)
        /\ Chain(ps, hs, src, calm, said)
        /\ t \in FrameType /\ gt \in GhostType /\ f \in FrameType /\ g \in GhostType
        /\ Under(f, g, k, gt.says, src, calm) /\ Atop(t, gt, src, calm)
    <2>1. /\ Front(fs) \in Seq(FrameType) /\ Front(fs) # <<>>
          /\ Chain(Front(fs), Front(gs), src, calm, said)
          /\ Last(fs) \in FrameType /\ Last(gs) \in GhostType
          /\ Last(Front(fs)) \in FrameType /\ Last(Front(gs)) \in GhostType
          /\ Under(Last(Front(fs)), Last(Front(gs)), Last(fs).kind, Last(gs).says, src, calm)
      BY <1>1, <1>2, ChainPop
    <2>2. QED
      BY <1>2, <1>3, <2>1, Zenon
  <1>5. t.kind \notin {"arg", "page"}
    <2>1. Len(fs) \in 1 .. Len(fs) /\ Last(fs) = fs[Len(fs)] /\ Len(fs) # 1
      BY <1>1, FrontLast
    <2>2. QED
      BY <2>1 DEF Stack
  <1>6. PICK o : o = f.out \o t.out
    OBVIOUS
  <1>7. o \in Seq(AnyPart)
    <2>1. f.out \in Seq(AnyPart) /\ t.out \in Seq(AnyPart)
      BY <1>4, FramesHaveFields DEF FrameFields
    <2>2. QED
      BY <1>6, <2>1
  <1>8. PICK e : e = [f EXCEPT !.out = o]
    OBVIOUS
  <1>9. /\ e \in FrameType /\ e.kind = f.kind /\ e.name = f.name /\ e.args = f.args
        /\ e.depth = f.depth /\ e.body = f.body /\ e.bound = f.bound /\ e.out = o
        /\ e = [f EXCEPT !.out = @ \o t.out]
    BY <1>4, <1>6, <1>7, <1>8 DEF FrameType
  <1>10. Atop(e, g, src, calm)
    <2>1. e.out = f.out \o t.out
      BY <1>6, <1>9
    <2>2. QED
      BY <1>3, <1>4, <1>5, <1>9, <2>1, PutOutTells
  <1>11. PICK es : es = Append(Front(ps), e)
    OBVIOUS
  <1>12. Last(es) = e /\ Chain(es, hs, src, calm, said)
    <2>1. e.kind = Last(ps).kind /\ e \in FrameType
      BY <1>4, <1>9
    <2>2. Chain(ps, hs, src, calm, said) /\ ps \in Seq(FrameType) /\ ps # <<>>
      BY <1>4
    <2>3. QED
      BY <1>11, <2>1, <2>2, ChainSwap
  <1>13. StackMeans(es, src, calm, said)
    BY <1>3, <1>10, <1>12, Zenon DEF StackMeans
  <1>14. QED
    BY <1>3, <1>9, <1>11, <1>13, Zenon

\* and a call that is through has said what it was meant to.
LEMMA ReturnMeans ==
  ASSUME sources \in Fetchable, Stack(frames, sources), NEW calm, NEW said,
         StackMeans(frames, sources, calm, said), Return
  PROVE  StackMeans(frames', sources, calm, said)
  <1>1. PICK fs, t, f, src : fs = frames /\ t = Last(fs) /\ f = Last(Front(fs)) /\ src = sources
    OBVIOUS
  <1>2. PICK v : v = [name |-> Head(f.body).args[Len(f.bound) + 1].name, value |-> t.out]
    OBVIOUS
  <1>3. /\ Len(fs) > 1 /\ t.body = <<>> /\ Stack(fs, src) /\ StackMeans(fs, src, calm, said)
        /\ src \in Fetchable
    BY <1>1 DEF Return, Top
  <1>4. CASE t.kind = "arg"
    <2>1. frames' = Descend(Front(Front(fs)), [f EXCEPT !.bound = Append(@, v)])
      BY <1>1, <1>2, <1>4 DEF Return, Top
    <2>2. StackMeans(Descend(Front(Front(fs)), [f EXCEPT !.bound = Append(@, v)]), src, calm, said)
      BY <1>1, <1>2, <1>3, <1>4, BindMeans
    <2>3. QED
      BY <1>1, <2>1, <2>2, Zenon
  <1>5. CASE t.kind # "arg"
    <2>1. frames' = Append(Front(Front(fs)), [f EXCEPT !.out = @ \o t.out])
      BY <1>1, <1>5 DEF Return, Top
    <2>2. StackMeans(Append(Front(Front(fs)), [f EXCEPT !.out = @ \o t.out]), src, calm, said)
      BY <1>1, <1>3, <1>5, PutOutMeans
    <2>3. QED
      BY <1>1, <2>1, <2>2, Zenon
  <1>6. QED
    BY <1>4, <1>5

ResultMeans(r, calm, said) ==
  \/ r \in {Nil, Failure}
  \/ r \in Seq(AnyPart) /\ (Clean(r) => r = said) /\ (calm => Clean(r))

\* What is meant by the running calls and by the result.
Means ==
  LET calm == Shallow(sources)[MaxDepth][page]
      said == PageSays(sources, page)
  IN StackMeans(frames, sources, calm, said) /\ ResultMeans(result, calm, said)

LEMMA NothingMeant ==
  ASSUME NEW src, NEW calm, NEW said, NEW fs, fs = <<>>
  PROVE  StackMeans(fs, src, calm, said)
  <1>1. PICK gs : gs = <<>>
    OBVIOUS
  <1>2. gs \in Seq(GhostType) /\ Len(gs) = Len(fs) /\ 1 .. Len(fs) - 1 = {} /\ 1 .. Len(fs) = {}
    BY <1>1
  <1>3. Chain(fs, gs, src, calm, said)
    BY <1>2 DEF Chain
  <1>4. QED
    BY <1>3, Zenon DEF StackMeans

\* The page is through when nothing is pending.
LEMMA FinishMeans ==
  ASSUME NEW src \in Fetchable, NEW calm, NEW said,
         NEW fs \in Seq(FrameType), Len(fs) = 1, StackMeans(fs, src, calm, said),
         NEW f, f = Last(fs), f.body = <<>>
  PROVE  ResultMeans(f.out, calm, said)
  <1>1. fs # <<>>
    OBVIOUS
  <1>2. PICK gs : Chain(fs, gs, src, calm, said) /\ Atop(Last(fs), Last(gs), src, calm)
    BY <1>1, Zenon DEF StackMeans
  <1>3. PICK g : g = Last(gs)
    OBVIOUS
  <1>4. f \in FrameType /\ g \in GhostType
    BY <1>1, <1>2, <1>3, TopGhost
  <1>5. Atop(f, g, src, calm)
    BY <1>2, <1>3, Zenon
  <1>6. (Clean(f.out) => g.says = f.out) /\ (calm => Clean(f.out))
    BY <1>4, <1>5, Through
  <1>7. g.says = said
    <2>1. Len(gs) = 1 /\ gs[1].says = said
      BY <1>1, <1>2 DEF Chain
    <2>2. QED
      BY <1>3, <2>1 DEF Last
  <1>8. f.out \in Seq(AnyPart)
    BY <1>4, FramesHaveFields DEF FrameFields
  <1>9. QED
    BY <1>6, <1>7, <1>8 DEF ResultMeans

LEMMA MeansInit ==
  ASSUME Init
  PROVE  Means
  <1>1. frames = <<>> /\ result = Nil
    BY DEF Init
  <1>2. QED
    BY <1>1, NothingMeant DEF Means, ResultMeans

\* A step of the expansion.
LEMMA MeansExpands ==
  ASSUME NEW calm, NEW said, calm = Shallow(sources)[MaxDepth][page],
         said = PageSays(sources, page), page' = page, sources' = sources,
         StackMeans(frames', sources, calm, said), ResultMeans(result', calm, said)
  PROVE  Means'
  BY Zenon DEF Means

\* Every step keeps what is meant.
LEMMA MeansStep ==
  ASSUME IInv, Means, [Next]_vars
  PROVE  Means'
  <1>1. Stack(frames, sources) /\ sources \in Fetchable /\ page \in Body
    BY DEF IInv, WalkTypes, Fetchable
  <1>2. PICK calm, said : calm = Shallow(sources)[MaxDepth][page] /\ said = PageSays(sources, page)
    OBVIOUS
  <1>3. StackMeans(frames, sources, calm, said) /\ ResultMeans(result, calm, said)
    BY <1>2, Zenon DEF Means
  <1>4. ASSUME page' = page, sources' = sources, result' = result,
               StackMeans(frames', sources, calm, said)
        PROVE  Means'
    <2>1. ResultMeans(result', calm, said)
      BY <1>3, <1>4, Zenon
    <2>2. QED
      BY <1>2, <1>4, <2>1, MeansExpands
  <1>5. ASSUME frames' = <<>>, result' \in {Nil, Failure} PROVE Means'
    BY <1>5, NothingMeant DEF Means, ResultMeans
  <1>6. ASSUME NEW n \in Name, Fetch(n) PROVE Means'
    BY <1>5, <1>6 DEF Fetch, Walking
  <1>7. ASSUME NEW n \in Name, Rewrite(n) PROVE Means'
    BY <1>5, <1>7 DEF Rewrite, Walking
  <1>8. CASE FetchFails
    BY <1>5, <1>8 DEF FetchFails, Walking
  <1>9. CASE Start
    <2>1. /\ page' = page /\ sources' = sources /\ result' = result
          /\ frames' = <<Frame("page", Nil, page, <<>>, 0)>>
      BY <1>9 DEF Start, walk
    <2>2. PICK src : src = sources
      OBVIOUS
    <2>3. src \in Fetchable /\ (calm <=> Shallow(src)[MaxDepth][page]) /\ said = PageSays(src, page)
      BY <1>1, <1>2, <2>2, Zenon
    <2>4. StackMeans(<<Frame("page", Nil, page, <<>>, 0)>>, src, calm, said)
      BY <1>1, <2>3, StartMeans
    <2>5. StackMeans(frames', sources, calm, said)
      BY <2>1, <2>2, <2>4, Zenon
    <2>6. QED
      BY <1>4, <2>1, <2>5
  <1>10. CASE Copy
    <2>1. page' = page /\ sources' = sources /\ result' = result
      BY <1>10 DEF Copy, Emit, walk
    <2>2. QED
      BY <1>1, <1>3, <1>4, <1>10, <2>1, CopyMeans
  <1>11. CASE Refer
    <2>1. page' = page /\ sources' = sources /\ result' = result
      BY <1>11 DEF Refer, walk
    <2>2. QED
      BY <1>1, <1>3, <1>4, <1>11, <2>1, ReferMeans
  <1>12. CASE Refuse
    <2>1. page' = page /\ sources' = sources /\ result' = result
      BY <1>12 DEF Refuse, Emit, walk
    <2>2. QED
      BY <1>1, <1>3, <1>4, <1>12, <2>1, RefuseMeans
  <1>13. CASE Transclude
    <2>1. page' = page /\ sources' = sources /\ result' = result
      BY <1>13 DEF Transclude, walk
    <2>2. QED
      BY <1>1, <1>3, <1>4, <1>13, <2>1, TranscludeMeans
  <1>14. CASE Return
    <2>1. page' = page /\ sources' = sources /\ result' = result
      BY <1>14 DEF Return, walk
    <2>2. QED
      BY <1>1, <1>3, <1>4, <1>14, <2>1, ReturnMeans
  <1>15. CASE Finish
    <2>1. /\ Len(frames) = 1 /\ frames' = <<>> /\ page' = page /\ sources' = sources
          /\ Last(frames).body = <<>> /\ result' = Last(frames).out
      BY <1>15 DEF Finish, Top, walk
    <2>2. PICK fs, f, src : fs = frames /\ f = Last(fs) /\ src = sources
      OBVIOUS
    <2>3. /\ src \in Fetchable /\ fs \in Seq(FrameType) /\ Len(fs) = 1 /\ f.body = <<>>
          /\ StackMeans(fs, src, calm, said)
      BY <1>1, <1>3, <2>1, <2>2 DEF Stack
    <2>4. ResultMeans(f.out, calm, said)
      BY <2>2, <2>3, FinishMeans
    <2>5. ResultMeans(result', calm, said)
      BY <2>1, <2>2, <2>4, Zenon
    <2>6. StackMeans(frames', sources, calm, said)
      BY <2>1, NothingMeant
    <2>7. QED
      BY <1>2, <2>1, <2>5, <2>6, MeansExpands
  <1>16. CASE UNCHANGED vars
    <2>1. page' = page /\ sources' = sources /\ result' = result /\ frames' = frames
      BY <1>16 DEF vars, walk
    <2>2. QED
      BY <1>3, <1>4, <2>1, Zenon
  <1>17. QED
    BY <1>6, <1>7, <1>8, <1>9, <1>10, <1>11, <1>12, <1>13, <1>14, <1>15, <1>16 DEF Next, Render

LEMMA MeansSays ==
  ASSUME Means
  PROVE  SaysWhatIsMeant
  <1>1. SUFFICES ASSUME result \notin {Nil, Failure}
                 PROVE  /\ ~Diagnosed => result = PageSays(sources, page)
                        /\ Shallow(sources)[MaxDepth][page] => ~Diagnosed
    BY DEF SaysWhatIsMeant, Rendered
  <1>2. PICK r, calm, said : /\ r = result /\ calm = Shallow(sources)[MaxDepth][page]
                             /\ said = PageSays(sources, page)
    OBVIOUS
  <1>3. r \in Seq(AnyPart) /\ (Clean(r) => r = said) /\ (calm => Clean(r))
    <2>1. ResultMeans(r, calm, said)
      BY <1>2, Zenon DEF Means
    <2>2. QED
      BY <1>1, <1>2, <2>1 DEF ResultMeans
  <1>4. Diagnosed <=> ~Clean(r)
    <2>1. Diagnosed <=> \E x \in ToSet(r) : x.t \in Errors
      BY <1>2, Zenon DEF Diagnosed
    <2>2. (\E x \in ToSet(r) : x.t \in Errors) <=> ~Clean(r)
      BY <1>3, Positions DEF Clean, NoneOf
    <2>3. QED
      BY <2>1, <2>2
  <1>5. QED
    BY <1>2, <1>3, <1>4, Zenon

-----------------------------------------------------------------------------
(* The theorems.                                                             *)

LEMMA IInvSays ==
  ASSUME IInv
  PROVE  TypeOK /\ NoTemplateInItself /\ NotFoundIsTrue
  <1>1. WalkTypes /\ Stack(frames, sources)
    BY DEF IInv
  <1>2. PICK lev \in [Name -> 0 .. MaxDepth + 1] : Told(lev)
    BY DEF IInv
  <1>3. frames \in Seq(FrameType) /\ DOMAIN frames = 1 .. Len(frames)
    BY <1>1 DEF Stack
  <1>4. \A i \in DOMAIN frames : frames[i].depth \in 0 .. MaxDepth
    <2>1. SUFFICES ASSUME NEW i \in DOMAIN frames PROVE frames[i].depth \in 0 .. MaxDepth
      OBVIOUS
    <2>2. frames[i] \in FrameType
      BY <1>3, Element
    <2>3. QED
      BY <2>2, FramesHaveFields DEF FrameFields
  <1>5. TypeOK
    BY <1>1, <1>3, <1>4 DEF TypeOK, WalkTypes, Stack
  <1>6. NoTemplateInItself
    BY <1>1, <1>3 DEF NoTemplateInItself, Stack
  <1>7. NotFoundIsTrue
    <2>1. SUFFICES ASSUME result \notin {Nil, Failure}, NEW x \in ToSet(result),
                          x.t = "not found"
                   PROVE  store[x.name] = Nil \/ x.name \in PassedOver
      BY DEF NotFoundIsTrue, Rendered
    <2>2. ResultTrue(result, Seen(lev).absent)
      BY <1>2 DEF Told
    <2>3. x.name \in Seen(lev).absent
      BY <2>1, <2>2, Zenon DEF ResultTrue
    <2>4. x.name \in {n \in Name : store[n] = Nil} \cup PassedOver
      BY <2>3, SeenIs, Zenon
    <2>5. QED
      BY <2>4
  <1>8. QED
    BY <1>5, <1>6, <1>7

\* The walk has come to every template at the level that the expansion may
\* need it at, and the stack is well-formed, whatever the templates, the
\* texts and the limit.
THEOREM RenderInvariant == Spec => []IInv
  <1>1. Init => IInv
    BY IInvInit
  <1>2. IInv /\ [Next]_vars => IInv'
    BY IInvStep
  <1>3. QED
    BY <1>1, <1>2, PTL DEF Spec

\* The variables of a render keep their types: the loop over the passes and the
\* depth of every call of expand_body stay within the limit.
THEOREM RenderTypes == Spec => []TypeOK
  <1>1. IInv => TypeOK
    BY IInvSays
  <1>2. QED
    BY <1>1, RenderInvariant, PTL

\* No template is expanded inside its own body, along whatever chain of bodies,
\* arguments and defaults it is called: what the stack of expand_body is for.
THEOREM RenderIsAcyclic == Spec => []NoTemplateInItself
  <1>1. IInv => NoTemplateInItself
    BY IInvSays
  <1>2. QED
    BY <1>1, RenderInvariant, PTL

\* "not found" is said only of a template that is not there, or that the walk
\* passes over: what fetch_template_sources owes to expand_body.
THEOREM NotFoundIsSaidTruly == Spec => []NotFoundIsTrue
  <1>1. IInv => NotFoundIsTrue
    BY IInvSays
  <1>2. QED
    BY <1>1, RenderInvariant, PTL

\* A render without a diagnostic says what the page means, by a definition that
\* has no stack and expands nothing twice, and a page whose calls are all there
\* and nest no deeper than the limit is rendered without one: what expand_body
\* owes to the author of a page, whatever the templates and the limit.
THEOREM RenderSaysWhatIsMeant == Spec => []SaysWhatIsMeant
  <1>1. Init => Means
    BY MeansInit
  <1>2. IInv /\ Means /\ [Next]_vars => Means'
    BY MeansStep
  <1>3. Means => SaysWhatIsMeant
    BY MeansSays
  <1>4. QED
    BY <1>1, <1>2, <1>3, RenderInvariant, PTL DEF Spec

=============================================================================
