------------------------------ MODULE Templates ------------------------------
(* One render of a page that uses templates: the walk that fetches every     *)
(* template before the renderer may not wait any more, then the expansion,   *)
(* as the stack of the calls of expand_body that are running.                *)
(* A body is a sequence of parts: text, {{{name|default}}} and {{Name|args}}.*)
(* Where one part ends is settled by the scanner and left out, except that a *)
(* default holds no reference: the first }}} would close it.                 *)
EXTENDS Integers, SequencesExt

CONSTANTS
  Name,      \* the templates
  Body,      \* the texts: of pages and templates, of arguments and defaults
  Size,      \* text -> its length
  Programs,  \* a page and the stored templates, as the render finds them
  Rewrites,  \* what another request may store while templates are fetched
  MaxDepth,  \* [render.template] max_recursion_depth
  Nil        \* no template, no default, no result

VARIABLES
  page,       \* the body of the page
  store,      \* template -> its current body, Nil where there is none
  rewritten,  \* the template that was stored during the walk, or Nil
  wanted,     \* the walk: templates this pass has still to look up
  later,      \*   templates for the next pass
  passes,     \*   passes made
  sources,    \*   template -> the body fetched, or Nil
  frames,     \* the running calls of expand_body, innermost last
  result      \* the text for the Markdown parser, or Nil

walk == <<wanted, later, passes, sources>>

vars == <<page, store, rewritten, walk, frames, result>>

-----------------------------------------------------------------------------
(* Parts                                                                     *)

Text(x) == [t |-> "text", name |-> x]

Ref(x, default) == [t |-> "ref", name |-> x, default |-> default]

Call(n, args) == [t |-> "call", name |-> n, args |-> args]

Arg(x, body) == [name |-> x, body |-> body]

\* The inline diagnostic for a call of n.
Error(kind, n) == [t |-> kind, name |-> n]

Errors == {"not found", "cycle", "limit"}

\* The answer when there is no text.
Failure == <<Error("failed", Nil)>>

\* What may be written in a text, and what the expansion has to do with.
Written ==
  [t : {"text"}, name : STRING]
    \cup [t : {"ref"}, name : STRING, default : Body \cup {Nil}]
    \cup [t : {"call"}, name : Name, args : Seq([name : STRING, body : Body])]

AnyPart == Written \cup [t : Errors, name : Name]

Calls(b) == {x \in ToSet(b) : x.t = "call"}

Refs(b) == {x \in ToSet(b) : x.t = "ref"}

\* The arguments that b gives, and the defaults of its references.
ArgTexts(b) == {a.body : a \in UNION {ToSet(x.args) : x \in Calls(b)}}

Defaults(b) == {x.default : x \in Refs(b)} \ {Nil}

\* The texts that scan_template_calls reads: calls in arguments are found, but
\* nothing inside a reference.
Scanned[b \in Body] == {b} \cup UNION {Scanned[c] : c \in ArgTexts(b)}

\* What it finds.
Called(b) == {x.name : x \in UNION {Calls(c) : c \in Scanned[b]}}

\* The calls inside the defaults of b, which it does not see.
CalledByDefault(b) == UNION {Called(d) : d \in UNION {Defaults(c) : c \in Scanned[b]}}

ASSUME ConstantsAssumption ==
  /\ MaxDepth \in Nat
  /\ Nil \notin Name /\ Nil \notin Body /\ Nil \notin Errors
  /\ Programs \subseteq [page : Body, store : [Name -> Body \cup {Nil}]]
  /\ Rewrites \subseteq Body

\* An argument is shorter than the text that gives it.
ASSUME TextsAssumption ==
  /\ Size \in [Body -> Nat]
  /\ \A b \in Body : b \in Seq(Written) /\ \A c \in ArgTexts(b) : Size[c] < Size[b]

\* A default ends at the first }}}.
ASSUME DefaultsAssumption ==
  \A b \in Body : \A d \in Defaults(b) : \A c \in Scanned[d] : Refs(c) = {}

-----------------------------------------------------------------------------
(* The walk                                                                  *)

Init ==
  /\ \E p \in Programs : page = p.page /\ store = p.store
  /\ rewritten = Nil
  /\ wanted = Called(page)
  /\ later = {}
  /\ passes = 0
  /\ sources = [n \in Name |-> Nil]
  /\ frames = <<>>
  /\ result = Nil

Walking == frames = <<>> /\ result = Nil

\* Mutant of PassLeft: the pass for what the deepest templates call is saved.
PassLeftLess == wanted # {} /\ passes < MaxDepth

\* The condition of the loop.
PassLeft == wanted # {} /\ passes <= MaxDepth

\* Mutant of Fetch: a template that is not there stays in the queue.
FetchStuck(n) ==
  /\ Walking /\ PassLeft
  /\ n \in wanted
  /\ store[n] # Nil
  /\ sources' = [sources EXCEPT ![n] = store[n]]
  /\ wanted' = (wanted \ {n}) \cup {c \in Called(store[n]) : sources'[c] = Nil}
  /\ UNCHANGED <<page, store, rewritten, later, passes, frames, result>>

\* A template that is not there is not recorded; one that is there already is
\* not looked up again.
Fetch(n) ==
  /\ Walking /\ PassLeft
  /\ n \in wanted
  /\ LET fresh == sources[n] = Nil /\ store[n] # Nil
         more == IF fresh
                 THEN later \cup {c \in Called(store[n]) : sources[c] = Nil}
                 ELSE later
         over == wanted = {n}
     IN /\ sources' = IF fresh THEN [sources EXCEPT ![n] = store[n]] ELSE sources
        /\ wanted' = IF over THEN more ELSE wanted \ {n}
        /\ later' = IF over THEN {} ELSE more
        /\ passes' = IF over THEN passes + 1 ELSE passes
  /\ UNCHANGED <<page, store, rewritten, frames, result>>

\* Another request creates or updates a template between two lookups.
Rewrite(n) ==
  /\ Walking /\ PassLeft
  /\ rewritten = Nil
  /\ \E b \in Rewrites : store' = [store EXCEPT ![n] = b]
  /\ rewritten' = n
  /\ UNCHANGED <<page, walk, frames, result>>

\* A storage error fails the render.
FetchFails ==
  /\ Walking /\ PassLeft
  /\ result' = Failure
  /\ UNCHANGED <<page, store, rewritten, walk, frames>>

-----------------------------------------------------------------------------
(* The expansion                                                             *)

\* A call of expand_body: the text it was given, what is left of it, the
\* arguments in scope, the template it is the body of, the arguments bound so
\* far for the call it has come to, and its output.
Frame(kind, name, given, args, depth) ==
  [kind |-> kind, name |-> name, given |-> given, body |-> given, args |-> args,
   depth |-> depth, bound |-> <<>>, out |-> <<>>]

Start ==
  /\ Walking /\ ~PassLeft
  /\ frames' = <<Frame("page", Nil, page, <<>>, 0)>>
  /\ UNCHANGED <<page, store, rewritten, walk, result>>

Top == Last(frames)

Part == Head(Top.body)

Awaits(t) == frames # <<>> /\ Top.body # <<>> /\ Part.t = t

\* The innermost call puts out part x and goes on.
Emit(x) ==
  /\ frames' = Append(Front(frames),
                      [Top EXCEPT !.body = Tail(@), !.out = Append(@, x)])
  /\ UNCHANGED <<page, store, rewritten, walk, result>>

\* Text; on a page a reference is text too.
Copy ==
  /\ \/ \E t \in {"text"} \cup Errors : Awaits(t)
     \/ Awaits("ref") /\ Top.kind = "page"
  /\ Emit(Part)

\* Where the arguments give x a value.
Given(x, args) == {i \in DOMAIN args : args[i].name = x.name}

\* Mutant of Value: a default wins over an argument.
ValueByDefault(x, args) ==
  IF x.default # Nil THEN x.default
  ELSE IF Given(x, args) # {} THEN args[Min(Given(x, args))].value
  ELSE <<x>>

\* What a reference stands for: the first argument of that name, or the
\* default, or itself.
Value(x, args) ==
  IF Given(x, args) # {} THEN args[Min(Given(x, args))].value
  ELSE IF x.default # Nil THEN x.default
  ELSE <<x>>

\* A reference inside a template: its value is expanded in its turn.
Refer ==
  /\ Awaits("ref")
  /\ Top.kind # "page"
  /\ frames' = Append(Append(Front(frames), [Top EXCEPT !.body = Tail(@)]),
                      Frame("param", Nil, Value(Part, Top.args), Top.args, Top.depth))
  /\ UNCHANGED <<page, store, rewritten, walk, result>>

\* The templates whose bodies are being expanded.
Active == {frames[i].name : i \in DOMAIN frames} \ {Nil}

\* Mutant of Refusal: only the caller is consulted, not the whole stack.
RefusalDirect(n, depth) ==
  CASE sources[n] = Nil -> "not found"
    [] sources[n] # Nil /\ \E i \in DOMAIN frames :
         /\ frames[i].name = n
         /\ \A j \in DOMAIN frames : j > i => frames[j].name = Nil -> "cycle"
    [] sources[n] # Nil /\ depth + 1 > MaxDepth -> "limit"
    [] OTHER -> Nil

\* Mutant of Refusal: the limit is checked one level late.
RefusalLate(n, depth) ==
  CASE sources[n] = Nil -> "not found"
    [] sources[n] # Nil /\ n \in Active -> "cycle"
    [] sources[n] # Nil /\ n \notin Active /\ depth > MaxDepth -> "limit"
    [] OTHER -> Nil

\* The diagnostic for a call of n at this depth, or Nil: in the order of the
\* code, before any argument is expanded.
Refusal(n, depth) ==
  CASE sources[n] = Nil -> "not found"
    [] sources[n] # Nil /\ n \in Active -> "cycle"
    [] sources[n] # Nil /\ n \notin Active /\ depth + 1 > MaxDepth -> "limit"
    [] OTHER -> Nil

Refuse ==
  /\ Awaits("call")
  /\ Refusal(Part.name, Top.depth) # Nil
  /\ Emit(Error(Refusal(Part.name, Top.depth), Part.name))

\* The call at the head of f goes on below the frames of base: with its next
\* argument, in the scope of f, or else with the body of the template.
Descend(base, f) ==
  LET c == Head(f.body)
  IN IF Len(f.bound) < Len(c.args)
     THEN base \o <<f, Frame("arg", Nil, c.args[Len(f.bound) + 1].body, f.args, f.depth + 1)>>
     ELSE base \o <<[f EXCEPT !.body = Tail(@), !.bound = <<>>],
                    Frame("body", c.name, sources[c.name], f.bound, f.depth + 1)>>

Transclude ==
  /\ Awaits("call")
  /\ Refusal(Part.name, Top.depth) = Nil
  /\ frames' = Descend(Front(frames), Top)
  /\ UNCHANGED <<page, store, rewritten, walk, result>>

\* The innermost call is through: an argument is bound, any other output is
\* put out by the caller.
Return ==
  /\ Len(frames) > 1 /\ Top.body = <<>>
  /\ LET base == Front(Front(frames))
         f == Last(Front(frames))
     IN frames' =
          IF Top.kind = "arg"
          THEN LET a == Head(f.body).args[Len(f.bound) + 1]
                   value == [name |-> a.name, value |-> Top.out]
               IN Descend(base, [f EXCEPT !.bound = Append(@, value)])
          ELSE Append(base, [f EXCEPT !.out = @ \o Top.out])
  /\ UNCHANGED <<page, store, rewritten, walk, result>>

Finish ==
  /\ Len(frames) = 1 /\ Top.body = <<>>
  /\ result' = Top.out
  /\ frames' = <<>>
  /\ UNCHANGED <<page, store, rewritten, walk>>

Render ==
  \/ \E n \in Name : Fetch(n)
  \/ Start \/ Copy \/ Refer \/ Refuse \/ Transclude \/ Return \/ Finish

Next == Render \/ (\E n \in Name : Rewrite(n)) \/ FetchFails

\* The expansion is one synchronous call, and a lookup comes back.
Spec == Init /\ [][Next]_vars /\ WF_vars(Render)

-----------------------------------------------------------------------------
(* What a render promises                                                    *)

\* The depth of every running call is within the limit, whatever the calls.
TypeOK ==
  /\ rewritten \in Name \cup {Nil}
  /\ wanted \subseteq Name /\ later \subseteq Name
  /\ passes \in 0 .. MaxDepth + 1
  /\ DOMAIN store = Name /\ DOMAIN sources = Name
  /\ \A i \in DOMAIN frames :
       /\ frames[i].kind = "page" <=> i = 1
       /\ frames[i].kind = "body" <=> frames[i].name \in Name
       /\ frames[i].depth \in 0 .. MaxDepth

\* No template is expanded inside its own body, along whatever chain of
\* bodies, arguments and defaults it is called ("the transclusion is rejected
\* as a cycle without entering the body").
NoTemplateInItself ==
  \A i, j \in DOMAIN frames :
    frames[i].kind = "body" /\ frames[j].kind = "body" /\ frames[i].name = frames[j].name
      => i = j

Bodies == {page} \cup {sources[n] : n \in {m \in Name : sources[m] # Nil}}

Rendered == result \notin {Nil, Failure}

\* Closed under what the walk passes over: the calls of a default, and, from
\* there or from a template stored meanwhile, whatever is called in its turn.
ClosedOver(S) ==
  /\ \A b \in Bodies : CalledByDefault(b) \subseteq S
  /\ rewritten \in S \cup {Nil}
  /\ \A n \in S : sources[n] # Nil => Called(sources[n]) \subseteq S

PassedOver == {n \in Name : \A S \in SUBSET Name : ClosedOver(S) => n \in S}

\* "not found" is said only of a template that was not there when the walk
\* came by, although the walk goes by levels and the expansion by calls; or
\* of one reached through a default, which the walk passes over, or through a
\* template stored meanwhile, which it may meet too late.
NotFoundIsTrue ==
  Rendered =>
    \A x \in ToSet(result) : x.t = "not found" =>
      store[x.name] = Nil \/ x.name \in PassedOver

Binding == [name : STRING, value : Seq(AnyPart)]

\* What a call says when src are the templates: what the body of its template
\* says, given what its arguments say here; m is what texts mean in a scope.
CallSays(src, m, x, args) ==
  IF x.t = "call" /\ src[x.name] # Nil
  THEN m[<<src[x.name],
           [i \in DOMAIN x.args |->
              [name |-> x.args[i].name, value |-> m[<<x.args[i].body, args>>]]]>>]
  ELSE <<x>>

\* What a reference says: what the argument of its name does, as it is, or the
\* default, in which there is no reference.
RefSays(src, m, x, args) ==
  IF Given(x, args) # {} THEN args[Min(Given(x, args))].value
  ELSE IF x.default # Nil
  THEN FlattenSeq([i \in DOMAIN x.default |-> CallSays(src, m, x.default[i], args)])
  ELSE <<x>>

PartSays(src, m, x, args) ==
  IF x.t = "ref" THEN RefSays(src, m, x, args) ELSE CallSays(src, m, x, args)

\* What a text means in a scope when calls nest n deep: no stack, and nothing
\* is looked at twice.
Meaning(src) ==
  LET means[n \in Nat] ==
        [p \in Body \X Seq(Binding) |->
           IF n = 0 THEN <<>>
           ELSE FlattenSeq([i \in DOMAIN p[1] |-> PartSays(src, means[n - 1], p[1][i], p[2])])]
  IN means

\* On the page itself a reference is text.
PageSays(src, b) ==
  FlattenSeq([i \in DOMAIN b |->
    IF b[i].t = "ref" THEN <<b[i]>> ELSE CallSays(src, Meaning(src)[MaxDepth], b[i], <<>>)])

\* The calls of b, those of its defaults included.
AllCalls(b) == Calls(b) \cup UNION {Calls(d) : d \in Defaults(b)}

\* Whether the calls of a text are all there and nest no deeper than n.
Shallow(src) ==
  LET shallow[n \in Nat] ==
        [b \in Body |-> \A x \in AllCalls(b) :
           /\ n > 0 /\ src[x.name] # Nil
           /\ shallow[n - 1][src[x.name]]
           /\ \A a \in ToSet(x.args) : shallow[n - 1][a.body]]
  IN shallow

Diagnosed == \E x \in ToSet(result) : x.t \in Errors

\* A render without a diagnostic says what the page means, however arguments,
\* defaults and scopes nest; and a page whose calls are all there and nest no
\* deeper than the limit is rendered without one.
SaysWhatIsMeant ==
  Rendered =>
    /\ ~Diagnosed => result = PageSays(sources, page)
    /\ Shallow(sources)[MaxDepth][page] => ~Diagnosed

\* Every render comes to an end, whatever templates call each other ("bounded
\* (no infinite recursion, no exponential blow-up)").
Ends == <>(result # Nil)

\* No reference is expanded again while it is being expanded in the same
\* scope, which would never end ("no infinite recursion"; "Unbound, no default
\* — emit literal so the editor can see it").
NothingExpandsItself ==
  \A i, j \in DOMAIN frames :
    /\ frames[i].kind = "param" /\ frames[j].kind = "param"
    /\ frames[i].given = frames[j].given /\ frames[i].given # <<>>
    /\ frames[i].args = frames[j].args
    /\ frames[i].depth = frames[j].depth
    => i = j

=============================================================================
