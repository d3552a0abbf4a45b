------------------------------- MODULE Bindings -------------------------------
(***************************************************************************)
(* How the consumer's topics find their handlers: resolveHandlerBindings() *)
(* in packages/kafka/src/handlers.ts.                                      *)
(*                                                                         *)
(* The container maps a registered name to what resolving it gives:        *)
(* [is |-> "function"], [is |-> "object"] (nothing to handle with),        *)
(* [is |-> "broken"] (the resolution throws), or                           *)
(* [is |-> "handler", topics |-> ...], the topics as a sequence, empty for *)
(* one that declares none.  A binding of the explicit map is               *)
(* [is |-> "name", name |-> n], [is |-> "inline"], or [is |-> "object"].   *)
(* Names are numbers in the order they sort; an inline handler's is 0.     *)
(***************************************************************************)
EXTENDS Integers, Sequences

Failure(why) == [error |-> why]
Failed(r) == "error" \in DOMAIN r

\* bindingToFn(): a name of the container, or an inline value.
BindingToFn(binding, container) ==
    IF binding.is = "inline" THEN [name |-> 0]
    ELSE IF binding.is = "object" THEN Failure("not a handler")
    ELSE IF binding.name \notin DOMAIN container THEN Failure("unknown")
    ELSE IF container[binding.name].is = "broken" THEN Failure("unknown")
    ELSE IF container[binding.name].is = "object" THEN Failure("not a handler")
    ELSE [name |-> binding.name]

\* The explicit map.
ExplicitBindings(handlers, container) ==
    LET fns == [t \in DOMAIN handlers |-> BindingToFn(handlers[t], container)]
    IN  IF \E t \in DOMAIN fns : Failed(fns[t])
        THEN Failure("explicit")
        ELSE [bound |-> [t \in DOMAIN fns |-> [name |-> fns[t].name, source |-> "explicit"]]]

Extend(f, t, v) == [x \in DOMAIN f \cup {t} |-> IF x = t THEN v ELSE f[x]]

\* Mutant: the last handler to claim a topic has it.
ClaimLast(r, t, name) ==
    IF Failed(r) THEN r
    ELSE IF t \in DOMAIN r.bound /\ r.bound[t].source = "explicit" THEN r
    ELSE [bound |-> Extend(r.bound, t, [name |-> name, source |-> "convention"])]

\* One topic of one convention handler.
Claim(r, t, name) ==
    IF Failed(r) THEN r
    ELSE IF t \notin DOMAIN r.bound
    THEN [bound |-> Extend(r.bound, t, [name |-> name, source |-> "convention"])]
    ELSE IF r.bound[t].source = "explicit" THEN r
    ELSE Failure("two handlers")

IsEventHandler(value) == value.is = "handler" /\ value.topics # <<>>

\* One name that matches the convention's pattern.
Discover(r, name, container) ==
    IF Failed(r) THEN r
    ELSE IF container[name].is = "broken" THEN Failure("cannot resolve")
    ELSE IF ~IsEventHandler(container[name]) THEN r
    ELSE LET topics == container[name].topics
             Claimed[i \in 0 .. Len(topics)] ==
                 IF i = 0 THEN r ELSE Claim(Claimed[i - 1], topics[i], name)
         IN  Claimed[Len(topics)]

\* The names in their order, those that match the pattern being looked at.
DiscoverAll(handlers, container, matching) ==
    LET Bound[n \in 0 .. Len(container)] ==
            IF n = 0 THEN ExplicitBindings(handlers, container)
            ELSE IF n \in matching THEN Discover(Bound[n - 1], n, container)
            ELSE Bound[n - 1]
    IN  Bound[Len(container)]

\* resolveHandlerBindings(): matching is the set of names the pattern matches, empty
\* when the convention is off.
ResolveHandlerBindings(handlers, container, matching) ==
    LET r == DiscoverAll(handlers, container, matching)
    IN  IF ~Failed(r) /\ DOMAIN r.bound = {} THEN Failure("no handlers") ELSE r
=============================================================================
