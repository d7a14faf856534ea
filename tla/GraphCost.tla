----------------------------- MODULE GraphCost -----------------------------
(***************************************************************************)
(* The static cost limit of the GraphQL API: a scanner over the raw        *)
(* document that runs before it is parsed, and the limits its result is    *)
(* compared with.  Sources: graph/complexity.go; for the work a document   *)
(* really causes, pagination in graph/resolver.go and the types that       *)
(* graph/schema.go and NewSchema declare.                                  *)
(*                                                                         *)
(* A document is a sequence of tokens.  Characters and spaces are left     *)
(* out, and of comments and strings there is what the scanner makes of     *)
(* them: nothing (Text), a page size (says) or the end of the document     *)
(* (Veil).  Integers are Go's int, scaled down: sums and products wrap at  *)
(* IntLimit, which stands for 2^63.                                        *)
(***************************************************************************)
EXTENDS Integers, Sequences, SequencesExt, FiniteSetsExt

CONSTANTS
    MaxPageSize,        \* the largest page, and what a variable counts as
    DefaultPageSize,    \* the page a resolver returns when none is asked for
    MaxDepth, MaxComplexity, MaxLength,     \* Limits (length for bytes)
    AllowIntrospection,
    IntLimit            \* bound: integers are in -IntLimit..IntLimit-1

ASSUME PagesAssumption ==
    MaxPageSize \in Nat \ {0} /\ DefaultPageSize \in 1..MaxPageSize
ASSUME LimitsAssumption ==
    MaxDepth \in Nat \ {0} /\ MaxComplexity \in Nat \ {0} /\ MaxLength \in Nat \ {0}
ASSUME IntAssumption == IntLimit \in Nat \ {0} /\ MaxPageSize < IntLimit

-----------------------------------------------------------------------------
(* Tokens.  An argument list carries its page size: none, a literal or a   *)
(* variable, whose value n the scanner does not see.  A comment or a       *)
(* string in front of it may say "pageSize: k" (says = k, 0 for nothing);  *)
(* a closing parenthesis in a comment ends the list for the scanner, which *)
(* is the same as says = 1.                                                *)
Open == [is |-> "{"]
Close == [is |-> "}"]
Text == [is |-> "text"]             \* a comment or a string between tokens
Veil == [is |-> "veil"]             \* one that ends for GraphQL, not for the scanner:
                                    \* a comment up to \r, an odd quote or parenthesis
                                    \* in the comment of an argument list
Alias == [is |-> "alias"]           \* a name followed by a colon
Directive == [is |-> "directive"]   \* @include(if: ...)
Spread == [is |-> "spread"]         \* ...F
Inline == [is |-> "inline"]         \* ... on T
Fragment == [is |-> "fragment"]     \* fragment F on T
Name(f) == [is |-> "name", of |-> f]
Args(by, n) == [is |-> "args", by |-> by, n |-> n, says |-> 0]

Reserved == {"query", "mutation", "subscription", "fragment", "on", "true", "false", "null"}
IsField(t) == t.is = "name" /\ t.of \notin Reserved

\* Documents without directives and fragments, whose comments and strings
\* the scanner understands.
Plain(doc) ==
    \A i \in DOMAIN doc :
       /\ doc[i].is \notin {"directive", "spread", "inline", "fragment", "veil"}
       /\ doc[i].is = "args" => doc[i].says = 0

\* Two's complement.
Wrap(n) == ((n + IntLimit) % (2 * IntLimit)) - IntLimit

\* The hint of an argument list, the first in its raw text: variables count as
\* full pages, literals are clamped, and a zero is no hint at all.
PageMultiplier_VariableIsOne(t) ==
    CASE t.says > 0 -> Min({t.says, MaxPageSize})
      [] t.says = 0 /\ t.by = "literal" /\ t.n > 0 -> Min({t.n, MaxPageSize})
      [] OTHER -> 1
PageMultiplier(t) ==
    CASE t.says > 0 -> Min({t.says, MaxPageSize})
      [] t.says = 0 /\ t.by = "variable" -> MaxPageSize
      [] t.says = 0 /\ t.by = "literal" /\ t.n > 0 -> Min({t.n, MaxPageSize})
      [] OTHER -> 1

\* A turn of the scanner's loop.  mult is the stack of multipliers in force,
\* pending what the last argument list said about the next selection set.
Opened_KeepsPending(s) ==
    [s EXCEPT !.depth = @ + 1, !.deepest = Max({@, s.depth + 1}),
              !.mult = Append(@, Wrap(Last(@) * s.pending))]
Opened(s) ==
    [s EXCEPT !.depth = @ + 1, !.deepest = Max({@, s.depth + 1}),
              !.mult = Append(@, Wrap(Last(@) * s.pending)), !.pending = 1]
Closed(s) ==
    [s EXCEPT !.depth = @ - 1, !.mult = IF Len(@) > 1 THEN Front(@) ELSE @, !.pending = 1]
Counted(s, f) ==
    [s EXCEPT !.introspects = @ \/ f = "__schema",
              !.fields = IF s.depth >= 1 THEN @ + 1 ELSE @,
              !.cost = IF s.depth >= 1 THEN Wrap(@ + Last(s.mult)) ELSE @]

\* The names of directives, fragments and types are names like any other, and
\* the list of a directive is a list like any other.
Scan(s, t) ==
    CASE t.is = "args" -> [s EXCEPT !.pending = PageMultiplier(t)]
      [] t.is = "{" -> Opened(s)
      [] t.is = "}" -> Closed(s)
      [] IsField(t) -> Counted(s, t.of)
      [] t.is = "directive" -> [Counted(s, "include") EXCEPT !.pending = 1]
      [] t.is = "spread" -> Counted(s, "F")
      [] t.is = "inline" -> Counted(s, "T")
      [] OTHER -> s                         \* text, aliases, reserved words, and
                                            \* the names of a fragment, at depth 0

\* What the scanner sees of a document: nothing behind a veil.
Seen(doc) ==
    LET veils == {i \in DOMAIN doc : doc[i] = Veil}
    IN IF veils = {} THEN doc ELSE SubSeq(doc, 1, Min(veils) - 1)

Analyze(doc) ==
    FoldLeft(Scan, [depth |-> 0, deepest |-> 0, cost |-> 0, fields |-> 0,
                    introspects |-> FALSE, mult |-> <<1>>, pending |-> 1], Seen(doc))

\* Check: the limits in the order they are tried.  "" is acceptance.
Check(doc) ==
    LET a == Analyze(doc)
    IN CASE Len(doc) > MaxLength -> "too large"
         [] a.introspects /\ ~AllowIntrospection -> "introspection"
         [] a.deepest > MaxDepth -> "too deep"
         [] a.cost > MaxComplexity -> "too expensive"
         [] OTHER -> ""

-----------------------------------------------------------------------------
(* What the scanner's comment says it computes, without a scanner: the sum *)
(* over every field of the product of the page sizes of its enclosing      *)
(* selection sets.                                                         *)

\* Selection sets open before position i.
Nesting(doc, i) ==
    Quantify(1..(i - 1), LAMBDA j : doc[j] = Open)
      - Quantify(1..(i - 1), LAMBDA j : doc[j] = Close)
Enclosing(doc, i) ==
    {j \in 1..(i - 1) : doc[j] = Open
                        /\ \A k \in (j + 1)..i : Nesting(doc, k) > Nesting(doc, j)}

\* The argument list of the field whose selection set opens at j, if any: its
\* own, which its directives follow.
NoArgs == Args("none", 0)
Said(doc, j) == {k \in 1..(j - 1) : doc[k].is \notin {"text", "veil", "directive"}}
ArgsOf(doc, j) ==
    LET before == Said(doc, j)
    IN IF before # {} /\ doc[Max(before)].is = "args" THEN doc[Max(before)] ELSE NoArgs

Positions(doc) == {i \in DOMAIN doc : IsField(doc[i])}
Weighted(doc, weight) ==
    MapThenSumSet(LAMBDA i : FoldSet(LAMBDA j, product : weight[j] * product,
                                     1, Enclosing(doc, i)),
                  Positions(doc))

CostOf(doc) == Weighted(doc, [j \in DOMAIN doc |-> PageMultiplier(ArgsOf(doc, j))])
DepthOf(doc) == Max({Nesting(doc, i) : i \in 1..(Len(doc) + 1)})

-----------------------------------------------------------------------------
(* What an execution costs.  A fragment is executed wherever it is spread: *)
(* here it is written out in its only place, as an inline fragment.        *)
Inlined(doc) ==
    LET headers == {i \in DOMAIN doc : doc[i] = Fragment}
        h == Min(headers)
        body == SubSeq(doc, h + 1, Len(doc))
    IN IF headers = {} THEN doc
       ELSE FlattenSeq([i \in 1..(h - 1) |->
                          IF doc[i] = Spread THEN <<Inline>> \o body ELSE <<doc[i]>>])

(* The types of the schema: a connection holds nodes, a user a tenant, and *)
(* no connection is reached from either.                                   *)
TypeOf(parent, f) ==
    CASE parent = "Query" /\ f = "users" -> "UserConnection"
      [] parent = "UserConnection" /\ f = "nodes" -> "User"
      [] parent \in {"Query", "User"} /\ f = "tenant" -> "Tenant"
      [] parent \in {"User", "Tenant"} /\ f = "name" -> "scalar"
      [] parent = "Query" /\ f = "__schema" -> "scalar"
      [] OTHER -> "invalid"

\* graphql-go validates every field against the type it is selected on: the
\* fields of a valid document can be given types.
Types == {"UserConnection", "User", "Tenant", "scalar"}
Selects(doc, i, j) ==       \* the selection set that opens at j is field i's
    /\ i < j /\ doc[j] = Open
    /\ \A k \in (i + 1)..(j - 1) : doc[k].is \in {"text", "args", "directive", "veil"}
Owned(doc, i) ==            \* the sets around i that belong to a field or to a query
    {j \in Enclosing(doc, i) : j = 1 \/ doc[j - 1] # Inline}
Parents(doc, i) == {p \in Positions(doc) : Selects(doc, p, Max(Owned(doc, i)))}
Validate(doc) ==
    \E types \in [Positions(doc) -> Types] : \A i \in Positions(doc) :
       \/ Parents(doc, i) = {} /\ types[i] = TypeOf("Query", doc[i].of)
       \/ \E p \in Parents(doc, i) : types[i] = TypeOf(types[p], doc[i].of)

\* pagination: the rows a connection returns.  A variable may have any value,
\* and is clamped like a literal.
PageSize(t) ==
    CASE t.by = "variable" -> MaxPageSize
      [] t.by = "literal" /\ t.n > 0 -> Min({t.n, MaxPageSize})
      [] OTHER -> DefaultPageSize
Hinted(t) == t.by = "variable" \/ (t.by = "literal" /\ t.n > 0)

\* The selection sets of connections: those whose field is users.
Connections(doc) ==
    {j \in DOMAIN doc : \E i \in Positions(doc) : doc[i].of = "users" /\ Selects(doc, i, j)}
NamesItsPages(doc) == \A j \in Connections(doc) : Hinted(ArgsOf(doc, j))

\* Fields resolved, at most: those inside a connection once per row.
Work(doc) ==
    Weighted(doc, [j \in DOMAIN doc |->
                     IF j \in Connections(doc) THEN PageSize(ArgsOf(doc, j)) ELSE 1])
=============================================================================
