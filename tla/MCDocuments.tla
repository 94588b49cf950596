---------------------------- MODULE MCDocuments ----------------------------
(***************************************************************************)
(* Small instances of Documents: two keys, two values of "c", and the      *)
(* sections that the mapping rules treat differently, one scenario each.   *)
(***************************************************************************)
EXTENDS Documents

N(i) == <<"num", i>>

MCBigs   == {Null, N(1)}
MCArrays == {Null, <<"array", {}>>, <<"array", {N(1)}>>, <<"array", {N(1), N(2)}>>}

MCBadC == N(2)

Full == [Plain EXCEPT !.full = TRUE]

On(flavor, s)       == [sections |-> [t \in {"t"} |-> s], flavor |-> flavor, refuses |-> FALSE, changes |-> 3,
                        cs |-> {N(1), N(2)}]
Refusing(flavor, s) == [On(flavor, s) EXCEPT !.refuses = TRUE]
Numeric(sc)         == [sc EXCEPT !.cs = {Null, <<"numtext", 2>>, <<"numtext", 10>>}]
Short(sc)           == [sc EXCEPT !.changes = 2]

\* Where a row's document goes by a value that is not its key.
Moving == {
  On("opensearch", [Full EXCEPT !.id = {"k", "c"}]),
  On("postgres",   [Full EXCEPT !.id = {"c", "k"}]),
  On("opensearch", [Full EXCEPT !.index = {"c"}]),
  On("elasticsearch", [Full EXCEPT !.routing = {"c"}]),
  On("opensearch", [Plain EXCEPT !.routing = {"k"}, !.id = {"k"}]),
  On("opensearch", [Full EXCEPT !.key = {"k", "c"}]),
  On("opensearch", [Full EXCEPT !.index = {"c"}, !.routing = {"c"}, !.id = {"k", "c"}])}

\* One document per element of an array.
Fanned == {
  On("opensearch", [Full EXCEPT !.fan_out = TRUE]),
  On("qdrant",     [Full EXCEPT !.fan_out = TRUE]),
  On("opensearch", [Full EXCEPT !.fan_out = TRUE, !.filter = Cmp("c", "=", N(1)), !.index = {"c"}])}

\* Predicates over values the source can deliver: absent, numbers, and numbers
\* that JSON keeps in a string.
Predicates == {
  Cmp("c", "<>", N(1)),
  Not(Cmp("c", ">=", N(2))),
  And(Or(Cmp("c", "<", N(9)), IsNull("c", FALSE)), Not(In("c", <<N(2), N(10)>>, FALSE))),
  In("c", <<N(1), N(9)>>, TRUE),
  Or(And(Cmp("c", "<=", N(1)), IsNull("c", TRUE)), Cmp("c", ">", N(9)))}

Filtered ==
  {Numeric(On("opensearch", [Full EXCEPT !.filter = p])) : p \in Predicates}
  \cup {On("postgres", [Plain EXCEPT !.filter = Cmp("c", "<>", N(1))]),
        On("opensearch", [Full EXCEPT !.filter = Cmp("c", "=", N(1)), !.id = {"k", "c"}])}

\* Columns that an update leaves out, and what happens to a document on its way.
Shaped == {
  On("opensearch", [Plain EXCEPT !.transform = [big |-> "hash"], !.fields = [big |-> "c", c |-> "f"]]),
  On("elasticsearch", [Plain EXCEPT !.transform = [big |-> "lookup"], !.id = {"k"}, !.constants = {"const"}]),
  On("qdrant", [Plain EXCEPT !.transform = [c |-> "redact", big |-> "pseudonym"], !.exclude = {"arr"}])}

\* A child that names its parent, and a child per element of an array.
With(s, p) == [On("opensearch", s) EXCEPT !.sections = [t |-> s, p |-> p]]
Parent     == [Plain EXCEPT !.join = "parent", !.name = "parent"]
Joined == {
  With([Full EXCEPT !.join = "child"], Parent),
  With([Full EXCEPT !.join = "element", !.fan_out = TRUE], [Parent EXCEPT !.full = TRUE])}

\* Sections that the checks at startup turn away.
TurnedAway == {
  On("opensearch", [Plain EXCEPT !.id = {"k", "c"}]),
  On("opensearch", [Plain EXCEPT !.fan_out = TRUE]),
  On("postgres", [Full EXCEPT !.routing = {"c"}]),
  With([Plain EXCEPT !.join = "child"], Parent)}

\* Rows without a key, and targets that refuse what they hold.
Others == {
  On("opensearch", [Plain EXCEPT !.key = {}, !.primary_key = "none", !.append_only = TRUE]),
  Refusing("opensearch", [Full EXCEPT !.id = {"k", "c"}]),
  Refusing("elasticsearch", Full),
  Refusing("postgres", Full),
  Short(Refusing("meilisearch", Full))}

MCScenarios == Moving \cup {Short(sc) : sc \in Fanned \cup Filtered} \cup Shaped \cup Joined \cup Others \cup TurnedAway

\* A routing that moves.
MCRouted == {On("opensearch", [Full EXCEPT !.routing = {"c"}])}
=============================================================================
