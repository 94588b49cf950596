-------------------------- MODULE MCConfiguration --------------------------
(* Instances of Configuration for TLC.                                     *)
EXTENDS Configuration

MCLive ==
    [t |-> {"id", "a", "b"}, u |-> {"id", "a", "b"}, c |-> {"p", "q", "a"}, d |-> {"p", "a"},
     j |-> {"p", "q", "k"}, n |-> {"p"}]

MCValues == {<<"a">>, <<"b">>, <<"a", "b">>}

Nothing ==
    [columns |-> {}, exclude |-> {}, fields |-> {}, constants |-> {}, children |-> {},
     aggregates |-> {}, joins |-> {}, indexes |-> {}, ids |-> {}, others |-> {}, files |-> {}]

Single(table, field) == [Child(table, field) EXCEPT !.single = TRUE]

Lifted(table, field, fields) ==
    [Single(table, field) EXCEPT !.flatten = TRUE, !.columns = {"a"}, !.fields = fields]

Through(table, key) ==
    [Child(table, table) EXCEPT !.through = "j", !.foreign_key = key, !.through_key = "k"]

Renaming(c, t) == c :> t

\* The names of one section's document.
Shapes == [Nothing EXCEPT
    !.columns = {{"id", "a"}, {"a", "x"}},
    !.exclude = {"a", "b"},
    !.fields = {Renaming("a", "b"), Renaming("b", "a"), Renaming("a", "x"), Renaming("b", "x_total")},
    !.constants = {"x", "a"},
    !.children = {
        Child("c", "x"), Child("c", "a"), Child("d", "x_total"),
        [Child("c", "x") EXCEPT !.capped = TRUE],
        [Single("c", "x") EXCEPT !.capped = TRUE],
        [Child("c", "x") EXCEPT !.flatten = TRUE, !.columns = {"a"}],
        [Single("c", "x") EXCEPT !.flatten = TRUE],
        [Child("c", "x") EXCEPT !.columns = {"a"}, !.exclude = {"p"}],
        [Child("c", "x") EXCEPT !.columns = {"a"}, !.fields = Renaming("a", "p")],
        [Child("c", "x") EXCEPT !.fields = Renaming("a", "p")],
        [Child("c", "x") EXCEPT !.fields = Renaming("a", "p") @@ Renaming("p", "a")],
        Single("d", "y"),
        Lifted("c", "y", <<>>), Lifted("c", "y", Renaming("a", "x")), Lifted("d", "x", Renaming("a", "y"))},
    !.aggregates = {Aggregate("n", "x", "p"), Aggregate("n", "a", "p"), Aggregate("n", "x_total", "p")},
    !.joins = {Join("x", "parent", ""), Join("b", "parent", "")},
    !.others = {[fan_out |-> "b"], [transform |-> {"b"}], [primary_key |-> "a"],
                [append_only |-> TRUE], [soft_delete |-> TRUE], [routing |-> "a"], [pipeline |-> TRUE]}]

Static(text) == [pattern |-> <<text>>, by |-> {}]

Template(literals) == [pattern |-> literals, by |-> {"b"}]

\* Who else writes the index of a section.
Indexes == [Nothing EXCEPT
    !.indexes = {Static(<<"a">>), Static(<<"a", "b">>), Template(<<<<"a">>, <<>>>>),
                 Template(<<<<"a", "b">>, <<>>>>), Template(<<<<"a">>, <<"b">>, <<>>>>),
                 Template(<<<<>>, <<>>>>)},
    !.ids = {{"id"}, {"a"}},
    !.joins = {Join("r", "parent", ""), Join("r", "child", "a"), Join("s", "other", "a"),
               Join("r", "element", Element)},
    !.others = {[mapping |-> TRUE], [primary_key |-> "a"], [fan_out |-> "b"]},
    !.files = {[target |-> "qdrant"], [require_alias |-> TRUE], [mode |-> "poll"]}]

\* The same across a directory.
Directory == [Nothing EXCEPT
    !.indexes = {Static(<<"a">>), Static(<<"b">>), Template(<<<<"a">>, <<>>>>)},
    !.ids = {{"id"}},
    !.joins = {Join("r", "parent", ""), Join("r", "child", "a")},
    !.others = {[mapping |-> TRUE]},
    !.files = {[slot |-> "s1"], [name |-> <<"x">>], [metrics |-> "on"], [metrics |-> "off"],
               [flavor |-> "mysql"]}]

\* The tables read as somebody's.
Relations == [Nothing EXCEPT
    !.children = {Child("c", "x"), Through("c", "p"), Through("d", "p"), Through("d", "q"),
                  [Through("d", "p") EXCEPT !.through_key = ""],
                  [Through("d", "p") EXCEPT !.through = ""],
                  [Through("d", "p") EXCEPT !.through = "d"],
                  [Through("d", "p") EXCEPT !.through_key = "z"]},
    !.aggregates = {Aggregate("n", "y", "p"), Aggregate("c", "y", "q")}]

Draft(fs, opts, count) == [files |-> fs, options |-> opts, left |-> count]

Pair == <<File(<<"x">>, "s1", <<Section("t", "t"), Section("u", "u")>>)>>

\* Two sections that already write one index.
Shared == [Pair EXCEPT ![1].sync = [j \in 1..2 |-> [Pair[1].sync[j] EXCEPT !.index = <<<<"a">>>>]]]

MCDrafts == {
    Draft(<<File(<<"x">>, "s1", <<Section("t", "t")>>)>>, Shapes, 4),
    Draft(Pair, Indexes, 4),
    Draft(Shared, Indexes, 4),
    Draft(<<File(<<"x">>, "s1", <<Section("t", "t")>>),
            File(<<".", "y", ".", ".">>, "s2", <<Section("t", "t")>>)>>, Directory, 4),
    Draft(Pair, Relations, 4)}
=============================================================================
