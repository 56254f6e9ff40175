------------------------------- MODULE MCBite -------------------------------
(* Instances of Bite for TLC. *)
EXTENDS Bite, TLC
CONSTANTS c1, c2

Ask(meth, tgt, size) == [kind |-> "req", meth |-> meth, target |-> tgt, size |-> size]
Index == Ask("BITE", <<"/">>, 1)
Page == Ask("BITE", <<"/", "p">>, 2)
Both(x, y) == (c1 :> x) @@ (c2 :> y)
Named == bait_label_from_pub(ServerKey)

\* One fetch of each of two clients; a document of one fragment and one of two, and one too large.
Plain2 == [label |-> Both(Named, NoLabel), id |-> Both("a", "b"), asks |-> {Page},
           docs |-> {[path |-> <<"/", "index">>, size |-> 1], [path |-> <<"/", "p">>, size |-> 2], [path |-> <<"/", "x">>, size |-> MaxFrags + 1]},
           runs |-> 1, troubles |-> {}]

\* Targets: a traversal, plain and escaped, a query, names with dots, escapes that are refused.
Targets ==
    {<<"/", "x">>, <<"/", "q">>, <<"p">>, <<"?">>, <<"/", "p", "?", "%2f">>, <<"/", "?", "p">>, <<"/", "%2f", "p">>, <<"/", ".", ".">>,
     <<"/", "%2e", ".", "/", "p">>, <<"/", ".", ".", "p">>, <<"/", ".", ".", ".", "/", "p">>, <<"/", "p", "/", ".", "%2e">>, <<"/", "%zz">>}

TestConfs == {
    [Plain2 EXCEPT !.asks = {Page, Index}],
    [Plain2 EXCEPT !.label = Both(<<"bait", "twin">>, Named), !.id = Both("a", "a"), !.runs = 2],
    [Plain2 EXCEPT !.troubles = {"lost", "send", "doc"}],
    [Plain2 EXCEPT !.troubles = {"slow", "err"}],
    [Plain2 EXCEPT !.asks = {Ask("HEAD", <<"/", "p">>, 1), Ask("POST", <<"/">>, 1)} \cup {Ask("BITE", t, 1) : t \in Targets}] }
=============================================================================
