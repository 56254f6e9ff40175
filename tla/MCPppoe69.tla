------------------------------ MODULE MCPppoe69 ------------------------------
(* Instances of Pppoe69 for TLC. *)
EXTENDS Pppoe69, TLC
CONSTANTS h1, h2, a1, a2, ac

Open == [slots |-> 2, cli |-> {}, file |-> NoFile, learn |-> FALSE,
         owner |-> (a1 :> h1) @@ (a2 :> h2) @@ (ac :> NoHost), kinds |-> {}, faults |-> 0, edits |-> 0]

\* Faults, with room for one host or both; an allowlist, learned in memory or in a file; frames
\* of hosts and of the island; an address or a peer file that changes.
TestConfs == {
    [Open EXCEPT !.slots = 1, !.cli = {h1}, !.learn = TRUE, !.faults = 1],
    [Open EXCEPT !.faults = 1],
    [Open EXCEPT !.slots = 1, !.cli = {h1}, !.faults = 2],
    [Open EXCEPT !.cli = {h1}],
    [Open EXCEPT !.cli = {h1}, !.file = {}, !.learn = TRUE, !.edits = 1],
    [Open EXCEPT !.kinds = {"request", "nd"}],
    [Open EXCEPT !.kinds = {"request", "uni"}],
    [Open EXCEPT !.kinds = {"request"}, !.edits = 1],
    [Open EXCEPT !.kinds = {"request", "island"}],
    [Open EXCEPT !.kinds = {"discover", "island"}] }
=============================================================================
