------------------------------ MODULE MCIndex -------------------------------
(* TLC instance of Index. *)
EXTENDS Index, TLC

\* A selector, an id with a selector to fall back on, a node, an id, a text.
MCRequests ==
    {[NoRequest EXCEPT !.sel = "a"], [NoRequest EXCEPT !.ref = 1, !.sel = "div"],
     [NoRequest EXCEPT !.sel = "canvas"], [NoRequest EXCEPT !.id = "a", !.text = TRUE]}
    \cup {[NoRequest EXCEPT !.backend = n] : n \in Nodes}

MCSymmetry == Permutations(Nodes)
=============================================================================
