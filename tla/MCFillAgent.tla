----------------------------- MODULE MCFillAgent -----------------------------
(* Two tickers; one is bought with a fee that does not divide evenly, sold   *)
(* in slices and re-bought; cash does not cover both tickers at once.  One   *)
(* row is malformed, one is a short sale, which the agent does not know, and *)
(* one is a sale whose fee is more than its proceeds.                        *)
EXTENDS FillAgent

Kind(t, a, q, p, f) ==
    [ticker |-> t, side |-> "long", action |-> a, quantity |-> q, price |-> p, fees |-> f]

MCFillKinds == {Kind("AAA", "buy", 3, 2, 2), Kind("AAA", "sell", 1, 3, 1),
                Kind("AAA", "sell", 2, 2, 0), Kind("BBB", "buy", 1, 4, 0),
                Kind("BBB", "buy", 0, 4, 0), Kind("AAA", "sell", 1, 1, 4),
                [Kind("BBB", "sell", 1, 4, 0) EXCEPT !.side = "short"]}
=============================================================================
