------------------------------ MODULE MCPanel ------------------------------
(* A board of three rows: row 0 static, row 1 animated, row 2 scrolling.    *)
EXTENDS Panel, TLC

MCDynamic == "board" :> {1}
MCScroll == "board" :> {2} @@ "plain" :> {} @@ "show" :> {}
MCPalette == "board" :> "static" @@ "plain" :> "none" @@ "show" :> "animated"
MCReads == "board" :> "k" @@ "plain" :> "k" @@ "show" :> "j"
=============================================================================
