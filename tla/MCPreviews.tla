----------------------------- MODULE MCPreviews -----------------------------
(* Two threads and two links: a fetch under way crosses a move of its own *)
(* link, and a batch of one has to choose between two.                    *)
EXTENDS Previews

=============================================================================
